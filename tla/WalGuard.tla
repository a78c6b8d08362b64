------------------------------ MODULE WalGuard ------------------------------
(***************************************************************************)
(* The guard of SQLite's write-ahead log: Store.EnforceWALSizeLimit        *)
(* (internal/store/wal.go), called every 15 seconds by main and by every   *)
(* loop that finds the log above the hard limit (pauseForWALPressure of    *)
(* the supervisor and of the workers), with the two limits as              *)
(* config.Load and store.OpenWithOptions derive them from the environment. *)
(*                                                                         *)
(* SQLite is external, and modelled as its documentation has it: a commit  *)
(* appends to the log unless all of it is in the database and no reader    *)
(* uses it, when it starts the log over and cuts the file to               *)
(* journal_size_limit; PASSIVE copies what readers allow and cuts nothing; *)
(* RESTART and TRUNCATE hold the write lock and wait for the readers of    *)
(* the log, at most for busy_timeout.  Sizes are in units of one commit.   *)
(***************************************************************************)
EXTENDS Naturals, FiniteSets

CONSTANTS
    Loops,          \* worker, fetchLoop, validateLoop: loops the guard may pause
    Ticker,         \* the goroutine of main that enforces the limit on its own
    Readers,        \* connections that read
    SizeLimitEnv,   \* SQLITE_WAL_SIZE_LIMIT, 0 for a value that is not positive
    HardLimitEnv,   \* SQLITE_WAL_HARD_LIMIT
    DefaultLimit,   \* 100 MiB, the limit of a store opened without one
    MaxBusy,        \* bound: checkpoints whose readers outlast busy_timeout
    MaxLog          \* bound: the size of the log

Guards == Loops \cup {Ticker}
Nobody == "nobody"

ASSUME WalAssumption ==
    /\ Ticker \notin Loops /\ Nobody \notin Guards
    /\ {SizeLimitEnv, HardLimitEnv, DefaultLimit, MaxBusy, MaxLog} \subseteq Nat
    /\ DefaultLimit > 0

\* config.Load: the hard limit is not below the size limit it read ...
HardLimit == IF HardLimitEnv < SizeLimitEnv THEN SizeLimitEnv ELSE HardLimitEnv
\* ... but the store puts its default for a size limit that is not positive.
SizeLimit == IF SizeLimitEnv = 0 THEN DefaultLimit ELSE SizeLimitEnv

VARIABLES
    file,       \* size of the -wal file
    log,        \* commits in the log
    copied,     \* the whole log is in the database
    reading,    \* readers whose snapshot is in the log
    waitsFor,   \* readers a RESTART or a TRUNCATE waits for
    gpc,        \* where each loop and the ticker are
    walMu,      \* who holds s.walMu
    busies      \* checkpoints that gave up so far (for the bound)

walVars == <<file, log, copied, reading, waitsFor, gpc, walMu, busies>>

WalInit ==
    /\ file = 0 /\ log = 0 /\ copied = TRUE
    /\ reading = {} /\ waitsFor = {}
    /\ gpc = [g \in Guards |-> "top"]
    /\ walMu = Nobody
    /\ busies = 0

-----------------------------------------------------------------------------
(* SQLite.                                                                 *)

\* A RESTART or a TRUNCATE holds the write lock.
WriteLocked == \E g \in Guards : gpc[g] \in {"restarting", "truncating"}

Least(a, b) == IF a < b THEN a ELSE b
Greatest(a, b) == IF a > b THEN a ELSE b

\* A commit; the automatic checkpoint that may follow is a PASSIVE one.
Commit ==
    /\ ~WriteLocked
    /\ IF copied /\ reading = {}
       THEN log' = 1 /\ file' = Greatest(1, Least(file, SizeLimit))
       ELSE /\ log < MaxLog
            /\ log' = log + 1 /\ file' = Greatest(file, log + 1)
    /\ copied' \in {FALSE, reading = {}}

BeginRead(r) ==
    /\ r \notin reading
    /\ ~copied
    /\ reading' = reading \cup {r}
    /\ UNCHANGED <<file, log, copied, waitsFor, gpc, walMu, busies>>

EndRead(r) ==
    /\ r \in reading
    /\ reading' = reading \ {r}
    /\ waitsFor' = waitsFor \ {r}
    /\ UNCHANGED <<file, log, copied, gpc, walMu, busies>>

-----------------------------------------------------------------------------
(* The guard.                                                              *)

GoesTo(g, pc) == gpc' = [gpc EXCEPT ![g] = pc]

\* pauseForWALPressure looks at the size; the ticker always enforces.
LookAtLog(g) ==
    /\ gpc[g] = "top"
    /\ GoesTo(g, IF g = Ticker \/ (HardLimit > 0 /\ file > HardLimit) THEN "lock" ELSE "work")
    /\ UNCHANGED <<file, log, copied, reading, waitsFor, walMu, busies>>

LockIgnored == TRUE         \* mutant: nobody takes walMu
LockFree == walMu = Nobody

\* EnforceWALSizeLimit: nothing to do up to the size limit.
Enforce(g) ==
    /\ gpc[g] = "lock" /\ LockFree
    /\ IF file <= SizeLimit THEN GoesTo(g, "pause") /\ UNCHANGED walMu
       ELSE GoesTo(g, "passive") /\ walMu' = g
    /\ UNCHANGED <<file, log, copied, reading, waitsFor, busies>>

\* What follows a checkpoint: the size is read again.
AfterCheckpoint(g, size, next) ==
    IF size <= SizeLimit THEN GoesTo(g, "pause") /\ walMu' = Nobody
    ELSE GoesTo(g, next) /\ UNCHANGED walMu

Passive(g) ==
    /\ gpc[g] = "passive"
    /\ copied' = (copied \/ (reading = {}))
    /\ AfterCheckpoint(g, file, "restart")
    /\ UNCHANGED <<file, log, reading, waitsFor, busies>>

\* RESTART and TRUNCATE begin: what is read now is waited for.
BeginBlocking(g) ==
    /\ gpc[g] \in {"restart", "truncate"}
    /\ ~WriteLocked
    /\ waitsFor' = reading
    /\ GoesTo(g, IF gpc[g] = "restart" THEN "restarting" ELSE "truncating")
    /\ UNCHANGED <<file, log, copied, reading, walMu, busies>>

Restarted(g) ==
    /\ gpc[g] = "restarting" /\ waitsFor = {}
    /\ copied' = TRUE
    /\ AfterCheckpoint(g, file, "truncate")
    /\ UNCHANGED <<file, log, reading, waitsFor, busies>>

TruncatesNever == FALSE     \* mutant: the ladder ends with RESTART
Truncates == TRUE           \* the last rung of the ladder cuts the file

Truncated(g) ==
    /\ gpc[g] = "truncating" /\ waitsFor = {}
    /\ copied' = TRUE
    /\ IF Truncates THEN log' = 0 /\ file' = 0 ELSE UNCHANGED <<log, file>>
    /\ GoesTo(g, "pause") /\ walMu' = Nobody
    /\ UNCHANGED <<reading, waitsFor, busies>>

\* busy_timeout ends the wait: the row says Busy, the error is nil.
Busy(g) ==
    /\ busies < MaxBusy /\ busies' = busies + 1
    /\ gpc[g] \in {"restarting", "truncating"} /\ waitsFor # {}
    /\ waitsFor' = {}
    /\ IF gpc[g] = "restarting" THEN AfterCheckpoint(g, file, "truncate")
       ELSE GoesTo(g, "pause") /\ walMu' = Nobody
    /\ UNCHANGED <<file, log, copied, reading>>

\* The pause of a loop, or the wait of the ticker, ends.
EndOfPause(g) ==
    /\ gpc[g] = "pause"
    /\ GoesTo(g, "top")
    /\ UNCHANGED <<file, log, copied, reading, waitsFor, walMu, busies>>

\* A loop below the limit does its work: one commit, or none.
Work(g) ==
    /\ gpc[g] = "work"
    /\ Commit \/ UNCHANGED <<file, log, copied>>
    /\ GoesTo(g, "top")
    /\ UNCHANGED <<reading, waitsFor, walMu, busies>>

\* The cleanup, a button, a check that was already running.
UnguardedCommit ==
    /\ Commit
    /\ UNCHANGED <<reading, waitsFor, gpc, walMu, busies>>

GuardStep(g) ==
    \/ LookAtLog(g) \/ Enforce(g) \/ Passive(g) \/ BeginBlocking(g)
    \/ Restarted(g) \/ Truncated(g) \/ Busy(g) \/ EndOfPause(g) \/ Work(g)

WalNext ==
    \/ \E g \in Guards : GuardStep(g)
    \/ \E r \in Readers : BeginRead(r) \/ EndRead(r)
    \/ UnguardedCommit

\* The loops and the ticker run, sync.Mutex starves nobody, and a query ends.
WalFairness ==
    /\ \A g \in Guards : SF_walVars(Enforce(g)) /\ WF_walVars(GuardStep(g))
    /\ \A r \in Readers : WF_walVars(EndRead(r))

WalSpec == WalInit /\ [][WalNext]_walVars /\ WalFairness

-----------------------------------------------------------------------------
\* One checkpoint at a time, by the holder of walMu, and the log is no larger
\* than its file: a pause that ends during another's checkpoint leaves it alone.
LadderExclusive ==
    /\ \A g \in Guards :
          (gpc[g] \in {"passive", "restart", "restarting", "truncate", "truncating"})
              <=> walMu = g
    /\ waitsFor \subseteq reading
    /\ log <= file

\* A log above the hard limit comes back under it: the pause of fetching and
\* checking that the limit begins lets the checkpoint catch up
\* (SQLITE_WAL_HARD_LIMIT, README.md:229), and ends.
WalRecovers == file > HardLimit ~> file <= HardLimit
=============================================================================
