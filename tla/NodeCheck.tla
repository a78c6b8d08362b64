----------------------------- MODULE NodeCheck -----------------------------
(***************************************************************************)
(* The nodes and checks tables and everything that writes them:            *)
(* Validator.runOne step by step (internal/validator/validator.go), the    *)
(* store operations it calls (internal/store/nodes.go, cleanup.go), the    *)
(* ingest of the fetcher, the cleanup loop and the ban buttons of the UI.  *)
(*                                                                         *)
(* Each SQL statement or transaction is one action: between two of them    *)
(* any other worker, the cleanup or an operator may act.  A worker runs a  *)
(* task that names a node id, of which ValidatorQueue keeps one per node   *)
(* in flight (OneTaskPerFlight), or a source sample, which names a         *)
(* fingerprint and is not covered by that.                                 *)
(***************************************************************************)
EXTENDS Naturals, Sequences, FiniteSets

CONSTANTS
    Fingerprints,       \* node fingerprints (UNIQUE in the table)
    Workers,            \* validator workers
    Sampling,           \* whether the fetcher enqueues source samples
    StoreMayFail,       \* a statement may fail (SQLITE_BUSY); no caller looks
    Retention,          \* InvalidNodeRetention, in clock ticks
    ChecksRetention,    \* ChecksRetention, in clock ticks
    ManualBan,          \* the 24 h of the ban button, in clock ticks
    MaxFetchDelay,      \* bound: age of a fetch's now when its nodes are stored
    MaxClock,           \* bound: the clock
    MaxChecks,          \* bound: checks begun
    MaxIds              \* bound: rows ever inserted

ASSUME NodeCheckAssumption ==
    /\ Fingerprints # {}
    /\ Sampling \in BOOLEAN /\ StoreMayFail \in BOOLEAN
    /\ Retention \in Nat /\ ChecksRetention \in Nat /\ ManualBan \in Nat
    /\ MaxFetchDelay \in Nat /\ MaxClock \in Nat /\ MaxChecks \in Nat /\ MaxIds \in Nat

\* 5 min, 15 min and 1 h as clock ticks; their order is what matters.
FiveMinutes == 1
FifteenMinutes == 2
OneHour == 3

NoRow == [id |-> 0]
VARIABLES
    clock,      \* time.Now(), in ticks
    row,        \* the nodes table, by fingerprint
    nextId,     \* the AUTOINCREMENT sequence of nodes.id
    checks,     \* the checks table
    pc,         \* where each worker is in runOne
    job,        \* its task: a node id or a fingerprint (id = 0)
    checkedAt,  \* its now, taken on entry
    snap,       \* the row it loaded
    outcome,    \* ok of its probe
    begun,      \* checks begun so far (for the bound)
    cutoff,     \* now of a cleanup between its two statements, else 0
    log,        \* history: per row, the applied checks in commit order
    promised    \* history: per row, until when an operator banned it

tableVars == <<row, nextId, checks, log, promised>>
workerVars == <<pc, job, checkedAt, snap, outcome, begun>>
vars == <<clock, tableVars, workerVars, cutoff>>

Exists(f) == row[f] # NoRow
WithId(i) == {f \in Fingerprints : Exists(f) /\ row[f].id = i}

\* born is history: which insert of the table made the row.
NewRow(i, at) ==
    [id |-> i, born |-> nextId, status |-> "unknown", lastSeen |-> at, lastChecked |-> 0, lastOK |-> 0,
     okCount |-> 0, failCount |-> 0, failStreak |-> 0, banUntil |-> 0]

-----------------------------------------------------------------------------
Init ==
    /\ clock = 1
    /\ row = [f \in Fingerprints |-> NoRow]
    /\ nextId = 1
    /\ checks = {}
    /\ pc = [w \in Workers |-> "idle"]
    /\ job = [w \in Workers |-> [id |-> 0, fp |-> CHOOSE f \in Fingerprints : TRUE]]
    /\ checkedAt = [w \in Workers |-> 0]
    /\ snap = [w \in Workers |-> NoRow]
    /\ outcome = [w \in Workers |-> FALSE]
    /\ begun = 0
    /\ cutoff = 0
    /\ log = [f \in Fingerprints |-> <<>>]
    /\ promised = [f \in Fingerprints |-> 0]

Tick ==
    /\ clock < MaxClock
    /\ clock' = clock + 1
    /\ UNCHANGED <<tableVars, workerVars, cutoff>>

-----------------------------------------------------------------------------
(* The store.                                                              *)

\* The id of an inserted row: AUTOINCREMENT never gives one out twice.
ReusedId ==     \* mutant: INTEGER PRIMARY KEY alone, one above the largest in use
    CHOOSE i \in 1 .. MaxIds :
        /\ \A f \in Fingerprints : row[f].id < i
        /\ i = 1 \/ \E f \in Fingerprints : row[f].id = i - 1

InsertedId == nextId

\* UpsertNodes for one fingerprint: insert, or refresh last_seen_at.
Upsert(f, at) ==
    IF Exists(f)
    THEN /\ row' = [row EXCEPT ![f].lastSeen = at]
         /\ UNCHANGED <<nextId, checks, log, promised>>
    ELSE /\ nextId <= MaxIds
         /\ row' = [row EXCEPT ![f] = NewRow(InsertedId, at)]
         /\ nextId' = nextId + 1
         /\ log' = [log EXCEPT ![f] = <<>>]
         /\ promised' = [promised EXCEPT ![f] = 0]
         /\ UNCHANGED checks

CheckedNoReset(r, at, ok) ==        \* mutant: a success keeps fail_streak
    IF ok THEN [r EXCEPT !.status = "valid", !.lastChecked = at, !.lastOK = at,
                         !.okCount = @ + 1]
    ELSE [r EXCEPT !.status = "invalid", !.lastChecked = at, !.failCount = @ + 1,
                   !.failStreak = @ + 1]

\* The row ApplyNodeCheck leaves: counters are incremented in SQL.
Checked(r, at, ok) ==
    IF ok THEN [r EXCEPT !.status = "valid", !.lastChecked = at, !.lastOK = at,
                         !.okCount = @ + 1, !.failStreak = 0]
    ELSE [r EXCEPT !.status = "invalid", !.lastChecked = at, !.failCount = @ + 1,
                   !.failStreak = @ + 1]

\* ApplyNodeCheck: one transaction; the foreign key of checks makes it fail
\* as a whole when the node is gone, and the caller ignores the error.
ApplyNodeCheck(i, f, at, ok, born) ==
    IF WithId(i) = {}
    THEN UNCHANGED tableVars
    ELSE /\ checks' = checks \cup {[id |-> i, fp |-> f, at |-> at, ok |-> ok, born |-> born]}
         /\ row' = [g \in Fingerprints |->
                       IF g \in WithId(i) THEN Checked(row[g], at, ok) ELSE row[g]]
         /\ log' = [g \in Fingerprints |->
                       IF g \in WithId(i) THEN Append(log[g], [at |-> at, ok |-> ok]) ELSE log[g]]
         /\ UNCHANGED <<nextId, promised>>

\* BanNode and UnbanNode: an UPDATE of the row with that id, if any.
SetBan(i, until) ==
    row' = [g \in Fingerprints |->
               IF g \in WithId(i) THEN [row[g] EXCEPT !.banUntil = until] ELSE row[g]]

-----------------------------------------------------------------------------
(* runOne.                                                                 *)

Goto(w, where) == pc' = [pc EXCEPT ![w] = where]

AnyTask(i) == TRUE      \* mutant: Enqueue does not look at inFlight

\* inFlight: at most one popped task per node id (ValidatorQueue).
NotInFlight(i) == \A v \in Workers : pc[v] = "idle" \/ job[v].id # i

\* A popped task that names a node id.
BeginNode(w, i) ==
    /\ pc[w] = "idle" /\ begun < MaxChecks
    /\ NotInFlight(i)
    /\ job' = [job EXCEPT ![w].id = i]
    /\ checkedAt' = [checkedAt EXCEPT ![w] = clock]
    /\ begun' = begun + 1
    /\ Goto(w, "load")
    /\ UNCHANGED <<clock, tableVars, snap, outcome, cutoff>>

\* A popped source sample: it upserts its node, whatever happened to it since.
BeginSample(w, f) ==
    /\ Sampling
    /\ pc[w] = "idle" /\ begun < MaxChecks
    /\ job' = [job EXCEPT ![w] = [id |-> 0, fp |-> f]]
    /\ checkedAt' = [checkedAt EXCEPT ![w] = clock]
    /\ begun' = begun + 1
    /\ Goto(w, "load")
    /\ Upsert(f, clock) \/ (StoreMayFail /\ UNCHANGED tableVars)
    /\ UNCHANGED <<clock, snap, outcome, cutoff>>

Target(w) == IF job[w].id = 0 THEN {f \in {job[w].fp} : Exists(f)} ELSE WithId(job[w].id)

\* Load the row: not found or banned ends the task without a check.
Load(w) ==
    /\ pc[w] = "load"
    /\ LET found == {f \in Target(w) : row[f].banUntil <= checkedAt[w]}
       IN IF found = {}
          THEN /\ Goto(w, "idle")
               /\ UNCHANGED <<job, snap>>
          ELSE \E f \in found :
                 /\ snap' = [snap EXCEPT ![w] = row[f]]
                 /\ job' = [job EXCEPT ![w].fp = f]
                 /\ Goto(w, "probe")
    /\ UNCHANGED <<clock, tableVars, checkedAt, outcome, begun, cutoff>>

\* checkProxy or checkV2Ray: the network decides.
Probe(w) ==
    /\ pc[w] = "probe"
    /\ \E ok \in BOOLEAN : outcome' = [outcome EXCEPT ![w] = ok]
    /\ Goto(w, "apply")
    /\ UNCHANGED <<clock, tableVars, job, checkedAt, snap, begun, cutoff>>

StreakBefore(w) == snap[w].failStreak       \* mutant: this failure is not counted

\* The streak runOne reckons with is the one it loaded, not the row's.
Streak(w) == snap[w].failStreak + 1

Apply(w) ==
    /\ pc[w] = "apply"
    /\ \/ ApplyNodeCheck(snap[w].id, job[w].fp, checkedAt[w], outcome[w], snap[w].born)
       \/ StoreMayFail /\ UNCHANGED tableVars
    /\ Goto(w, IF ~outcome[w] /\ Streak(w) >= 3 THEN "ban" ELSE "idle")
    /\ UNCHANGED <<clock, job, checkedAt, snap, outcome, begun, cutoff>>

BanFor(streak) ==
    IF streak >= 5 THEN OneHour ELSE IF streak = 4 THEN FifteenMinutes ELSE FiveMinutes

\* "auto backoff"
AutoBan(w) ==
    /\ pc[w] = "ban"
    /\ \/ SetBan(snap[w].id, clock + BanFor(Streak(w)))
       \/ StoreMayFail /\ UNCHANGED row
    /\ Goto(w, "idle")
    /\ UNCHANGED <<clock, nextId, checks, log, promised, job, checkedAt, snap, outcome, begun,
                   cutoff>>

RunOne(w) ==
    \/ \E i \in 1 .. nextId - 1 : BeginNode(w, i)
    \/ \E f \in Fingerprints : BeginSample(w, f)
    \/ Load(w) \/ Probe(w) \/ Apply(w) \/ AutoBan(w)

-----------------------------------------------------------------------------
(* The other writers.                                                      *)

\* The fetcher finds the node in a source again; it stamps the node with the
\* now of its tick, which slow sources have long left behind.
Ingest(f) ==
    /\ \E d \in 0 .. MaxFetchDelay : d < clock /\ Upsert(f, clock - d)
    /\ UNCHANGED <<clock, workerVars, cutoff>>

\* cleanupOnce: old checks go first ...
PruneChecks ==
    /\ cutoff = 0
    /\ cutoff' = clock
    /\ checks' = {k \in checks : k.at + ChecksRetention >= clock}
    /\ UNCHANGED <<clock, row, nextId, log, promised, workerVars>>

Prunable(f) == Exists(f) /\ row[f].status = "invalid" /\ row[f].lastSeen + Retention < cutoff

\* ... then the invalid nodes not seen for Retention, and their checks with
\* them (ON DELETE CASCADE).
PruneInvalidNodes ==
    /\ cutoff # 0
    /\ cutoff' = 0
    /\ row' = [f \in Fingerprints |-> IF Prunable(f) THEN NoRow ELSE row[f]]
    /\ checks' = {k \in checks : \A f \in Fingerprints : Prunable(f) => row[f].id # k.id}
    /\ log' = [f \in Fingerprints |-> IF Prunable(f) THEN <<>> ELSE log[f]]
    /\ promised' = [f \in Fingerprints |-> IF Prunable(f) THEN 0 ELSE promised[f]]
    /\ UNCHANGED <<clock, nextId, workerVars>>

\* The operator's buttons.
BanButton(f) ==
    /\ Exists(f)
    /\ SetBan(row[f].id, clock + ManualBan)
    /\ promised' = [promised EXCEPT ![f] = clock + ManualBan]
    /\ UNCHANGED <<clock, nextId, checks, log, workerVars, cutoff>>

UnbanButton(f) ==
    /\ Exists(f)
    /\ SetBan(row[f].id, 0)
    /\ promised' = [promised EXCEPT ![f] = 0]
    /\ UNCHANGED <<clock, nextId, checks, log, workerVars, cutoff>>

Next ==
    \/ Tick
    \/ \E w \in Workers : RunOne(w)
    \/ \E f \in Fingerprints : Ingest(f) \/ BanButton(f) \/ UnbanButton(f)
    \/ PruneChecks \/ PruneInvalidNodes

Spec == Init /\ [][Next]_vars

-----------------------------------------------------------------------------
(* Properties.                                                             *)

Passed(f) == {k \in DOMAIN log[f] : log[f][k].ok}
\* The failures after the last success.
Trailing(f) == {k \in DOMAIN log[f] : \A m \in k .. Len(log[f]) : ~log[f][m].ok}

\* No lost update: whatever workers check a node at the same time, its
\* counters, its streak and its status are those of the checks applied to it
\* since it was inserted, in the order they were committed.
CountersMatchLog ==
    \A f \in Fingerprints : Exists(f) =>
        /\ row[f].okCount = Cardinality(Passed(f))
        /\ row[f].failCount = Len(log[f]) - Cardinality(Passed(f))
        /\ row[f].failStreak = Cardinality(Trailing(f))
        /\ row[f].status = IF log[f] = <<>> THEN "unknown"
                           ELSE IF log[f][Len(log[f])].ok THEN "valid" ELSE "invalid"

\* A check is only ever recorded against the node it measured, although the
\* node may be pruned, and even come back, while the check is running: the row
\* of a check is the very row its worker loaded, not a later one.
ChecksBelong ==
    \A k \in checks : Exists(k.fp) /\ row[k.fp].id = k.id /\ row[k.fp].born = k.born

\* Without source samples, an automatic ban follows at least three failures in
\* a row and lasts as long as the streak the table shows, although runOne
\* reckons with the streak it loaded before the probe.
AutoBanMatchesStreak ==
    [][\A w \in Workers :
          pc[w] = "ban" /\ pc'[w] = "idle" =>
              \A f \in WithId(snap[w].id) :
                  /\ row[f].failStreak >= 3
                  /\ row'[f].banUntil = clock + BanFor(row[f].failStreak)]_vars

\* A valid node's most recent check passed: no failed check that began later
\* than the check its status comes from has been applied to it.  "Most recent"
\* is the UI's wording (internal/ui/assets/templates/overview.html:105).
ValidMeansLatestCheckOK ==
    \A f \in Fingerprints : Exists(f) /\ row[f].status = "valid" =>
        \A k \in DOMAIN log[f] : ~log[f][k].ok => log[f][k].at <= row[f].lastChecked

\* A node an operator banned for 24 hours stays banned that long, unless an
\* operator lifts the ban (the button of internal/ui/assets/templates/nodes.html:190).
ManualBanHolds ==
    \A f \in Fingerprints : Exists(f) => row[f].banUntil >= promised[f]
=============================================================================
