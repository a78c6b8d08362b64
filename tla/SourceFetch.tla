---------------------------- MODULE SourceFetch ----------------------------
(***************************************************************************)
(* The fetcher: Supervisor.fetchTick and fetchOne                          *)
(* (internal/core/supervisor.go) over the sources table                    *)
(* (internal/store/sources.go), with the HTTP servers it asks              *)
(* (internal/sources/fetch.go), the ingest of what they list               *)
(* (UpsertNodes), the cleanup of invalid nodes, the operator's "fetch now" *)
(* and on/off buttons (internal/ui/handler.go), and a crash at any point.  *)
(*                                                                         *)
(* A source publishes a version of its list under an ETag that is that     *)
(* version (Last-Modified is kept and sent in the same places, so etag     *)
(* stands for both).  Every version lists the node of the source that the  *)
(* nodes table row node[s] stands for; of a version in Long, which has     *)
(* more nodes than IngestMaxPerSource, fetchOne stores a random part, and  *)
(* that node is in it or not.                                              *)
(***************************************************************************)
EXTENDS Naturals, FiniteSets

CONSTANTS
    Sources,            \* the sources table
    SourceWorkers,      \* fetches of a tick that run at the same time
    FetchMaxPerTick,    \* LIMIT of GetSourcesDue
    Interval,           \* interval_sec, in clock ticks of five minutes
    Retention,          \* InvalidNodeRetention, in clock ticks
    Long,               \* versions that list more than IngestMaxPerSource nodes
    ETagOptional,       \* a list may come without an ETag header
    FailureHasETag,     \* a failed response may carry an ETag header
    StoreMayFail,       \* a statement may fail (SQLITE_BUSY); fetchOne drops the error
    Operators,          \* an operator presses buttons
    MaxClock,           \* bound: the clock
    MaxVersion          \* bound: versions a source publishes

ASSUME SourceFetchAssumption ==
    /\ {ETagOptional, FailureHasETag, StoreMayFail, Operators} \subseteq BOOLEAN
    /\ SourceWorkers \in Nat \ {0} /\ FetchMaxPerTick \in Nat \ {0}
    /\ {Interval, Retention, MaxClock, MaxVersion} \subseteq Nat
    /\ Long \subseteq Nat \ {0}

NoETag == 0
NoList == 0
NoNode == [seen |-> 0, invalid |-> FALSE]

\* A FetchResult; list is the version of its content, and kept becomes FALSE when
\* the cut leaves the node out.
Answer(ok, notModified, etag, list) ==
    [ok |-> ok, notModified |-> notModified, etag |-> etag, list |-> list, kept |-> TRUE]
NoAnswer == Answer(FALSE, FALSE, NoETag, NoList)

VARIABLES
    clock,      \* time.Now()
    src,        \* the sources table
    node,       \* the row of the node the source lists
    remote,     \* the version the source's server publishes
    tickNow,    \* now of the tick that runs, 0 between ticks
    fpc,        \* where the fetch of each source is
    fsrc,       \* the row of the source the tick read
    answer,     \* the FetchResult, after the cut
    button,     \* an operator's request between its read and its write
    ingested,   \* history: versions from which the node was stored
    cut,        \* history: versions that were stored without it
    recorded,   \* history: what the last recorded fetch brought
    notBefore   \* history: five minutes after the last fetch, if it failed

tickVars == <<tickNow, fpc, fsrc, answer>>
historyVars == <<ingested, cut, recorded, notBefore>>
vars == <<clock, src, node, remote, tickVars, button, historyVars>>

NoButton == [name |-> "none"]

Init ==
    /\ clock = 1
    /\ src = [s \in Sources |-> [enabled |-> TRUE, nextFetchAt |-> 1, backoffUntil |-> 0,
                                 lastFetchAt |-> 0, etag |-> NoETag]]
    /\ node = [s \in Sources |-> NoNode]
    /\ remote = [s \in Sources |-> 1]
    /\ tickNow = 0
    /\ fpc = [s \in Sources |-> "none"]
    /\ fsrc = src
    /\ answer = [s \in Sources |-> NoAnswer]
    /\ button = NoButton
    /\ ingested = [s \in Sources |-> {}]
    /\ cut = [s \in Sources |-> {}]
    /\ recorded = [s \in Sources |-> "nothing"]
    /\ notBefore = [s \in Sources |-> 0]

-----------------------------------------------------------------------------
(* The tick.                                                               *)

\* The WHERE clause of GetSourcesDue.
Due(s) ==
    /\ src[s].enabled
    /\ src[s].backoffUntil <= clock
    /\ src[s].nextFetchAt <= clock

\* fetchTick reads the due sources, at most FetchMaxPerTick.  Their order
\* depends on the yields of past checks: any choice is possible here.
BeginTick ==
    /\ tickNow = 0
    /\ \E chosen \in SUBSET {s \in Sources : Due(s)} :
          /\ chosen # {}
          /\ \/ Cardinality(chosen) = FetchMaxPerTick
             \/ /\ Cardinality(chosen) < FetchMaxPerTick
                /\ chosen = {s \in Sources : Due(s)}
          /\ fpc' = [s \in Sources |-> IF s \in chosen THEN "queued" ELSE "none"]
    /\ tickNow' = clock
    /\ fsrc' = src
    /\ UNCHANGED <<clock, src, node, remote, answer, button, historyVars>>

\* The sources that hold a slot of the semaphore.
ActiveLeaked ==     \* mutant: a slot is not given back when its fetch ends
    {s \in Sources : fpc[s] \in {"fetching", "upsert", "meta"} \/ src[s].lastFetchAt = tickNow}

Active == {s \in Sources : fpc[s] \in {"fetching", "upsert", "meta"}}
Goto(s, where) == fpc' = [fpc EXCEPT ![s] = where]

\* The semaphore of sourceWorkers admits the next source.
StartFetch(s) ==
    /\ fpc[s] = "queued"
    /\ Cardinality(Active) < SourceWorkers
    /\ Goto(s, "fetching")
    /\ UNCHANGED <<clock, src, node, remote, tickNow, fsrc, answer, button, historyVars>>

\* FetchText: 304 for the ETag that was sent, else the list, with its ETag or
\* without one (as a NodeMaven page always is); or no response; or a response
\* that fails after its headers (an error status, a body that breaks off or
\* takes longer than SourceTimeout).
Answers(s) ==
    {NoAnswer}
    \cup (IF FailureHasETag THEN {Answer(FALSE, FALSE, remote[s], NoList)} ELSE {})
    \cup (IF fsrc[s].etag = remote[s]
          THEN {Answer(TRUE, TRUE, remote[s], NoList)}
          ELSE {Answer(TRUE, FALSE, remote[s], remote[s])}
               \cup (IF ETagOptional THEN {Answer(TRUE, FALSE, NoETag, remote[s])} ELSE {}))

\* A list longer than IngestMaxPerSource is shuffled and cut: the node stays or not.
Shortened(a) ==
    {a} \cup (IF a.list \in Long THEN {[a EXCEPT !.kept = FALSE]} ELSE {})

\* The next step of fetchOne: only a new list is stored before the record.
NextStepRecord(a) == "meta"     \* mutant: the record is written without the list

NextStep(a) == IF a.ok /\ ~a.notModified THEN "upsert" ELSE "meta"

Fetch(s) ==
    /\ fpc[s] = "fetching"
    /\ \E result \in Answers(s) : \E a \in Shortened(result) :
          /\ answer' = [answer EXCEPT ![s] = a]
          /\ Goto(s, NextStep(a))
    /\ UNCHANGED <<clock, src, node, remote, tickNow, fsrc, button, historyVars>>

RelistedNot(n) ==      \* mutant: a row that is there is left alone
    IF n = NoNode THEN [seen |-> tickNow, invalid |-> FALSE] ELSE n
Relisted(n) == [seen |-> tickNow, invalid |-> n.invalid]

\* UpsertNodes in one transaction, of what the cut has left; its error is dropped.
Ingest(s) ==
    /\ fpc[s] = "upsert"
    /\ \/ /\ answer[s].kept
          /\ node' = [node EXCEPT ![s] = Relisted(@)]
          /\ ingested' = [ingested EXCEPT ![s] = @ \cup {answer[s].list}]
          /\ UNCHANGED cut
       \/ /\ ~answer[s].kept
          /\ cut' = [cut EXCEPT ![s] = @ \cup {answer[s].list}]
          /\ UNCHANGED <<node, ingested>>
       \/ StoreMayFail /\ UNCHANGED <<node, ingested, cut>>
    /\ Goto(s, "meta")
    /\ UNCHANGED <<clock, src, remote, tickNow, fsrc, answer, button, recorded, notBefore>>

BackoffFromPrev(now, prev) ==       \* mutant: counted from the old backoff
    IF prev <= now THEN prev + 1 ELSE IF prev - now < 2 THEN prev + 3 ELSE prev + 12

\* backoffUntil, in ticks of five minutes.
Backoff(now, prev) ==
    IF prev <= now THEN now + 1 ELSE IF prev - now < 2 THEN now + 3 ELSE now + 12

\* What fetchOne writes: the ETag of the response if it has one, success or not.
Meta(s) ==
    LET a == answer[s]
        until == IF a.ok THEN 0 ELSE Backoff(tickNow, fsrc[s].backoffUntil)
    IN [enabled |-> src[s].enabled,
        lastFetchAt |-> tickNow,
        etag |-> IF a.etag # NoETag THEN a.etag ELSE fsrc[s].etag,
        backoffUntil |-> until,
        nextFetchAt |-> IF a.ok THEN tickNow + Interval ELSE until]

\* What a fetch has brought of the node, for the history.
Brought(a) ==
    IF ~a.ok THEN "failure" ELSE IF a.notModified THEN "unchanged"
    ELSE IF a.kept THEN "list" ELSE "cut"

\* UpdateSourceFetchMeta at the end of fetchOne.
WriteMeta(s) ==
    /\ fpc[s] = "meta"
    /\ src' = [src EXCEPT ![s] = Meta(s)] \/ (StoreMayFail /\ UNCHANGED src)
    /\ recorded' = [recorded EXCEPT ![s] = Brought(answer[s])]
    /\ notBefore' = [notBefore EXCEPT ![s] = IF answer[s].ok THEN 0 ELSE tickNow + 1]
    /\ Goto(s, "none")
    /\ UNCHANGED <<clock, node, remote, tickNow, fsrc, answer, button, ingested, cut>>

TickNotAwaited == TRUE      \* mutant: fetchTick returns without waiting

\* fetchTick returns once every source of the tick has been read back.
TickDone == \A s \in Sources : fpc[s] = "none"

EndTick ==
    /\ tickNow # 0
    /\ TickDone
    /\ tickNow' = 0
    /\ UNCHANGED <<clock, src, node, remote, fpc, fsrc, answer, button, historyVars>>

-----------------------------------------------------------------------------
(* Everything else that writes the two tables.                             *)

\* A check of the node ends (NodeCheck).
Check(s) ==
    /\ node[s] # NoNode
    /\ \E bad \in BOOLEAN : node' = [node EXCEPT ![s].invalid = bad]
    /\ UNCHANGED <<clock, src, remote, tickVars, button, historyVars>>

\* PruneInvalidNodesBefore.
Cleanup ==
    /\ node' = [s \in Sources |-> IF node[s].invalid /\ node[s].seen + Retention < clock
                                  THEN NoNode ELSE node[s]]
    /\ UNCHANGED <<clock, src, remote, tickVars, button, historyVars>>

\* The handlers toggleSource and fetchSourceNow read the row ...
PressButton(s) ==
    /\ Operators /\ button = NoButton
    /\ \E name \in {"toggle", "fetchNow"} :
          button' = [name |-> name, source |-> s, row |-> src[s]]
    /\ UNCHANGED <<clock, src, node, remote, tickVars, historyVars>>

\* ... and write it back: the flag, or every field of the fetch's record.
ToggleSource ==
    /\ button.name = "toggle"
    /\ src' = [src EXCEPT ![button.source].enabled = ~button.row.enabled]
    /\ button' = NoButton
    /\ UNCHANGED <<clock, node, remote, tickVars, historyVars>>

FetchSourceNow ==
    /\ button.name = "fetchNow"
    /\ src' = [src EXCEPT ![button.source] =
                  [button.row EXCEPT !.enabled = src[button.source].enabled,
                                     !.nextFetchAt = clock, !.backoffUntil = 0]]
    /\ notBefore' = [notBefore EXCEPT ![button.source] = 0]
    /\ button' = NoButton
    /\ UNCHANGED <<clock, node, remote, tickVars, ingested, cut, recorded>>

\* The process dies and starts again: the tables stay.
Crash ==
    /\ tickNow' = 0
    /\ fpc' = [s \in Sources |-> "none"]
    /\ button' = NoButton
    /\ UNCHANGED <<clock, src, node, remote, fsrc, answer, historyVars>>

\* The server publishes another list.
Publish(s) ==
    /\ remote[s] < MaxVersion
    /\ remote' = [remote EXCEPT ![s] = @ + 1]
    /\ UNCHANGED <<clock, src, node, tickVars, button, historyVars>>

Tick ==
    /\ clock < MaxClock
    /\ clock' = clock + 1
    /\ UNCHANGED <<src, node, remote, tickVars, button, historyVars>>

Next ==
    \/ BeginTick \/ EndTick
    \/ \E s \in Sources : StartFetch(s) \/ Fetch(s) \/ Ingest(s) \/ WriteMeta(s)
    \/ \E s \in Sources : Check(s) \/ PressButton(s) \/ Publish(s)
    \/ ToggleSource \/ FetchSourceNow
    \/ Cleanup \/ Crash \/ Tick

\* A fetch ends because each of its requests has a timeout, and the loop of
\* fetchTick runs; nothing else is obliged to happen.
Fairness ==
    /\ WF_vars(EndTick)
    /\ \A s \in Sources : WF_vars(StartFetch(s) \/ Fetch(s) \/ Ingest(s) \/ WriteMeta(s))

Spec == Init /\ [][Next]_vars /\ Fairness

-----------------------------------------------------------------------------
(* Properties.                                                             *)

\* The ETag a source's row holds is that of a list that was stored, as far as
\* IngestMaxPerSource lets it: what the next 304 hides is in the table, or was
\* left out by the shuffle of a longer list. A crash between the two writes, and
\* an operator's button pressed during a fetch, must not break it.
ETagMeansIngested ==
    \A s \in Sources :
        LET etag == src[s].etag IN
        etag # NoETag => etag \in ingested[s] \/ (etag \in Long /\ etag \in cut[s])

\* A source whose fetch failed is left alone for five minutes at least, unless
\* an operator asks for it, across ticks, crashes and stale writes of buttons.
BackoffRespected ==
    \A s \in Sources : fpc[s] # "none" => tickNow >= notBefore[s]

\* The backoff grows: the second failure in a row is followed by a rest of 15
\* minutes at least (the comment of backoffUntil, supervisor.go:494).
BackoffEscalates ==
    [][\A s \in Sources :
          /\ src'[s].lastFetchAt # src[s].lastFetchAt
          /\ recorded[s] = "failure" /\ recorded'[s] = "failure"
          => src'[s].backoffUntil >= src'[s].lastFetchAt + 3]_vars

\* No source is picked while an earlier fetch of it runs: two fetches of one
\* source never write its record in the wrong order.
NoOverlap ==
    [][\A s \in Sources : fpc[s] \in {"fetching", "upsert", "meta"} => fpc'[s] # "queued"]_vars

\* A tick ends, however its sources share the slots of the semaphore.
TickEnds == tickNow # 0 ~> tickNow = 0

\* A node is not pruned while its source's last recorded fetch, no longer than
\* Retention ago, brought a list that has it and from which IngestMaxPerSource
\* has not cut it: neither a crash nor a button between the writes of the two
\* tables, nor a longer list before or after, breaks that.
ListedNodeIsKept ==
    [][\A s \in Sources :
          node[s] # NoNode /\ node'[s] = NoNode =>
              recorded[s] # "list" \/ src[s].lastFetchAt + Retention < clock]_vars

\* README.md:231: the cleanup deletes the invalid nodes that have not appeared again
\* for INVALID_NODE_RETENTION. A fetch has the node on its list if it brings the
\* list, whole or cut, and if it learns by a 304 that the list is the same; but
\* the last two leave last_seen_at alone.
ReappearedNodeIsKept ==
    [][\A s \in Sources :
          node[s] # NoNode /\ node'[s] = NoNode =>
              \/ recorded[s] \in {"nothing", "failure"}
              \/ src[s].lastFetchAt + Retention < clock]_vars
=============================================================================
