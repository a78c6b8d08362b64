------------------------- MODULE SourceFetchProofs -------------------------
(***************************************************************************)
(* Proofs about SourceFetch for any number of sources and of workers, with *)
(* crashes and operators.  That two fetches of a source never overlap holds *)
(* whatever fails; the others need the statements of fetchOne to succeed,  *)
(* since fetchOne drops their errors.                                      *)
(***************************************************************************)
EXTENDS SourceFetch, TLAPS

SourceRows == [enabled : BOOLEAN, nextFetchAt : Nat, backoffUntil : Nat,
               lastFetchAt : Nat, etag : Nat]
Results == [ok : BOOLEAN, notModified : BOOLEAN, etag : Nat, list : Nat, kept : BOOLEAN]
Requests == [name : {"toggle", "fetchNow"}, source : Sources, row : SourceRows]

Typed ==
    /\ clock \in Nat \ {0}
    /\ src \in [Sources -> SourceRows]
    /\ node \in [Sources -> [seen : Nat, invalid : BOOLEAN]]
    /\ remote \in [Sources -> Nat \ {0}]
    /\ tickNow \in Nat
    /\ fpc \in [Sources -> {"none", "queued", "fetching", "upsert", "meta"}]
    /\ fsrc \in [Sources -> SourceRows]
    /\ answer \in [Sources -> Results]
    /\ button \in Requests \cup {NoButton}
    /\ notBefore \in [Sources -> Nat]
    /\ recorded \in [Sources -> {"nothing", "failure", "unchanged", "list", "cut"}]
    /\ ingested \in [Sources -> SUBSET Nat]
    /\ cut \in [Sources -> SUBSET Nat]

\* Nothing is fetched between two ticks, and now is not in the future.
TickInv ==
    /\ tickNow = 0 => \A s \in Sources : fpc[s] = "none"
    /\ tickNow <= clock

FetchInv == Typed /\ TickInv

-----------------------------------------------------------------------------
(* Types, and the tick.                                                    *)

\* What fetchOne records is a row of the table.
LEMMA MetaIsRow ==
    ASSUME SourceFetchAssumption, Typed, NEW s \in Sources
    PROVE  /\ Meta(s) \in SourceRows
           /\ Meta(s).lastFetchAt = tickNow
           /\ Meta(s).etag = IF answer[s].etag # NoETag THEN answer[s].etag ELSE fsrc[s].etag
           /\ Meta(s).backoffUntil >= IF answer[s].ok THEN 0 ELSE tickNow + 1
<1> DEFINE a == answer[s]
           until == IF a.ok THEN 0 ELSE Backoff(tickNow, fsrc[s].backoffUntil)
<1>1. fsrc[s] \in SourceRows /\ src[s] \in SourceRows /\ tickNow \in Nat /\ Interval \in Nat
      /\ a \in Results
  BY DEF Typed, SourceFetchAssumption
<1>2. fsrc[s].backoffUntil \in Nat /\ fsrc[s].etag \in Nat /\ src[s].enabled \in BOOLEAN
      /\ a.ok \in BOOLEAN /\ a.etag \in Nat
  BY <1>1 DEF SourceRows, Results
<1>3. Backoff(tickNow, fsrc[s].backoffUntil) \in Nat
      /\ Backoff(tickNow, fsrc[s].backoffUntil) >= tickNow + 1
  BY <1>1, <1>2 DEF Backoff
<1> HIDE DEF a
<1>4. until \in Nat /\ until >= IF a.ok THEN 0 ELSE tickNow + 1
  BY <1>1, <1>2, <1>3
<1> HIDE DEF until
<1>5. Meta(s) = [enabled |-> src[s].enabled, lastFetchAt |-> tickNow,
                 etag |-> IF a.etag # NoETag THEN a.etag ELSE fsrc[s].etag,
                 backoffUntil |-> until,
                 nextFetchAt |-> IF a.ok THEN tickNow + Interval ELSE until]
  BY DEF Meta, until, a
<1>6. (IF a.ok THEN tickNow + Interval ELSE until) \in Nat
      /\ (IF a.etag # NoETag THEN a.etag ELSE fsrc[s].etag) \in Nat
  BY <1>1, <1>2, <1>4
<1> QED
  BY <1>1, <1>2, <1>4, <1>5, <1>6 DEF SourceRows, a

\* Nothing is fetched, and no source was, at first.
LEMMA TypedInitially == Init => FetchInv
BY DEF Init, FetchInv, Typed, TickInv, SourceRows, Results, NoETag, NoList, NoNode, NoAnswer,
       Answer

\* What a source may answer, before and after the cut: an unchanged list has the
\* ETag that was sent, a failure has none unless FailureHasETag says so, a list has
\* its own or none, and the node is missing only from a longer one.
LEMMA AnswersTyped ==
    ASSUME SourceFetchAssumption, Typed, NEW s \in Sources, NEW result \in Answers(s),
           NEW a \in Shortened(result)
    PROVE  /\ a \in Results
           /\ a.ok /\ a.notModified => a.etag = fsrc[s].etag
           /\ ~a.ok => a.etag = NoETag \/ FailureHasETag
           /\ a.ok /\ ~a.notModified => a.etag \in {NoETag, a.list} /\ (a.kept \/ a.list \in Long)
<1> DEFINE failures == {Answer(FALSE, FALSE, NoETag, NoList), Answer(FALSE, FALSE, remote[s], NoList)}
           lists == {Answer(TRUE, FALSE, remote[s], remote[s]), Answer(TRUE, FALSE, NoETag, remote[s])}
           same == Answer(TRUE, TRUE, remote[s], NoList)
<1>1. remote[s] \in Nat \ {0}
  BY DEF Typed
<1>2. result \in failures \cup lists \cup {same}
  BY DEF Answers, NoAnswer
<1>3. a = result \/ (a = [result EXCEPT !.kept = FALSE] /\ result.list \in Long)
  BY DEF Shortened
<1>4. CASE result \in failures
  <2>1. result.list = NoList /\ NoList \notin Long
    BY <1>4 DEF Answer, NoList, SourceFetchAssumption
  <2>2. a = result
    BY <1>3, <2>1
  <2>3. result = Answer(FALSE, FALSE, NoETag, NoList) \/ FailureHasETag
    <3> SUFFICES ASSUME ~FailureHasETag
                 PROVE  result = Answer(FALSE, FALSE, NoETag, NoList)
      OBVIOUS
    <3>1. ~result.ok
      BY <1>4 DEF Answer
    <3>2. \A x \in lists \cup {same} : x.ok
      BY DEF Answer
    <3> QED
      BY <3>1, <3>2 DEF Answers, NoAnswer
  <2>4. PICK etag \in {NoETag, remote[s]} : a = Answer(FALSE, FALSE, etag, NoList)
    BY <1>4, <2>2
  <2>5. etag \in Nat /\ NoList \in Nat
    BY <1>1, <2>4 DEF NoETag, NoList
  <2>6. a \in Results /\ a.ok = FALSE
    BY <2>4, <2>5 DEF Answer, Results
  <2>7. a.etag = NoETag \/ FailureHasETag
    BY <2>2, <2>3 DEF Answer
  <2> QED
    BY <2>6, <2>7
<1>5. CASE result = same
  <2>1. result.list = NoList /\ NoList \notin Long
    BY <1>5 DEF Answer, NoList, SourceFetchAssumption
  <2>2. a = same
    BY <1>3, <1>5, <2>1
  <2>3. fsrc[s].etag = remote[s]
    <3>1. \A x \in failures \cup lists : x # same
      BY DEF Answer
    <3> QED
      BY <1>5, <3>1 DEF Answers, NoAnswer
  <2> QED
    BY <1>1, <2>2, <2>3 DEF Answer, Results, NoList
<1>6. CASE result \in lists
  <2>1. /\ result.ok = TRUE /\ result.notModified = FALSE /\ result.list = remote[s]
        /\ result.etag \in {NoETag, remote[s]}
        /\ result.kept = TRUE /\ result \in Results
    <3>1. PICK etag \in {NoETag, remote[s]} : result = Answer(TRUE, FALSE, etag, remote[s])
      BY <1>6
    <3>2. etag \in Nat
      BY <1>1, <3>1 DEF NoETag
    <3> QED
      BY <1>1, <3>1, <3>2 DEF Answer, Results
  <2>2. /\ a.ok = TRUE /\ a.notModified = FALSE /\ a.list = remote[s]
        /\ a.etag \in {NoETag, remote[s]} /\ a \in Results
        /\ a.kept \/ a.list \in Long
    BY <1>3, <2>1 DEF Results
  <2> QED
    BY <2>2
<1> QED
  BY <1>2, <1>4, <1>5, <1>6

\* Every step of the fetcher, and of the buttons, keeps the types and the tick.
LEMMA FetchStep ==
    ASSUME SourceFetchAssumption, FetchInv, [Next]_vars
    PROVE  FetchInv'
<1>1. CASE UNCHANGED vars
  BY <1>1 DEF vars, tickVars, historyVars, FetchInv, Typed, TickInv
<1>2. CASE BeginTick
  <2>1. \E chosen : fpc' = [s \in Sources |-> IF s \in chosen THEN "queued" ELSE "none"]
    BY <1>2 DEF BeginTick
  <2>2. tickNow' = clock /\ fsrc' = src
        /\ UNCHANGED <<clock, src, node, remote, answer, button, historyVars>>
    BY <1>2 DEF BeginTick
  <2> QED
    BY <2>1, <2>2 DEF FetchInv, Typed, TickInv, historyVars
<1>3. CASE EndTick
  BY <1>3 DEF EndTick, TickDone, FetchInv, Typed, TickInv, historyVars
<1>4. ASSUME NEW s \in Sources, StartFetch(s)
      PROVE  FetchInv'
  BY <1>4 DEF StartFetch, Goto, FetchInv, Typed, TickInv, historyVars
<1>5. ASSUME NEW s \in Sources, Fetch(s)
      PROVE  FetchInv'
  <2>. PICK result \in Answers(s) :
          \E a \in Shortened(result) : answer' = [answer EXCEPT ![s] = a] /\ Goto(s, NextStep(a))
    BY <1>5 DEF Fetch
  <2>1. PICK a \in Shortened(result) : answer' = [answer EXCEPT ![s] = a] /\ Goto(s, NextStep(a))
    OBVIOUS
  <2>2. a \in Results
    BY AnswersTyped DEF FetchInv
  <2>3. NextStep(a) \in {"upsert", "meta"}
    BY DEF NextStep
  <2> QED
    BY <1>5, <2>1, <2>2, <2>3 DEF Fetch, Goto, FetchInv, Typed, TickInv, historyVars
<1>6. ASSUME NEW s \in Sources, Ingest(s)
      PROVE  FetchInv'
  <2>1. /\ fpc' = [fpc EXCEPT ![s] = "meta"] /\ fpc[s] # "none"
        /\ UNCHANGED <<clock, src, remote, tickNow, fsrc, answer, button, recorded, notBefore>>
    BY <1>6 DEF Ingest, Goto
  <2>2. node' \in [Sources -> [seen : Nat, invalid : BOOLEAN]]
    <3>1. Relisted(node[s]) \in [seen : Nat, invalid : BOOLEAN]
      BY DEF Relisted, FetchInv, Typed
    <3>2. node' = node \/ node' = [node EXCEPT ![s] = Relisted(node[s])]
      BY <1>6 DEF Ingest
    <3> QED
      BY <3>1, <3>2 DEF FetchInv, Typed
  <2>3. ingested' \in [Sources -> SUBSET Nat] /\ cut' \in [Sources -> SUBSET Nat]
    <3>1. ingested[s] \cup {answer[s].list} \in SUBSET Nat /\ cut[s] \cup {answer[s].list} \in SUBSET Nat
      BY DEF FetchInv, Typed, Results
    <3> QED
      BY <1>6, <3>1 DEF Ingest, FetchInv, Typed
  <2> QED
    BY <2>1, <2>2, <2>3 DEF FetchInv, Typed, TickInv
<1>7. ASSUME NEW s \in Sources, WriteMeta(s)
      PROVE  FetchInv'
  <2>1. /\ fpc' = [fpc EXCEPT ![s] = "none"]
        /\ UNCHANGED <<clock, node, remote, tickNow, fsrc, answer, button, ingested, cut>>
    BY <1>7 DEF WriteMeta, Goto
  <2>2. Meta(s) \in SourceRows
    BY MetaIsRow DEF FetchInv
  <2>3. src' \in [Sources -> SourceRows]
    BY <1>7, <2>2 DEF WriteMeta, FetchInv, Typed
  <2>4. recorded' \in [Sources -> {"nothing", "failure", "unchanged", "list", "cut"}]
    <3>1. Brought(answer[s]) \in {"failure", "unchanged", "list", "cut"}
      BY DEF Brought, FetchInv, Typed, Results
    <3> QED
      BY <1>7, <3>1 DEF WriteMeta, FetchInv, Typed
  <2>5. notBefore' \in [Sources -> Nat]
    <3>1. (IF answer[s].ok THEN 0 ELSE tickNow + 1) \in Nat
      BY DEF FetchInv, Typed
    <3> QED
      BY <1>7, <3>1 DEF WriteMeta, FetchInv, Typed
  <2> QED
    BY <2>1, <2>3, <2>4, <2>5 DEF FetchInv, Typed, TickInv
<1>8. ASSUME NEW s \in Sources, Check(s) \/ Publish(s)
      PROVE  FetchInv'
  <2>1. CASE Check(s)
    BY <2>1 DEF Check, FetchInv, Typed, TickInv, historyVars, tickVars
  <2>2. CASE Publish(s)
    <3>1. remote[s] + 1 \in Nat \ {0}
      BY DEF FetchInv, Typed
    <3> QED
      BY <2>2, <3>1 DEF Publish, FetchInv, Typed, TickInv, historyVars, tickVars
  <2> QED
    BY <1>8, <2>1, <2>2
<1>9. ASSUME NEW s \in Sources, PressButton(s)
      PROVE  FetchInv'
  <2>1. button' \in Requests
    BY <1>9 DEF PressButton, Requests, FetchInv, Typed
  <2> QED
    BY <1>9, <2>1 DEF PressButton, FetchInv, Typed, TickInv, historyVars, tickVars
<1>10. CASE ToggleSource
  <2>1. button \in Requests
    BY <1>10 DEF ToggleSource, FetchInv, Typed, NoButton
  <2>2. [src[button.source] EXCEPT !.enabled = ~button.row.enabled] \in SourceRows
    <3>1. src[button.source] \in SourceRows /\ button.row \in SourceRows
      BY <2>1 DEF Requests, FetchInv, Typed
    <3>2. (~button.row.enabled) \in BOOLEAN
      OBVIOUS
    <3> QED
      BY <3>1, <3>2 DEF SourceRows
  <2>3. src' \in [Sources -> SourceRows]
    BY <1>10, <2>1, <2>2 DEF ToggleSource, Requests, FetchInv, Typed
  <2> QED
    BY <1>10, <2>3 DEF ToggleSource, FetchInv, Typed, TickInv, historyVars, tickVars
<1>11. CASE FetchSourceNow
  <2>1. button \in Requests
    BY <1>11 DEF FetchSourceNow, FetchInv, Typed, NoButton
  <2>2. [button.row EXCEPT !.enabled = src[button.source].enabled,
                           !.nextFetchAt = clock, !.backoffUntil = 0] \in SourceRows
    BY <2>1 DEF Requests, SourceRows, FetchInv, Typed
  <2>3. src' \in [Sources -> SourceRows] /\ notBefore' \in [Sources -> Nat]
    BY <1>11, <2>1, <2>2 DEF FetchSourceNow, Requests, FetchInv, Typed
  <2> QED
    BY <1>11, <2>3 DEF FetchSourceNow, FetchInv, Typed, TickInv, tickVars
<1>12. CASE Cleanup
  <2>1. node' \in [Sources -> [seen : Nat, invalid : BOOLEAN]]
    BY <1>12 DEF Cleanup, FetchInv, Typed, NoNode
  <2> QED
    BY <1>12, <2>1 DEF Cleanup, FetchInv, Typed, TickInv, historyVars, tickVars
<1>13. CASE Crash
  BY <1>13 DEF Crash, FetchInv, Typed, TickInv, historyVars
<1>14. CASE Tick
  BY <1>14 DEF Tick, FetchInv, Typed, TickInv, historyVars, tickVars
<1> QED
  BY <1>1, <1>2, <1>3, <1>4, <1>5, <1>6, <1>7, <1>8, <1>9, <1>10, <1>11, <1>12, <1>13, <1>14
     DEF Next

\* Types hold, no fetch is left over between two ticks, and no tick is in the future.
THEOREM FetchInvariant == Spec => []FetchInv
<1>1. Init => FetchInv
  BY TypedInitially
<1>2. FetchInv /\ [Next]_vars => FetchInv'
  BY SourceFetchAssumption, FetchStep
<1> QED
  BY <1>1, <1>2, PTL DEF Spec

\* No source is picked while an earlier fetch of it runs, whatever fails or
\* crashes: fetchTick is called again only after every fetch of its tick ended,
\* so two fetches of a source never write its record in the wrong order.
THEOREM FetchesDoNotOverlap == Spec => NoOverlap
<1>1. FetchInv /\ [Next]_vars =>
         [\A s \in Sources :
             fpc[s] \in {"fetching", "upsert", "meta"} => fpc'[s] # "queued"]_vars
  <2> SUFFICES ASSUME FetchInv, Next, NEW s \in Sources,
                      fpc[s] \in {"fetching", "upsert", "meta"}, fpc'[s] = "queued"
               PROVE  FALSE
    OBVIOUS
  <2>1. fpc'[s] # fpc[s]
    OBVIOUS
  <2>2. CASE BeginTick
    BY <2>2 DEF BeginTick, FetchInv, TickInv
  <2>3. ASSUME NEW t \in Sources, StartFetch(t) \/ Fetch(t) \/ Ingest(t) \/ WriteMeta(t)
        PROVE  FALSE
    <3>1. \E where \in {"fetching", "upsert", "meta", "none"} : fpc' = [fpc EXCEPT ![t] = where]
      BY <2>3 DEF StartFetch, Fetch, NextStep, Ingest, WriteMeta, Goto
    <3> QED
      BY <2>1, <3>1 DEF FetchInv, Typed
  <2> QED
    BY <2>1, <2>2, <2>3 DEF Next, EndTick, Check, Publish, PressButton, ToggleSource,
                            FetchSourceNow, Cleanup, Crash, Tick, tickVars
<1> QED
  BY <1>1, FetchInvariant, PTL DEF Spec, NoOverlap

-----------------------------------------------------------------------------
(* The backoff of a failed source.                                         *)

\* The table remembers every rest that a recorded failure asks for, and a tick
\* picks no source that rests.
Resting ==
    \A s \in Sources :
        /\ notBefore[s] <= src[s].backoffUntil
        /\ fpc[s] # "none" => notBefore[s] <= tickNow

\* Every step keeps the time before which a source that failed is not asked.
LEMMA RestingStep ==
    ASSUME SourceFetchAssumption, ~StoreMayFail, FetchInv, Resting, [Next]_vars
    PROVE  Resting'
<1>1. /\ \A s \in Sources : src[s].backoffUntil \in Nat /\ notBefore[s] \in Nat
      /\ tickNow \in Nat /\ clock \in Nat
  BY DEF FetchInv, Typed, SourceRows
<1>2. CASE BeginTick
  <2>1. PICK chosen \in SUBSET {s \in Sources : Due(s)} :
           fpc' = [s \in Sources |-> IF s \in chosen THEN "queued" ELSE "none"]
    BY <1>2 DEF BeginTick
  <2>2. tickNow' = clock /\ UNCHANGED <<src, notBefore>>
    BY <1>2 DEF BeginTick, historyVars
  <2>3. ASSUME NEW s \in Sources, fpc'[s] # "none"
        PROVE  notBefore[s] <= clock
    <3>1. src[s].backoffUntil <= clock
      BY <2>1, <2>3 DEF Due
    <3> QED
      BY <1>1, <3>1 DEF Resting
  <2> QED
    BY <2>2, <2>3 DEF Resting
<1>3. ASSUME NEW s \in Sources, StartFetch(s) \/ Fetch(s) \/ Ingest(s)
      PROVE  Resting'
  <2>1. /\ fpc[s] # "none" /\ \A t \in Sources : t # s => fpc'[t] = fpc[t]
        /\ UNCHANGED <<src, tickNow, notBefore>>
    BY <1>3 DEF StartFetch, Fetch, Ingest, Goto, historyVars, FetchInv, Typed
  <2> QED
    BY <2>1 DEF Resting
<1>4. ASSUME NEW s \in Sources, WriteMeta(s)
      PROVE  Resting'
  <2>1. /\ fpc' = [fpc EXCEPT ![s] = "none"] /\ UNCHANGED tickNow
        /\ src' = [src EXCEPT ![s] = Meta(s)]
        /\ notBefore' = [notBefore EXCEPT ![s] = IF answer[s].ok THEN 0 ELSE tickNow + 1]
    BY <1>4 DEF WriteMeta, Goto
  <2>2. /\ Meta(s) \in SourceRows
        /\ Meta(s).backoffUntil >= IF answer[s].ok THEN 0 ELSE tickNow + 1
    BY MetaIsRow DEF FetchInv
  <2>3. Meta(s).backoffUntil \in Nat
    BY <2>2 DEF SourceRows
  <2>4. ASSUME NEW t \in Sources
        PROVE  /\ notBefore'[t] <= src'[t].backoffUntil
               /\ fpc'[t] # "none" => notBefore'[t] <= tickNow
    <3>1. CASE t = s
      <4>1. /\ notBefore'[s] = IF answer[s].ok THEN 0 ELSE tickNow + 1
            /\ src'[s] = Meta(s) /\ fpc'[s] = "none"
        BY <2>1 DEF FetchInv, Typed
      <4> QED
        BY <1>1, <2>2, <2>3, <3>1, <4>1
    <3>2. CASE t # s
      BY <2>1, <3>2 DEF Resting, FetchInv, Typed
    <3> QED
      BY <3>1, <3>2
  <2> QED
    BY <2>1, <2>4 DEF Resting
<1>5. CASE ToggleSource
  <2>1. button.source \in Sources
    BY <1>5 DEF ToggleSource, FetchInv, Typed, NoButton, Requests
  <2>2. \A s \in Sources : src'[s].backoffUntil = src[s].backoffUntil
    BY <1>5, <2>1 DEF ToggleSource, FetchInv, Typed, SourceRows
  <2> QED
    BY <1>5, <2>2 DEF ToggleSource, Resting, tickVars, historyVars
<1>6. CASE FetchSourceNow
  <2>1. button \in Requests
    BY <1>6 DEF FetchSourceNow, FetchInv, Typed, NoButton
  <2>2. button.source \in Sources /\ button.row \in SourceRows
    BY <2>1 DEF Requests
  <2>3. /\ src'[button.source].backoffUntil = 0 /\ notBefore'[button.source] = 0
        /\ \A s \in Sources : s # button.source => src'[s] = src[s] /\ notBefore'[s] = notBefore[s]
        /\ UNCHANGED tickVars
    BY <1>6, <2>2 DEF FetchSourceNow, FetchInv, Typed, SourceRows
  <2> QED
    BY <1>1, <2>2, <2>3 DEF Resting, tickVars
<1>7. CASE EndTick \/ Crash
  <2>1. UNCHANGED <<src, notBefore>> /\ \A s \in Sources : fpc'[s] = "none"
    BY <1>7 DEF EndTick, TickDone, Crash, historyVars
  <2> QED
    BY <2>1 DEF Resting
<1>8. CASE UNCHANGED <<src, fpc, tickNow, notBefore>>
  BY <1>8 DEF Resting
<1> QED
  BY <1>2, <1>3, <1>4, <1>5, <1>6, <1>7, <1>8
     DEF Next, Check, Publish, PressButton, Cleanup, Tick, vars, tickVars, historyVars

\* A source whose fetch failed is left alone for five minutes at least, across
\* ticks, crashes and the stale writes of the buttons, unless an operator asks
\* for it: GetSourcesDue, backoffUntil and UpdateSourceFetchMeta together.
THEOREM FailuresRest ==
    ASSUME ~StoreMayFail
    PROVE  Spec => []BackoffRespected
<1>1. Init => Resting
  BY DEF Init, Resting
<1>2. FetchInv /\ Resting /\ [Next]_vars => Resting'
  BY SourceFetchAssumption, RestingStep
<1>3. FetchInv /\ Resting => BackoffRespected
  BY DEF FetchInv, Typed, Resting, BackoffRespected
<1> QED
  BY <1>1, <1>2, <1>3, FetchInvariant, PTL DEF Spec

-----------------------------------------------------------------------------
(* ETags.                                                                  *)

Stored(s, etag) == etag = NoETag \/ etag \in ingested[s] \/ (etag \in Long /\ etag \in cut[s])

\* Every ETag that is on its way to the table is that of a list that was stored.
ETagsStored ==
    /\ \A s \in Sources :
          /\ Stored(s, src[s].etag) /\ Stored(s, fsrc[s].etag)
          /\ fpc[s] = "meta" => Stored(s, answer[s].etag)
          /\ fpc[s] = "upsert" => /\ answer[s].etag \in {NoETag, answer[s].list}
                                  /\ answer[s].kept \/ answer[s].list \in Long
    /\ button # NoButton => Stored(button.source, button.row.etag)

\* Every step keeps each ETag, in the table or on its way there, that of a stored list.
LEMMA ETagStep ==
    ASSUME SourceFetchAssumption, ~StoreMayFail, ~FailureHasETag, FetchInv, ETagsStored,
           [Next]_vars
    PROVE  ETagsStored'
<1>1. CASE BeginTick
  <2>1. UNCHANGED <<src, button, ingested, cut>> /\ fsrc' = src
    BY <1>1 DEF BeginTick, historyVars
  <2>2. \A s \in Sources : fpc'[s] \notin {"upsert", "meta"}
    BY <1>1 DEF BeginTick
  <2> QED
    BY <2>1, <2>2 DEF ETagsStored, Stored
<1>2. ASSUME NEW s \in Sources, StartFetch(s)
      PROVE  ETagsStored'
  <2>1. /\ UNCHANGED <<src, fsrc, answer, button, ingested, cut>>
        /\ \A t \in Sources : fpc'[t] \in {"upsert", "meta"} => fpc'[t] = fpc[t]
    BY <1>2 DEF StartFetch, Goto, historyVars, FetchInv, Typed
  <2> QED
    BY <2>1 DEF ETagsStored, Stored
<1>3. ASSUME NEW s \in Sources, Fetch(s)
      PROVE  ETagsStored'
  <2>. PICK result \in Answers(s) :
          \E a \in Shortened(result) : /\ answer' = [answer EXCEPT ![s] = a]
                                       /\ fpc' = [fpc EXCEPT ![s] = NextStep(a)]
    BY <1>3 DEF Fetch, Goto
  <2>1. PICK a \in Shortened(result) : /\ answer' = [answer EXCEPT ![s] = a]
                                       /\ fpc' = [fpc EXCEPT ![s] = NextStep(a)]
    OBVIOUS
  <2>2. UNCHANGED <<src, fsrc, button, ingested, cut>>
    BY <1>3 DEF Fetch, historyVars
  <2>3. /\ NextStep(a) = "meta" => Stored(s, a.etag)
        /\ NextStep(a) = "upsert" => a.etag \in {NoETag, a.list} /\ (a.kept \/ a.list \in Long)
    BY AnswersTyped DEF FetchInv, NextStep, ETagsStored, Stored
  <2>4. answer'[s] = a /\ fpc'[s] = NextStep(a)
    BY <2>1 DEF FetchInv, Typed
  <2>5. \A t \in Sources : t # s => answer'[t] = answer[t] /\ fpc'[t] = fpc[t]
    BY <2>1 DEF FetchInv, Typed
  <2>6. ASSUME NEW t \in Sources
        PROVE  /\ fpc'[t] = "meta" => Stored(t, answer'[t].etag)
               /\ fpc'[t] = "upsert" => /\ answer'[t].etag \in {NoETag, answer'[t].list}
                                        /\ answer'[t].kept \/ answer'[t].list \in Long
    BY <2>3, <2>4, <2>5, <2>6 DEF ETagsStored
  <2> QED
    BY <2>2, <2>6 DEF ETagsStored, Stored
<1>4. ASSUME NEW s \in Sources, Ingest(s)
      PROVE  ETagsStored'
  <2>1. /\ fpc[s] = "upsert" /\ fpc' = [fpc EXCEPT ![s] = "meta"]
        /\ UNCHANGED <<src, fsrc, answer, button>>
    BY <1>4 DEF Ingest, Goto
  <2>2. /\ \A t \in Sources : ingested[t] \subseteq ingested'[t] /\ cut[t] \subseteq cut'[t]
        /\ answer[s].list \in ingested'[s] \/ (~answer[s].kept /\ answer[s].list \in cut'[s])
    BY <1>4 DEF Ingest, FetchInv, Typed
  <2>3. Stored(s, answer[s].etag)'
    BY <2>1, <2>2 DEF Stored, ETagsStored
  <2>4. fpc'[s] = "meta" /\ \A t \in Sources : t # s => fpc'[t] = fpc[t]
    BY <2>1 DEF FetchInv, Typed
  <2>5. button # NoButton => button.source \in Sources
    BY DEF FetchInv, Typed, Requests
  <2> QED
    BY <2>1, <2>2, <2>3, <2>4, <2>5 DEF ETagsStored, Stored
<1>5. ASSUME NEW s \in Sources, WriteMeta(s)
      PROVE  ETagsStored'
  <2>1. /\ fpc[s] = "meta" /\ fpc' = [fpc EXCEPT ![s] = "none"]
        /\ src' = [src EXCEPT ![s] = Meta(s)]
        /\ UNCHANGED <<fsrc, answer, button, ingested, cut>>
    BY <1>5 DEF WriteMeta, Goto
  <2>2. Stored(s, Meta(s).etag)
    BY <2>1, MetaIsRow DEF FetchInv, ETagsStored
  <2>3. \A t \in Sources : src'[t] = IF t = s THEN Meta(s) ELSE src[t]
    BY <2>1 DEF FetchInv, Typed
  <2>4. \A t \in Sources : fpc'[t] \in {"upsert", "meta"} => fpc'[t] = fpc[t]
    BY <2>1 DEF FetchInv, Typed
  <2>5. ASSUME NEW t \in Sources
        PROVE  Stored(t, src'[t].etag)
    BY <2>2, <2>3 DEF ETagsStored
  <2> QED
    BY <2>1, <2>4, <2>5 DEF ETagsStored, Stored
<1>6. ASSUME NEW s \in Sources, PressButton(s)
      PROVE  ETagsStored'
  <2>1. button'.source = s /\ button'.row = src[s]
    BY <1>6 DEF PressButton
  <2> QED
    BY <1>6, <2>1 DEF PressButton, ETagsStored, Stored, tickVars, historyVars
<1>7. CASE ToggleSource
  <2>1. button.source \in Sources
    BY <1>7 DEF ToggleSource, FetchInv, Typed, NoButton, Requests
  <2>2. \A s \in Sources : src'[s].etag = src[s].etag
    BY <1>7, <2>1 DEF ToggleSource, FetchInv, Typed, SourceRows
  <2>3. button' = NoButton /\ UNCHANGED <<fsrc, fpc, answer, ingested, cut>>
    BY <1>7 DEF ToggleSource, tickVars, historyVars
  <2> QED
    BY <2>2, <2>3 DEF ETagsStored, Stored
<1>8. CASE FetchSourceNow
  <2>1. button \in Requests /\ button # NoButton
    BY <1>8 DEF FetchSourceNow, FetchInv, Typed, NoButton
  <2>2. button.source \in Sources /\ button.row \in SourceRows
    BY <2>1 DEF Requests
  <2>3. /\ src'[button.source].etag = button.row.etag
        /\ \A s \in Sources : s # button.source => src'[s] = src[s]
    BY <1>8, <2>2 DEF FetchSourceNow, FetchInv, Typed, SourceRows
  <2>4. button' = NoButton /\ UNCHANGED <<fsrc, fpc, answer, ingested, cut>>
    BY <1>8 DEF FetchSourceNow, tickVars
  <2>5. \A s \in Sources : Stored(s, src'[s].etag)
    BY <2>1, <2>2, <2>3 DEF ETagsStored
  <2> QED
    BY <2>4, <2>5 DEF ETagsStored, Stored
<1>9. CASE Crash
  BY <1>9 DEF Crash, ETagsStored, Stored, historyVars
<1>10. CASE EndTick
  BY <1>10 DEF EndTick, ETagsStored, Stored, historyVars
<1>11. CASE UNCHANGED <<src, fsrc, fpc, answer, button, ingested, cut>>
  BY <1>11 DEF ETagsStored, Stored
<1> QED
  BY <1>1, <1>2, <1>3, <1>4, <1>5, <1>6, <1>7, <1>8, <1>9, <1>10, <1>11
     DEF Next, Check, Publish, Cleanup, Tick, vars, tickVars, historyVars

\* The ETag of a source's row is that of a list that was stored, across crashes
\* between the two writes and the stale rows of the buttons: the next 304 hides
\* no node but those that the shuffle of a list longer than IngestMaxPerSource has
\* left out. Failed responses that carry an ETag are the exception the run SFETag
\* shows.
THEOREM ETagsAreOfStoredLists ==
    ASSUME ~StoreMayFail, ~FailureHasETag
    PROVE  Spec => []ETagMeansIngested
<1>1. Init => ETagsStored
  BY DEF Init, ETagsStored, Stored
<1>2. FetchInv /\ ETagsStored /\ [Next]_vars => ETagsStored'
  BY SourceFetchAssumption, ETagStep
<1>3. ETagsStored => ETagMeansIngested
  BY DEF ETagsStored, Stored, ETagMeansIngested
<1> QED
  BY <1>1, <1>2, <1>3, FetchInvariant, PTL DEF Spec

-----------------------------------------------------------------------------
(* The nodes of a list that was fetched.                                   *)

\* A node whose source delivered it last is at least as fresh as that fetch.
NodesFresh ==
    /\ \A s \in Sources :
          /\ src[s].lastFetchAt <= clock
          /\ tickNow # 0 => src[s].lastFetchAt <= tickNow
          /\ node[s] # NoNode =>
                /\ node[s].seen # 0
                /\ recorded[s] = "list" => src[s].lastFetchAt <= node[s].seen
                /\ fpc[s] = "meta" /\ answer[s].ok /\ ~answer[s].notModified /\ answer[s].kept =>
                      tickNow <= node[s].seen
    /\ button # NoButton => button.row.lastFetchAt <= src[button.source].lastFetchAt

\* Every step keeps a listed node as new as the list it was on.
LEMMA FreshStep ==
    ASSUME SourceFetchAssumption, ~StoreMayFail, FetchInv, NodesFresh, [Next]_vars
    PROVE  NodesFresh'
<1>1. /\ \A s \in Sources : /\ src[s] \in SourceRows /\ src[s].lastFetchAt \in Nat
                            /\ node[s].seen \in Nat
      /\ tickNow \in Nat /\ clock \in Nat /\ clock # 0 /\ tickNow <= clock
      /\ button # NoButton => /\ button \in Requests /\ button.source \in Sources
                              /\ button.row \in SourceRows /\ button.row.lastFetchAt \in Nat
  BY DEF FetchInv, Typed, TickInv, SourceRows, Requests
<1>2. CASE BeginTick
  <2>1. UNCHANGED <<clock, src, node, answer, button, recorded>> /\ tickNow' = clock
    BY <1>2 DEF BeginTick, historyVars
  <2>2. \A s \in Sources : fpc'[s] # "meta"
    BY <1>2 DEF BeginTick
  <2> QED
    BY <2>1, <2>2 DEF NodesFresh
<1>3. CASE EndTick \/ Crash
  <2>1. /\ tickNow' = 0 /\ UNCHANGED <<clock, src, node, recorded>>
        /\ button' \in {button, NoButton}
        /\ \A s \in Sources : fpc'[s] = "none"
    BY <1>3 DEF EndTick, TickDone, Crash, historyVars
  <2> QED
    BY <2>1 DEF NodesFresh
<1>4. ASSUME NEW s \in Sources, StartFetch(s)
      PROVE  NodesFresh'
  <2>1. /\ UNCHANGED <<clock, src, node, tickNow, answer, button, recorded>>
        /\ \A t \in Sources : fpc'[t] = "meta" => fpc[t] = "meta"
    BY <1>4 DEF StartFetch, Goto, historyVars, FetchInv, Typed
  <2> QED
    BY <2>1 DEF NodesFresh
<1>5. ASSUME NEW s \in Sources, Fetch(s)
      PROVE  NodesFresh'
  <2>1. PICK a : answer' = [answer EXCEPT ![s] = a] /\ fpc' = [fpc EXCEPT ![s] = NextStep(a)]
    BY <1>5 DEF Fetch, Goto
  <2>2. UNCHANGED <<clock, src, node, tickNow, button, recorded>>
    BY <1>5 DEF Fetch, historyVars
  <2>3. fpc'[s] = "meta" => ~(answer'[s].ok /\ ~answer'[s].notModified)
    BY <2>1 DEF NextStep, FetchInv, Typed
  <2>4. \A t \in Sources : t # s => answer'[t] = answer[t] /\ fpc'[t] = fpc[t]
    BY <2>1 DEF FetchInv, Typed
  <2> QED
    BY <2>2, <2>3, <2>4 DEF NodesFresh
<1>6. ASSUME NEW s \in Sources, Ingest(s)
      PROVE  NodesFresh'
  <2>1. /\ tickNow # 0 /\ fpc' = [fpc EXCEPT ![s] = "meta"]
        /\ node' = IF answer[s].kept THEN [node EXCEPT ![s] = Relisted(node[s])] ELSE node
        /\ UNCHANGED <<clock, src, tickNow, answer, button, recorded>>
    BY <1>6 DEF Ingest, Goto, FetchInv, TickInv
  <2>2. IF answer[s].kept THEN node'[s].seen = tickNow ELSE node'[s] = node[s]
    BY <2>1 DEF Relisted, FetchInv, Typed
  <2>3. \A t \in Sources : t # s => node'[t] = node[t] /\ fpc'[t] = fpc[t]
    BY <2>1 DEF FetchInv, Typed
  <2> QED
    BY <1>1, <2>1, <2>2, <2>3 DEF NodesFresh
<1>7. ASSUME NEW s \in Sources, WriteMeta(s)
      PROVE  NodesFresh'
  <2>1. /\ tickNow # 0 /\ fpc[s] = "meta" /\ fpc' = [fpc EXCEPT ![s] = "none"]
        /\ src' = [src EXCEPT ![s] = Meta(s)]
        /\ recorded' = [recorded EXCEPT ![s] = Brought(answer[s])]
        /\ UNCHANGED <<clock, node, tickNow, answer, button>>
    BY <1>7 DEF WriteMeta, Goto, FetchInv, TickInv
  <2>2. src'[s].lastFetchAt = tickNow
    BY <2>1, MetaIsRow DEF FetchInv, Typed
  <2>3. recorded'[s] = "list" => answer[s].ok /\ ~answer[s].notModified /\ answer[s].kept
    BY <2>1 DEF Brought, FetchInv, Typed, Results
  <2>4. \A t \in Sources : t # s => src'[t] = src[t] /\ recorded'[t] = recorded[t]
    BY <2>1 DEF FetchInv, Typed
  <2>5. \A t \in Sources : fpc'[t] = "meta" => fpc[t] = "meta"
    BY <2>1 DEF FetchInv, Typed
  <2>6. button # NoButton => button.row.lastFetchAt <= src'[button.source].lastFetchAt
    BY <1>1, <2>1, <2>2, <2>4 DEF NodesFresh
  <2> QED
    BY <1>1, <2>1, <2>2, <2>3, <2>4, <2>5, <2>6 DEF NodesFresh
<1>8. ASSUME NEW s \in Sources, Check(s)
      PROVE  NodesFresh'
  <2>1. /\ node[s] # NoNode
        /\ \A t \in Sources : node'[t].seen = node[t].seen /\ (t # s => node'[t] = node[t])
        /\ UNCHANGED <<clock, src, tickVars, button, recorded>>
    BY <1>8 DEF Check, historyVars, FetchInv, Typed
  <2> QED
    BY <2>1 DEF NodesFresh, tickVars
<1>9. ASSUME NEW s \in Sources, PressButton(s)
      PROVE  NodesFresh'
  <2>1. button'.source = s /\ button'.row = src[s]
        /\ UNCHANGED <<clock, src, node, tickVars, recorded>>
    BY <1>9 DEF PressButton, historyVars
  <2> QED
    BY <1>1, <2>1 DEF NodesFresh, tickVars
<1>10. CASE ToggleSource
  <2>1. button # NoButton
    BY <1>10 DEF ToggleSource, NoButton
  <2>2. \A s \in Sources : src'[s].lastFetchAt = src[s].lastFetchAt
    BY <1>1, <1>10, <2>1 DEF ToggleSource, FetchInv, Typed, SourceRows
  <2>3. button' = NoButton /\ UNCHANGED <<clock, node, tickVars, recorded>>
    BY <1>10 DEF ToggleSource, historyVars
  <2> QED
    BY <2>2, <2>3 DEF NodesFresh, tickVars
<1>11. CASE FetchSourceNow
  <2>1. button # NoButton
    BY <1>11 DEF FetchSourceNow, NoButton
  <2>2. /\ src'[button.source].lastFetchAt = button.row.lastFetchAt
        /\ \A s \in Sources : s # button.source => src'[s] = src[s]
    BY <1>1, <1>11, <2>1 DEF FetchSourceNow, FetchInv, Typed, SourceRows
  <2>3. \A s \in Sources : /\ src'[s].lastFetchAt <= src[s].lastFetchAt
                           /\ src'[s].lastFetchAt \in Nat
    BY <1>1, <2>1, <2>2 DEF NodesFresh
  <2>4. button' = NoButton /\ UNCHANGED <<clock, node, tickVars, recorded>>
    BY <1>11 DEF FetchSourceNow
  <2> QED
    BY <1>1, <2>3, <2>4 DEF NodesFresh, tickVars
<1>12. CASE Cleanup
  <2>1. \A s \in Sources : node'[s] \in {node[s], NoNode}
    BY <1>12 DEF Cleanup
  <2> QED
    BY <1>12, <2>1 DEF Cleanup, NodesFresh, tickVars, historyVars
<1>13. CASE Tick
  <2>1. clock' = clock + 1 /\ UNCHANGED <<src, node, tickVars, button, recorded>>
    BY <1>13 DEF Tick, historyVars
  <2> QED
    BY <1>1, <2>1 DEF NodesFresh, tickVars
<1>14. CASE UNCHANGED <<clock, src, node, tickVars, button, recorded>>
  BY <1>14 DEF NodesFresh, tickVars
<1> QED
  BY <1>2, <1>3, <1>4, <1>5, <1>6, <1>7, <1>8, <1>9, <1>10, <1>11, <1>12, <1>13, <1>14
     DEF Next, Publish, vars, historyVars

\* A node is not pruned while its source's last recorded fetch, no longer than
\* Retention ago, brought a list that has it and from which IngestMaxPerSource
\* has not cut it: a crash between UpsertNodes and UpdateSourceFetchMeta, and a
\* button that writes an old row back, leave the row's last_fetch_at behind the
\* node's last_seen_at, never ahead of it. A 304 and a list that was cut before
\* the node are the exceptions the run SFReappeared shows.
THEOREM ListedNodesAreKept ==
    ASSUME ~StoreMayFail
    PROVE  Spec => ListedNodeIsKept
<1>1. Init => NodesFresh
  BY DEF Init, NodesFresh
<1>2. FetchInv /\ NodesFresh /\ [Next]_vars => NodesFresh'
  BY SourceFetchAssumption, FreshStep
<1>3. ASSUME FetchInv, NodesFresh, Next, NEW s \in Sources,
             node[s] # NoNode, node'[s] = NoNode, recorded[s] = "list"
      PROVE  src[s].lastFetchAt + Retention < clock
  <2>1. /\ node[s].seen \in Nat /\ node[s].seen # 0 /\ src[s].lastFetchAt \in Nat
        /\ src[s].lastFetchAt <= node[s].seen
        /\ clock \in Nat /\ Retention \in Nat
    BY <1>3, SourceFetchAssumption DEF FetchInv, Typed, NodesFresh, SourceRows
  <2>2. ~\E t \in Sources : Check(t)
    <3>1. ASSUME NEW t \in Sources, Check(t)
          PROVE  node'[s].seen = node[s].seen
      BY <1>3, <3>1 DEF Check, FetchInv, Typed
    <3> QED
      BY <1>3, <2>1, <3>1 DEF NoNode
  <2>3. ~\E t \in Sources : Ingest(t)
    <3> SUFFICES ASSUME NEW t \in Sources, Ingest(t)
                 PROVE  FALSE
      OBVIOUS
    <3>1. tickNow # 0 /\ (node' = node \/ node' = [node EXCEPT ![t] = Relisted(node[t])])
      BY <1>3 DEF Ingest, FetchInv, TickInv
    <3>2. Relisted(node[t]).seen # 0
      BY <3>1 DEF Relisted
    <3>3. node'[s].seen # 0
      BY <1>3, <2>1, <3>1, <3>2 DEF FetchInv, Typed
    <3> QED
      BY <1>3, <3>3 DEF NoNode
  <2>4. Cleanup
    BY <1>3, <2>2, <2>3
       DEF Next, BeginTick, EndTick, StartFetch, Fetch, WriteMeta, PressButton, Publish,
           ToggleSource, FetchSourceNow, Crash, Tick
  <2>5. node[s].seen + Retention < clock
    BY <1>3, <2>4 DEF Cleanup
  <2> QED
    BY <2>1, <2>5
<1>4. FetchInv /\ NodesFresh /\ [Next]_vars =>
         [\A s \in Sources :
             node[s] # NoNode /\ node'[s] = NoNode =>
                recorded[s] # "list" \/ src[s].lastFetchAt + Retention < clock]_vars
  BY <1>3
<1> QED
  BY <1>1, <1>2, <1>4, FetchInvariant, PTL DEF Spec, ListedNodeIsKept

=============================================================================
