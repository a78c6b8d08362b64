-------------------------- MODULE SyncVerifyProofs --------------------------
(***************************************************************************)
(* Proofs about a request that verifies nodes (SyncVerify), for any nodes, *)
(* any number of slots, and any limit.                                     *)
(***************************************************************************)
EXTENDS SyncVerify, FiniteSetTheorems, TLAPS

CallStates == {V!Idle} \cup {V!Pending(n) : n \in Nodes} \cup {V!Answered(n) : n \in Nodes}

\* The goroutines hold a slot each, and what they found is counted.
Slotted ==
    /\ call \in [Nodes -> CallStates]
    /\ releases \in Seq(BOOLEAN)
    /\ req.need \in Nat
    /\ IsFiniteSet(Open) /\ Cardinality(Open) <= Slots
    /\ hpc = "idle" => Open = {} /\ releases = <<>>

SlotInv == Slotted /\ VerifyOvershoot

-----------------------------------------------------------------------------
(* The slots.                                                              *)

\* The loop misses at most the goroutines that ended since as many slots were
\* free: of Slots goroutines, those that still hold theirs have not ended.
LEMMA MissedFew ==
    ASSUME VerifyAssumption, Slotted
    PROVE  /\ OkCount \in Nat /\ SurelySeen \in Nat /\ Cardinality(Open) \in Nat
           /\ OkCount <= SurelySeen + (Slots - Cardinality(Open))
<1> DEFINE k == Len(releases)
           o == Cardinality(Open)
           ok == {i \in DOMAIN releases : releases[i]}
           seen == {i \in DOMAIN releases : releases[i] /\ i + Slots <= Sent}
           late == ok \ seen
<1>1. Slots \in Nat /\ k \in Nat /\ DOMAIN releases = 1 .. k
  BY DEF VerifyAssumption, Slotted
<1>2. o \in Nat /\ o <= Slots /\ Sent = k + o
  BY FS_CardinalityType DEF Slotted, Sent
<1>3. IsFiniteSet(1 .. k)
  BY <1>1, FS_Interval
<1>4. ok \subseteq 1 .. k /\ seen \subseteq ok /\ late \subseteq 1 .. k
  BY <1>1
<1>5. IsFiniteSet(ok) /\ IsFiniteSet(seen) /\ IsFiniteSet(late)
  BY <1>3, <1>4, FS_Subset
<1>6. Cardinality(ok) = Cardinality(seen) + Cardinality(late)
  <2>1. Cardinality(seen \cup late) =
            Cardinality(seen) + Cardinality(late) - Cardinality(seen \cap late)
    BY <1>5, FS_Union
  <2>2. seen \cup late = ok /\ seen \cap late = {}
    BY <1>4
  <2>3. Cardinality(seen) \in Nat /\ Cardinality(late) \in Nat /\ Cardinality({}) = 0
    BY <1>5, FS_EmptySet, FS_CardinalityType
  <2> HIDE DEF ok, seen, late
  <2>4. /\ Cardinality(seen \cup late) = Cardinality(ok)
        /\ Cardinality(seen \cap late) = Cardinality({})
    BY <2>2, Zenon
  <2> QED
    BY <2>1, <2>3, <2>4
<1>7. Cardinality(late) <= Slots - o
  <2> DEFINE a == k + o - Slots + 1
  <2>1. late \subseteq a .. k
    BY <1>1, <1>2
  <2>2. a \in Int /\ k \in Int
    BY <1>1, <1>2
  <2>3. IsFiniteSet(a .. k) /\ Cardinality(a .. k) = IF a > k THEN 0 ELSE k - a + 1
    BY <2>2, FS_Interval
  <2>4. Cardinality(late) <= Cardinality(a .. k)
    BY <2>1, <2>3, FS_Subset
  <2> QED
    BY <1>1, <1>2, <2>3, <2>4
<1> QED
  BY <1>1, <1>2, <1>5, <1>6, <1>7, FS_CardinalityType DEF OkCount, SurelySeen

\* One release more is one more to count, or none.
LEMMA ReleaseCounts ==
    ASSUME releases \in Seq(BOOLEAN), NEW ok \in BOOLEAN, releases' = Append(releases, ok)
    PROVE  /\ OkCount \in Nat /\ OkCount' \in Nat
           /\ OkCount' <= OkCount + 1
<1> DEFINE k == Len(releases)
           before == {i \in DOMAIN releases : releases[i]}
           after == {i \in DOMAIN releases' : releases'[i]}
<1>1. /\ k \in Nat /\ DOMAIN releases = 1 .. k /\ DOMAIN releases' = 1 .. (k + 1)
      /\ \A i \in 1 .. k : releases'[i] = releases[i]
  OBVIOUS
<1>2. IsFiniteSet(1 .. k)
  BY <1>1, FS_Interval
<1>3. IsFiniteSet(before)
  BY <1>1, <1>2, FS_Subset
<1>4. IsFiniteSet(before \cup {k + 1}) /\ Cardinality(before \cup {k + 1}) <= Cardinality(before) + 1
  <2>1. Cardinality(before) \in Nat
    BY <1>3, FS_CardinalityType
  <2> HIDE DEF before
  <2>2. /\ IsFiniteSet(before \cup {k + 1})
        /\ Cardinality(before \cup {k + 1}) =
               IF k + 1 \in before THEN Cardinality(before) ELSE Cardinality(before) + 1
    BY <1>3, FS_AddElement, Zenon
  <2> QED
    BY <2>1, <2>2
<1>5. after \subseteq before \cup {k + 1}
  BY <1>1
<1>6. IsFiniteSet(after) /\ Cardinality(after) <= Cardinality(before \cup {k + 1})
  BY <1>4, <1>5, FS_Subset
<1>7. Cardinality(before) \in Nat /\ Cardinality(after) \in Nat
  BY <1>3, <1>6, FS_CardinalityType
<1>8. OkCount = Cardinality(before) /\ OkCount' = Cardinality(after)
  BY DEF OkCount
<1> HIDE DEF before, after
<1>9. Cardinality(before \cup {k + 1}) \in Nat
  BY <1>4, FS_CardinalityType
<1> QED
  BY <1>4, <1>6, <1>7, <1>8, <1>9

\* A send fills a slot; the loop saw fewer passes than it needs, and missed few.
LEMMA SendKeepsSlots ==
    ASSUME VerifyAssumption, SlotInv, NEW n \in Nodes, Send(n)
    PROVE  SlotInv'
<1>1. /\ hpc = "loop" /\ MaySend /\ Cardinality(Open) < Slots /\ call[n] = V!Idle
      /\ call' = [call EXCEPT ![n] = V!Pending(n)]
      /\ UNCHANGED <<hpc, req, releases>>
  BY DEF Send, V!Ask
<1>2. Open' = Open \cup {n} /\ n \notin Open
  <2>1. V!Pending(n) # V!Idle
    BY DEF V!Pending, V!Idle
  <2> QED
    BY <1>1, <2>1 DEF Open, SlotInv, Slotted
<1>3. IsFiniteSet(Open)' /\ Cardinality(Open)' = Cardinality(Open) + 1
  BY <1>2, FS_AddElement DEF SlotInv, Slotted
<1>4. OkCount' = OkCount
  BY <1>1 DEF OkCount
<1>5. /\ OkCount \in Nat /\ SurelySeen \in Nat /\ Cardinality(Open) \in Nat
      /\ OkCount <= SurelySeen + (Slots - Cardinality(Open))
  BY MissedFew DEF SlotInv
<1>6. Slots \in Nat /\ req.need \in Nat
  BY DEF VerifyAssumption, SlotInv, Slotted
<1>7. SurelySeen < req.need
  BY <1>1 DEF MaySend
<1>8. call' \in [Nodes -> CallStates]
  BY <1>1 DEF SlotInv, Slotted, CallStates
<1>9. Slotted'
  BY <1>1, <1>3, <1>5, <1>6, <1>8 DEF SlotInv, Slotted
<1>10. VerifyOvershoot'
  BY <1>1, <1>3, <1>4, <1>5, <1>6, <1>7 DEF VerifyOvershoot
<1> QED
  BY <1>9, <1>10 DEF SlotInv

\* A goroutine that ends counts one pass at most, and gives its slot back.
LEMMA GoroutineKeepsSlots ==
    ASSUME VerifyAssumption, SlotInv, NEW n \in Nodes, GoroutineEnds(n)
    PROVE  SlotInv'
<1>1. /\ call[n] # V!Idle /\ call' = [call EXCEPT ![n] = V!Idle] /\ UNCHANGED <<hpc, req>>
  BY DEF GoroutineEnds, V!Return
<1>2. PICK ok \in BOOLEAN : releases' = Append(releases, ok)
  BY DEF GoroutineEnds
<1>3. Open' = Open \ {n} /\ n \in Open
  BY <1>1 DEF Open, SlotInv, Slotted
<1>4. IsFiniteSet(Open)' /\ Cardinality(Open)' = Cardinality(Open) - 1 /\ Cardinality(Open) \in Nat
  BY <1>3, FS_RemoveElement, FS_CardinalityType DEF SlotInv, Slotted
<1>5. OkCount \in Nat /\ OkCount' \in Nat /\ OkCount' <= OkCount + 1
  BY <1>2, ReleaseCounts DEF SlotInv, Slotted
<1>6. Slots \in Nat /\ req.need \in Nat /\ hpc # "idle"
  BY <1>3 DEF VerifyAssumption, SlotInv, Slotted
<1>7. call' \in [Nodes -> CallStates] /\ releases' \in Seq(BOOLEAN)
  BY <1>1, <1>2 DEF SlotInv, Slotted, CallStates
<1>8. Slotted'
  BY <1>1, <1>4, <1>6, <1>7 DEF SlotInv, Slotted
<1>9. VerifyOvershoot'
  BY <1>1, <1>4, <1>5, <1>6 DEF SlotInv, VerifyOvershoot
<1> QED
  BY <1>8, <1>9 DEF SlotInv

\* A request begins with every slot free.
LEMMA FirstQueryKeepsSlots ==
    ASSUME VerifyAssumption, SlotInv, NEW kind \in {"list", "random"}, NEW limit \in Limits,
           NEW verify \in BOOLEAN, NEW fresh, FirstQuery(kind, limit, verify, fresh)
    PROVE  SlotInv'
<1>1. hpc = "idle" /\ hpc' # "idle" /\ UNCHANGED <<call, releases>> /\ req' = Request(kind, limit, fresh)
  BY DEF FirstQuery, validatorVars
<1>2. req'.need \in Nat
  BY <1>1 DEF Request, VerifyAssumption
<1>3. Open = {} /\ releases = <<>> /\ Open' = Open
  BY <1>1 DEF SlotInv, Slotted, Open
<1>4. Cardinality(Open) = 0 /\ IsFiniteSet(Open)
  BY <1>3, FS_EmptySet
<1>5. OkCount' = 0
  <2>1. {i \in DOMAIN releases' : releases'[i]} = {}
    BY <1>1, <1>3
  <2> QED
    BY <2>1, FS_EmptySet DEF OkCount
<1> QED
  BY <1>1, <1>2, <1>3, <1>4, <1>5 DEF SlotInv, Slotted, VerifyOvershoot, VerifyAssumption

\* A step that opens no call and ends none.
LEMMA OtherStepsKeepSlots ==
    ASSUME SlotInv, Open' = Open, call' \in [Nodes -> CallStates],
           UNCHANGED <<req, releases>>, hpc' = "idle" <=> hpc = "idle"
    PROVE  SlotInv'
<1>1. OkCount' = OkCount /\ Cardinality(Open)' = Cardinality(Open)
  BY DEF OkCount
<1> QED
  BY <1>1 DEF SlotInv, Slotted, VerifyOvershoot

\* Every step keeps the slots and what they bound.
LEMMA SlotStep ==
    ASSUME VerifyAssumption, SlotInv, [VerifyNext]_verifyVars
    PROVE  SlotInv'
<1>1. ASSUME \/ AskForCandidates \/ LeaveLoop \/ WaitGroupDone \/ SecondQuery \/ Expire \/ NowTick
             \/ \E n \in Nodes : Maintain(n)
             \/ UNCHANGED verifyVars
      PROVE  SlotInv'
  <2>1. UNCHANGED <<call, req, releases>> /\ (hpc' = "idle" <=> hpc = "idle")
    BY <1>1 DEF AskForCandidates, LeaveLoop, WaitGroupDone, SecondQuery, Expire, NowTick, Maintain,
                V!Schedule, verifyVars, validatorVars, handlerVars
  <2>2. Open' = Open
    BY <2>1 DEF Open
  <2> QED
    BY <2>1, <2>2, OtherStepsKeepSlots DEF SlotInv, Slotted
<1>2. ASSUME NEW n \in Nodes, CheckEnds(n)
      PROVE  SlotInv'
  <2>1. /\ call' = [c \in Nodes |-> IF call[c] = V!Pending(n) THEN V!Answered(n) ELSE call[c]]
        /\ UNCHANGED <<hpc, req, releases>>
    BY <1>2 DEF CheckEnds, V!Complete, handlerVars
  <2>2. V!Pending(n) # V!Idle /\ V!Answered(n) # V!Idle
    BY DEF V!Pending, V!Answered, V!Idle
  <2>3. Open' = Open
    BY <2>1, <2>2 DEF Open
  <2>4. call' \in [Nodes -> CallStates]
    BY <2>1 DEF SlotInv, Slotted, CallStates
  <2> QED
    BY <2>1, <2>3, <2>4, OtherStepsKeepSlots
<1> QED
  BY <1>1, <1>2, FirstQueryKeepsSlots, SendKeepsSlots, GoroutineKeepsSlots DEF VerifyNext, HandlerStep

\* No slot is taken at first.
LEMMA SlotsInitially ==
    ASSUME VerifyAssumption, VerifyInit
    PROVE  SlotInv
<1>1. Open = {} /\ hpc = "idle" /\ releases = <<>> /\ req.need = 0
  BY DEF VerifyInit, V!Init, Open
<1>2. call \in [Nodes -> CallStates]
  BY DEF VerifyInit, V!Init, CallStates
<1>3. IsFiniteSet(Open) /\ Cardinality(Open) = 0
  BY <1>1, FS_EmptySet
<1> QED
  BY <1>1, <1>2, <1>3 DEF SlotInv, Slotted, VerifyOvershoot, VerifyAssumption

\* However late the loop of syncVerify sees what its goroutines counted, it has
\* no more checks passed and under way than the client needs and sem holds.
THEOREM OvershootIsBounded == VerifySpec => []VerifyOvershoot
<1>1. VerifyInit => SlotInv
  BY SlotsInitially, VerifyAssumption
<1>2. SlotInv /\ [VerifyNext]_verifyVars => SlotInv'
  BY SlotStep, VerifyAssumption
<1>3. SlotInv => VerifyOvershoot
  BY DEF SlotInv
<1> QED
  BY <1>1, <1>2, <1>3, PTL DEF VerifySpec

-----------------------------------------------------------------------------
(* The reply.                                                              *)

\* A check that passed and is known to a goroutine, or was, ended after the
\* handler took its time, and so began no more than a check before it.
Recent(pass) == pass.ok => pass.at \in Nat /\ pass.at + ProbeTicks >= queriedAt

Timely ==
    /\ now \in Nat /\ queriedAt \in Nat /\ queriedAt <= now
    /\ req.fresh \in Nat
    /\ result \in [Nodes -> [ok : BOOLEAN, at : Nat]]
    /\ passed \in [Nodes -> [ok : BOOLEAN, at : Nat]]
    /\ \A n \in Nodes : Recent(result[n]) /\ Recent(passed[n])
    /\ hpc = "idle" => \A n \in Nodes : ~result[n].ok /\ ~passed[n].ok

\* A step that leaves the time of the handler, and every pass, alone.
LEMMA StaysTimely ==
    ASSUME Timely, UNCHANGED <<req, queriedAt, result, passed>>, now' \in Nat, now <= now',
           hpc' = "idle" => hpc = "idle"
    PROVE  Timely'
BY DEF Timely, Recent

\* Every step keeps each pass as recent as the handler's own time, less the duration
\* of a check.
LEMMA TimelyStep ==
    ASSUME VerifyAssumption, Timely, [VerifyNext]_verifyVars
    PROVE  Timely'
<1>1. ASSUME \/ HandlerStep \/ Expire \/ NowTick \/ \E n \in Nodes : Maintain(n)
             \/ UNCHANGED verifyVars
      PROVE  Timely'
  <2>1. /\ UNCHANGED <<req, queriedAt, result, passed>> /\ now' \in {now, now + 1}
        /\ hpc' = "idle" => hpc = "idle"
    BY <1>1 DEF HandlerStep, Send, AskForCandidates, LeaveLoop, WaitGroupDone, SecondQuery, Expire,
                NowTick, Maintain, verifyVars, validatorVars, handlerVars
  <2>2. now \in Nat
    BY DEF Timely
  <2> QED
    BY <2>1, <2>2, StaysTimely
<1>2. ASSUME NEW kind \in {"list", "random"}, NEW limit \in Limits, NEW verify \in BOOLEAN,
             NEW fresh \in FreshWithins, FirstQuery(kind, limit, verify, fresh)
      PROVE  Timely'
  <2>1. hpc = "idle" /\ hpc' # "idle" /\ queriedAt' = now /\ UNCHANGED <<now, result, passed>>
    BY <1>2 DEF FirstQuery, validatorVars
  <2>2. \A n \in Nodes : ~result'[n].ok /\ ~passed'[n].ok
    BY <2>1 DEF Timely
  <2>3. \A n \in Nodes : Recent(result[n])' /\ Recent(passed[n])'
    BY <2>2 DEF Recent
  <2>4. now \in Nat /\ now' \in Nat /\ queriedAt' \in Nat /\ queriedAt' <= now'
    BY <2>1 DEF Timely
  <2>5. req'.fresh \in Nat
    BY <1>2 DEF FirstQuery, Request, VerifyAssumption
  <2> QED
    BY <2>1, <2>3, <2>4, <2>5 DEF Timely
<1>3. ASSUME NEW n \in Nodes, GoroutineEnds(n)
      PROVE  Timely'
  <2>1. /\ result' = [result EXCEPT ![n] = NoPass] /\ UNCHANGED <<now, hpc, req, queriedAt>>
    BY <1>3 DEF GoroutineEnds
  <2>2. PICK ok \in BOOLEAN :
          /\ ok => result[n].ok
          /\ passed' = IF ok THEN [passed EXCEPT ![n] = result[n]] ELSE passed
    BY <1>3 DEF GoroutineEnds
  <2>3. /\ NoPass \in [ok : BOOLEAN, at : Nat] /\ ~NoPass.ok
        /\ result[n] \in [ok : BOOLEAN, at : Nat]
    BY DEF NoPass, Timely
  <2>4. /\ result' \in [Nodes -> [ok : BOOLEAN, at : Nat]]
        /\ passed' \in [Nodes -> [ok : BOOLEAN, at : Nat]]
        /\ \A m \in Nodes : /\ result'[m] = result[m] \/ result'[m] = NoPass
                            /\ \/ passed'[m] = passed[m]
                               \/ passed'[m] = result[m] /\ result[m].ok
    BY <2>1, <2>2, <2>3 DEF Timely
  <2> QED
    BY <2>1, <2>3, <2>4 DEF Timely, Recent
<1>4. ASSUME NEW n \in Nodes, CheckEnds(n)
      PROVE  Timely'
  <2>1. hpc # "idle" /\ UNCHANGED <<now, hpc, req, queriedAt, passed>>
    BY <1>4 DEF CheckEnds, Serving, handlerVars
  <2>2. PICK ok \in BOOLEAN, began \in {t \in 1 .. now : t + ProbeTicks >= now} :
           result' = IF call[n] = V!Pending(n)
                     THEN [result EXCEPT ![n] = [ok |-> ok, at |-> began]] ELSE result
    BY <1>4 DEF CheckEnds
  <2> DEFINE new == [ok |-> ok, at |-> began]
  <2>3. new \in [ok : BOOLEAN, at : Nat] /\ new.at \in Nat /\ new.at + ProbeTicks >= now
    BY DEF Timely
  <2>4. ProbeTicks \in Nat
    BY DEF VerifyAssumption
  <2>5. Recent(new)
    BY <2>3, <2>4 DEF Recent, Timely
  <2>6. /\ result' \in [Nodes -> [ok : BOOLEAN, at : Nat]]
        /\ \A m \in Nodes : result'[m] = result[m] \/ result'[m] = new
    BY <2>2, <2>3 DEF Timely
  <2> HIDE DEF new
  <2> QED
    BY <2>1, <2>5, <2>6 DEF Timely, Recent
<1> QED
  BY <1>1, <1>2, <1>3, <1>4 DEF VerifyNext

\* A node that passed in time is fresh to the second query, which takes it or is
\* full, unless it fails.
LEMMA ReplyHasThePassed ==
    ASSUME VerifyAssumption, Timely, SecondQuery, ~dropped', NEW n \in Nodes,
           PassedInTime(n), row[n].match = "both", row[n].ban <= queriedAt
    PROVE  n \in reply' \/ Cardinality(reply') = req.cap
<1>1. ProbeTicks \in Nat /\ req.fresh \in Nat
  BY DEF VerifyAssumption, Timely
<1>2. /\ passed[n].at \in Nat /\ queriedAt \in Nat /\ passed[n].at + ProbeTicks >= queriedAt
      /\ row[n].valid /\ row[n].at = passed[n].at
      /\ passed[n].at >= queriedAt \/ ProbeTicks <= req.fresh
  BY DEF Timely, Recent, PassedInTime
<1>3. row[n].at + req.fresh >= queriedAt
  BY <1>1, <1>2
<1>4. n \in FreshValid(queriedAt, req.fresh)
  BY <1>2, <1>3 DEF FreshValid
<1>5. reply' \in Limited(FreshValid(queriedAt, req.fresh), req.cap)
  BY DEF SecondQuery, SecondNow
<1> HIDE DEF FreshValid
<1> QED
  BY <1>4, <1>5 DEF Limited

\* A node that passed the check of this request, and is as it left it, is sent,
\* or the reply is full, or the second query has failed: no clock of the handler,
\* of the queries or of the check runs it stale. Whatever fresh_within the client
\* asks for, that holds of every check that began after the first query; of one
\* that the call joined it holds if fresh_within is no shorter than a check.
THEOREM VerifiedAreReplied == VerifySpec => VerifiedIsReplied
<1>1. VerifyInit => Timely
  BY DEF VerifyInit, Timely, Recent, NoPass
<1>2. Timely /\ [VerifyNext]_verifyVars => Timely'
  BY TimelyStep, VerifyAssumption
<1> DEFINE Replies ==
      hpc = "secondQuery" /\ hpc' = "replied" /\ ~dropped' =>
          \A n \in Nodes :
              PassedInTime(n) /\ row[n].match = "both" /\ row[n].ban <= queriedAt
              => n \in reply' \/ Cardinality(reply') = req.cap
<1>3. ASSUME Timely, [VerifyNext]_verifyVars
      PROVE  [Replies]_verifyVars
  <2> SUFFICES ASSUME hpc = "secondQuery", hpc' = "replied", ~dropped'
               PROVE  Replies
    OBVIOUS
  <2>1. SecondQuery
    BY <1>3 DEF VerifyNext, HandlerStep, FirstQuery, AskForCandidates, Send, LeaveLoop, WaitGroupDone,
                GoroutineEnds, Maintain, CheckEnds, Expire, NowTick, verifyVars, handlerVars
  <2> QED
    BY <1>3, <2>1, ReplyHasThePassed, VerifyAssumption
<1> QED
  BY <1>1, <1>2, <1>3, PTL DEF VerifySpec, VerifiedIsReplied

=============================================================================
