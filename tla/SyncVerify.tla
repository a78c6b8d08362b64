----------------------------- MODULE SyncVerify -----------------------------
(***************************************************************************)
(* A client's request for nodes (internal/api/handler.go: listNodes,       *)
(* randomNode, the three sub handlers and syncVerify) over the two queries *)
(* of internal/store/nodes.go, while the validator checks nodes on its     *)
(* own.  The validator is the promise of SingleFlight.tla: each goroutine  *)
(* of syncVerify is the caller of one node.  Any of the queries may fail.   *)
(*                                                                         *)
(* A row says how it stands to the filter of the request: it matches both  *)
(* queries, none (country, purity, protocol or latency), or only the       *)
(* candidates' query, which lets a node without a latency through.         *)
(*                                                                         *)
(* A behaviour is one request, from its first query to its reply, over any *)
(* rows: what happens before and after is of no concern to it.             *)
(***************************************************************************)
EXTENDS Naturals, Sequences, FiniteSets

CONSTANTS
    Nodes,          \* the ids of the nodes table, in the order of the candidates' scores
    Slots,          \* capacity of sem
    Limits,         \* values of limit a client may send
    FreshWithins,   \* values of fresh_within a client may send, in clock ticks
    ProbeTicks,     \* how long ago a check that ends now may have begun
    MaxMaintained,  \* bound: checks the validator begins on its own
    MaxEnds,        \* bound: checks that end
    MaxEvents       \* bound: clock ticks and checks that end

\* The queries take five minutes for a fresh_within that is not positive.
ASSUME VerifyAssumption ==
    /\ Nodes \subseteq Nat \ {0}
    /\ Slots \in Nat \ {0} /\ Limits \subseteq Nat \ {0}
    /\ FreshWithins \subseteq Nat \ {0}
    /\ {ProbeTicks, MaxMaintained, MaxEnds, MaxEvents} \subseteq Nat

NoPass == [ok |-> FALSE, at |-> 0]

VARIABLES
    now,        \* time.Now()
    row,        \* the columns of nodes the queries read
    owed, call, \* the validator (SingleFlight)
    maintained, \* checks the validator has begun on its own
    ends,       \* checks that have ended
    result,     \* what the check a call waited for found, and when it began
    hpc,        \* where the handler is
    req,        \* the parameters of the request
    queriedAt,  \* the handler's now, used by both of its queries
    left,       \* candidates not sent to the validator yet
    releases,   \* okay or not, of the goroutines that ended, in that order
    expired,    \* the deadline of SyncVerifyTimeout has passed
    reply,      \* the nodes sent to the client
    passed,     \* history: the check that passed for this request, of each node
    dropped     \* history: the second query has failed

handlerVars == <<hpc, req, queriedAt, left, releases, expired, reply, passed, dropped>>
validatorVars == <<owed, call, maintained, ends, result>>
verifyVars == <<now, row, validatorVars, handlerVars>>

V == INSTANCE SingleFlight WITH Calls <- Nodes

\* One node of each sort the queries tell apart.
StartRows == {[valid |-> FALSE, at |-> 0, ban |-> 0, match |-> "both"],
              [valid |-> TRUE, at |-> 1, ban |-> 0, match |-> "both"],
              [valid |-> FALSE, at |-> 1, ban |-> 2, match |-> "candidate"]}

VerifyInit ==
    /\ now = 1
    /\ row \in [Nodes -> StartRows]
    /\ V!Init
    /\ maintained = 0 /\ ends = 0
    /\ result = [n \in Nodes |-> NoPass]
    /\ hpc = "idle"
    /\ req = [kind |-> "none", cap |-> 0, need |-> 0, fresh |-> 0]
    /\ queriedAt = 0
    /\ left = {} /\ releases = <<>>
    /\ expired = FALSE
    /\ reply = {}
    /\ passed = [n \in Nodes |-> NoPass]
    /\ dropped = FALSE

-----------------------------------------------------------------------------
(* The queries.                                                            *)

\* QueryFreshValidNodes with Verify.
FreshValid(t, fresh) ==
    {n \in Nodes : /\ row[n].ban <= t /\ row[n].match = "both"
                   /\ row[n].valid /\ row[n].at + fresh >= t}

\* QueryFreshValidNodes without: any status, any age.
Unbanned(t) == {n \in Nodes : row[n].ban <= t /\ row[n].match = "both"}

\* QueryValidationCandidates; its LIMIT is 30 at least.
Candidates(t) ==
    {n \in Nodes : /\ row[n].ban <= t /\ row[n].match # "none"
                   /\ ~row[n].valid \/ row[n].at + req.fresh < t}

\* ORDER BY score ... LIMIT: the scores are abstracted to any order.
Limited(S, cap) ==
    IF Cardinality(S) <= cap THEN {S} ELSE {T \in SUBSET S : Cardinality(T) = cap}

-----------------------------------------------------------------------------
(* The handler.                                                            *)

\* parseFilters: a list is verified until it has limit nodes; a random node
\* is drawn from up to 200 and verified only when there is none.
Request(kind, limit, fresh) ==
    LET random == kind = "random" IN
    [kind |-> kind, cap |-> IF random THEN Cardinality(Nodes) ELSE limit,
     need |-> IF random THEN 1 ELSE limit, fresh |-> fresh]

\* The first query: enough nodes end the request, as does verify=0, and an error.
FirstQuery(kind, limit, verify, fresh) ==
    /\ hpc = "idle"
    /\ req' = Request(kind, limit, fresh)
    /\ queriedAt' = now
    /\ \/ \E nodes \in Limited(IF verify THEN FreshValid(now, fresh) ELSE Unbanned(now), req'.cap) :
             IF verify /\ Cardinality(nodes) < req'.need
             THEN hpc' = "candidates" /\ reply' = {}
             ELSE hpc' = "replied" /\ reply' = nodes
       \/ hpc' = "failed" /\ reply' = {}
    /\ UNCHANGED <<now, row, validatorVars, left, releases, expired, passed, dropped>>

\* syncVerify takes its own now; a query that fails, at the deadline or for any
\* other reason, skips the rest of it.
AskForCandidates ==
    /\ hpc = "candidates"
    /\ \/ left' = Candidates(now) /\ hpc' = "loop"
       \/ left' = {} /\ hpc' = "secondQuery"
    /\ UNCHANGED <<now, row, validatorVars, req, queriedAt, releases, expired,
                   reply, passed, dropped>>

OkCount == Cardinality({i \in DOMAIN releases : releases[i]})
Open == {n \in Nodes : call[n] # V!Idle}
Sent == Len(releases) + Cardinality(Open)

\* okCount is read without its lock.  What a send has waited for is seen: the
\* k-th release before the send k + Slots; anything after it may be or not.
SurelySeen == Cardinality({i \in DOMAIN releases : releases[i] /\ i + Slots <= Sent})

MaySendMore == TRUE         \* mutant: the loop does not look at okCount
MaySend == SurelySeen < req.need

\* One turn of the loop: a slot and a goroutine for the next candidate, which
\* calls RequestCheck whatever became of the deadline.
Send(n) ==
    /\ hpc = "loop" /\ n \in left /\ \A m \in left : n <= m
    /\ MaySend
    /\ Cardinality(Open) < Slots
    /\ left' = left \ {n}
    /\ V!Ask(n, n)
    /\ UNCHANGED <<now, row, maintained, ends, result, hpc, req, queriedAt, releases, expired, reply,
                   passed, dropped>>

LeaveLoop ==
    /\ hpc = "loop"
    /\ left = {} \/ OkCount >= req.need
    /\ hpc' = "wait"
    /\ UNCHANGED <<now, row, validatorVars, req, queriedAt, left, releases,
                   expired, reply, passed, dropped>>

\* wg.Wait.
WaitGroupDone ==
    /\ hpc = "wait"
    /\ Open = {}
    /\ hpc' = "secondQuery"
    /\ UNCHANGED <<now, row, validatorVars, req, queriedAt, left, releases,
                   expired, reply, passed, dropped>>

SecondNowTaken == now       \* mutant: the second query takes the time again
SecondNow == queriedAt

\* The same query again, with the same now; of its error only the empty result
\* is left.
SecondQuery ==
    /\ hpc = "secondQuery"
    /\ \/ reply' \in Limited(FreshValid(SecondNow, req.fresh), req.cap) /\ UNCHANGED dropped
       \/ reply' = {} /\ dropped' = TRUE
    /\ hpc' = "replied"
    /\ UNCHANGED <<now, row, validatorVars, req, queriedAt, left, releases,
                   expired, passed>>

ReturnsAnswered(n) == call[n] = V!Answered(n)       \* mutant: the deadline is ignored
Returns(n) == call[n] = V!Answered(n) \/ expired

\* RequestCheck returns, okCount is counted and the slot given back.
GoroutineEnds(n) ==
    /\ Returns(n)
    /\ V!Return(n)
    /\ \E ok \in BOOLEAN :
          /\ \/ call[n] = V!Answered(n) /\ ok = result[n].ok
             \/ expired /\ ~ok
          /\ releases' = Append(releases, ok)
          /\ passed' = IF ok THEN [passed EXCEPT ![n] = result[n]] ELSE passed
    /\ result' = [result EXCEPT ![n] = NoPass]
    /\ UNCHANGED <<now, row, maintained, ends, hpc, req, queriedAt, left, expired, reply,
                   dropped>>

\* SyncVerifyTimeout.
Expire ==
    /\ hpc \in {"candidates", "loop", "wait"} /\ ~expired
    /\ expired' = TRUE
    /\ UNCHANGED <<now, row, validatorVars, hpc, req, queriedAt, left, releases,
                   reply, passed, dropped>>

-----------------------------------------------------------------------------
(* The validator and the clock.                                            *)

Serving == hpc \in {"candidates", "loop", "wait", "secondQuery"}
MoreEvents == ends + (now - 1) < MaxEvents

\* The maintenance of the pool checks a node on its own account.
Maintain(n) ==
    /\ Serving /\ maintained < MaxMaintained
    /\ V!Schedule(n)
    /\ maintained' = maintained + 1
    /\ UNCHANGED <<now, row, ends, result, handlerVars>>

\* The row of a node after a check.  A failed check blanks the country and the
\* purity, which the request is taken to ask for; one that passed may have
\* measured others.  The ban a failure may bring outlasts the request.
RowsAfter(n, ok, began) ==
    {[row[n] EXCEPT !.valid = ok, !.at = began, !.match = m] :
        m \in IF ok THEN {"both", "none"} ELSE {"none"}}

\* The check of n ends: banned since before it began, or a result in the row.
CheckEnds(n) ==
    /\ Serving /\ MoreEvents /\ ends < MaxEnds
    /\ V!Complete(n)
    /\ ends' = ends + 1
    /\ \E ok \in BOOLEAN, began \in {t \in 1 .. now : t + ProbeTicks >= now} :
          /\ IF row[n].ban > began THEN ~ok /\ UNCHANGED row
             ELSE \E r \in RowsAfter(n, ok, began) : row' = [row EXCEPT ![n] = r]
          /\ result' = IF call[n] = V!Pending(n)
                       THEN [result EXCEPT ![n] = [ok |-> ok, at |-> began]] ELSE result
    /\ UNCHANGED <<now, maintained, handlerVars>>

NowTick ==
    /\ Serving /\ MoreEvents
    /\ now' = now + 1
    /\ UNCHANGED <<row, validatorVars, handlerVars>>

HandlerStep ==
    AskForCandidates \/ LeaveLoop \/ WaitGroupDone \/ SecondQuery \/ \E n \in Nodes : Send(n)

VerifyNext ==
    \/ \E kind \in {"list", "random"}, limit \in Limits, verify \in BOOLEAN, fresh \in FreshWithins :
          FirstQuery(kind, limit, verify, fresh)
    \/ HandlerStep
    \/ \E n \in Nodes : GoroutineEnds(n) \/ Maintain(n) \/ CheckEnds(n)
    \/ Expire
    \/ NowTick

\* The handler and its goroutines run, and the deadline comes.  No check is
\* obliged to end: the workers may all be busy, paused or not started.
VerifyFairness ==
    /\ WF_verifyVars(HandlerStep)
    /\ \A n \in Nodes : WF_verifyVars(GoroutineEnds(n))
    /\ WF_verifyVars(Expire)

VerifySpec == VerifyInit /\ [][VerifyNext]_verifyVars /\ VerifyFairness

-----------------------------------------------------------------------------
\* The unlocked read of okCount costs little: whatever the loop reads, the checks
\* that passed and those under way are at most Slots more than the client needs.
VerifyOvershoot == hpc # "idle" => OkCount + Cardinality(Open) <= req.need + Slots

\* The row of n is as a check that passed for this request has left it, and that
\* check began no earlier than the first query, or fresh_within covers a check.
PassedInTime(n) ==
    /\ passed[n].ok /\ row[n].valid /\ row[n].at = passed[n].at
    /\ passed[n].at >= queriedAt \/ ProbeTicks <= req.fresh

\* A node that passed for this request, and that nothing has checked since, is
\* sent to the client if the filter and the limit let it and the second query does
\* not fail: it has not become stale while others were verified, although the
\* clock of the two queries, that of the candidates and that of the check are
\* four. The exceptions are a ban that ended between the first query and that for
\* the candidates, and a check that the call joined, if it was running for longer
\* than the fresh_within of the client when the first query was made.
VerifiedIsReplied ==
    [][hpc = "secondQuery" /\ hpc' = "replied" /\ ~dropped' =>
          \A n \in Nodes :
              PassedInTime(n) /\ row[n].match = "both" /\ row[n].ban <= queriedAt
              => n \in reply' \/ Cardinality(reply') = req.cap]_verifyVars

\* A request ends although no check it asked for does, and although it goes on
\* asking for every candidate left after its deadline.
VerifyEnds == hpc = "candidates" ~> hpc = "replied"
=============================================================================
