----------------------------- MODULE PoolUpkeep -----------------------------
(***************************************************************************)
(* How the pool is kept fresh: the loop of the supervisor that counts the  *)
(* fresh nodes and asks for checks (validateLoop and ensureFreshPool of    *)
(* internal/core/supervisor.go), the two queries it makes (GetStats and    *)
(* QueryValidationCandidates), and what a check does to the order of those *)
(* candidates: the score (computeScore), the time of the check, the ban.   *)
(*                                                                         *)
(* The score is counted in units of 50, what a failure in a row costs.  A  *)
(* node that fails keeps what its past successes and the latency of the    *)
(* failed attempt earn it (400, 200 and 200 at most), less its streak; one *)
(* that passes may have any score.  Times are an order, the least recently *)
(* checked node first; freshness and bans end when they please.            *)
(***************************************************************************)
EXTENDS Naturals, Sequences, FiniteSets, SequencesExt

CONSTANTS
    PoolNodes,          \* ids of the nodes table
    MinFresh,           \* MinFreshPoolSize
    MinLimit, MaxLimit, \* least and most candidates asked for: 50 and 500
    PoolWorkers,        \* workers of the validator
    Credit,             \* units of score a node that fails may still hold
    TopScore,           \* units of score a node that passes may hold
    MaxUpsets           \* bound: nodes that go down for another, and restarts

ASSUME PoolAssumption ==
    /\ {MinFresh, MinLimit, MaxLimit, PoolWorkers, Credit, TopScore} \subseteq Nat \ {0}
    /\ MinLimit <= MaxLimit /\ Credit <= TopScore
    /\ MaxUpsets \in Nat

BanFrom == 3        \* fail_streak of the first automatic ban

VARIABLES
    up,         \* nodes that would pass a check now
    standing,   \* score and fail_streak of each node
    byAge,      \* the nodes, least recently checked first: last_checked_at
    fresh,      \* valid nodes checked within FreshWithinDefault
    banned,     \* nodes whose ban_until has not come
    tasks,      \* the maintenance tasks in the queue
    probing,    \* nodes the workers check
    short,      \* need of ensureFreshPool between its two queries, else 0
    upsets      \* upsets so far (for the bound)

poolVars == <<up, standing, byAge, fresh, banned, tasks, probing, short, upsets>>

\* How a node stands that was never checked, and one whose last check, in an
\* earlier run of the process, it passed.
New == [score |-> 0, streak |-> 0]
Good == [score |-> TopScore, streak |-> 0]

\* The table as earlier runs left it; new nodes come first in byAge, their
\* last_checked_at is 0.
PoolInit ==
    /\ up \in {U \in SUBSET PoolNodes : Cardinality(U) = MinFresh}
    /\ standing \in [PoolNodes -> {New, Good}]
    /\ byAge \in {o \in SetToSeqs(PoolNodes) :
                    \A i, j \in DOMAIN o :
                        standing[o[i]] = Good /\ standing[o[j]] = New => j < i}
    /\ fresh = {} /\ banned = {}
    /\ tasks = <<>> /\ probing = {}
    /\ short = 0
    /\ upsets = 0

-----------------------------------------------------------------------------
(* The loop.                                                               *)

\* GetStats.
FreshOK == Cardinality(fresh \ banned)

Limit(need) ==
    IF 3 * need > MaxLimit THEN MaxLimit ELSE IF 3 * need < MinLimit THEN MinLimit ELSE 3 * need

Age(n) == CHOOSE i \in DOMAIN byAge : byAge[i] = n

BeforeByScore(m, n) ==          \* mutant: nodes of one score in the order of their ids
    \/ standing[m].score > standing[n].score
    \/ standing[m].score = standing[n].score /\ m < n

\* ORDER BY score DESC, last_checked_at ASC.
Before(m, n) ==
    \/ standing[m].score > standing[n].score
    \/ standing[m].score = standing[n].score /\ Age(m) < Age(n)

\* Not banned, and not valid or not fresh.
MaintenanceCandidates == PoolNodes \ (banned \cup fresh)

\* The candidates the query returns: those within LIMIT.
Asked(limit) ==
    {n \in MaintenanceCandidates :
        Cardinality({m \in MaintenanceCandidates : Before(m, n)}) < limit}

InFlight == probing \cup ToSet(tasks)

\* ensureFreshPool: enough fresh nodes, or need more.
CountFresh ==
    /\ short = 0
    /\ FreshOK < MinFresh
    /\ short' = MinFresh - FreshOK
    /\ UNCHANGED <<up, standing, byAge, fresh, banned, tasks, probing, upsets>>

\* Enqueue skips a node in flight, which has taken a place of the LIMIT.
AskForChecks ==
    /\ short # 0
    /\ short' = 0
    /\ tasks' = tasks \o SetToSortSeq(Asked(Limit(short)) \ InFlight, Before)
    /\ UNCHANGED <<up, standing, byAge, fresh, banned, probing, upsets>>

-----------------------------------------------------------------------------
(* The validator.                                                          *)

\* The oldest maintenance task goes first.
BeginCheck ==
    /\ tasks # <<>> /\ Cardinality(probing) < PoolWorkers
    /\ probing' = probing \cup {Head(tasks)}
    /\ tasks' = Tail(tasks)
    /\ UNCHANGED <<up, standing, byAge, fresh, banned, short, upsets>>

\* Streaks that leave no score are alike.
Longer(streak) == IF streak >= Credit /\ streak >= BanFrom THEN streak ELSE streak + 1

\* computeScore of a node that failed: what it holds, less its streak.
ScoreAfterFailure(streak) == 0 .. (IF streak >= Credit THEN 0 ELSE Credit - streak)

\* A check that ends is taken to be the latest; workers may end them in any order.
CheckedLast(n) == Append(Remove(byAge, n), n)

CheckPassed(n) ==
    /\ n \in probing /\ n \in up
    /\ \E s \in {0, TopScore} :
          standing' = [standing EXCEPT ![n] = [score |-> s, streak |-> 0]]
    /\ fresh' = fresh \cup {n}
    /\ UNCHANGED banned

CheckFailed(n) ==
    /\ n \in probing /\ n \notin up
    /\ LET streak == Longer(standing[n].streak)
       IN /\ \E s \in ScoreAfterFailure(streak) :
                standing' = [standing EXCEPT ![n] = [score |-> s, streak |-> streak]]
          /\ banned' = IF streak >= BanFrom THEN banned \cup {n} ELSE banned
    /\ fresh' = fresh \ {n}

EndCheck(n) ==
    /\ CheckPassed(n) \/ CheckFailed(n)
    /\ byAge' = CheckedLast(n)
    /\ probing' = probing \ {n}
    /\ UNCHANGED <<up, tasks, short, upsets>>

-----------------------------------------------------------------------------
(* Time, the network and the process.                                      *)

GoStale(n) ==
    /\ n \in fresh
    /\ fresh' = fresh \ {n}
    /\ UNCHANGED <<up, standing, byAge, banned, tasks, probing, short, upsets>>

BanEnds(n) ==
    /\ n \in banned
    /\ banned' = banned \ {n}
    /\ UNCHANGED <<up, standing, byAge, fresh, tasks, probing, short, upsets>>

\* One node goes down and another comes up: enough nodes are up at any time.
Mood(m, n) ==
    /\ upsets < MaxUpsets
    /\ m \in up /\ n \notin up
    /\ up' = (up \ {m}) \cup {n}
    /\ upsets' = upsets + 1
    /\ UNCHANGED <<standing, byAge, fresh, banned, tasks, probing, short>>

\* The process dies: the queue and the checks under way are lost, no row is.
PoolRestart ==
    /\ upsets < MaxUpsets
    /\ upsets' = upsets + 1
    /\ tasks' = <<>> /\ probing' = {} /\ short' = 0
    /\ UNCHANGED <<up, standing, byAge, fresh, banned>>

PoolNext ==
    \/ CountFresh \/ AskForChecks \/ BeginCheck
    \/ \E n \in PoolNodes : EndCheck(n) \/ GoStale(n) \/ BanEnds(n)
    \/ \E m, n \in PoolNodes : Mood(m, n)
    \/ PoolRestart

\* The ticker of the loop and the workers go on, checks and bans end.  Nodes
\* need not become stale, and the network need not change.
PoolFairness ==
    /\ WF_poolVars(CountFresh) /\ WF_poolVars(AskForChecks)
    /\ WF_poolVars(BeginCheck)
    /\ \A n \in PoolNodes :
          WF_poolVars(EndCheck(n)) /\ WF_poolVars(BanEnds(n))

PoolSpec == PoolInit /\ [][PoolNext]_poolVars /\ PoolFairness

-----------------------------------------------------------------------------
\* A pool that was found short becomes full again while enough nodes are up: dead
\* nodes with the better scores, bans, places of the LIMIT taken by nodes in flight
\* and restarts do not keep a good node, unknown or once bad, from its check.
PoolRecovers == short # 0 ~> FreshOK >= MinFresh
=============================================================================
