--------------------------- MODULE ValidatorQueue ---------------------------
(***************************************************************************)
(* The validator's task queue, its workers and its single-flight           *)
(* RequestCheck (internal/validator/validator.go, queue.go).               *)
(*                                                                         *)
(* Every critical section of Validator.mu is one action; a worker and a    *)
(* RequestCheck call have a program counter for the points between them.   *)
(* The check itself (runOne) is the state "running"; NodeCheck.tla opens   *)
(* it.  The heap of queue.go is a sequence in push order whose next        *)
(* element is the first one of the least priority number: that is the      *)
(* order of the pair (Priority, seq), and a seq is never reused.           *)
(***************************************************************************)
EXTENDS Naturals, Sequences, FiniteSets

CONSTANTS
    Nodes,          \* node ids a task or a call may name
    Calls,          \* concurrent callers of RequestCheck
    Workers,        \* worker goroutines once the pool has its full size
    WarmWorkers,    \* those that Start launches; the rest follow the warm-up
    NoNode,         \* NodeID 0, the id of a source sample's task
    MaxSamples      \* bound: sample tasks queued or running at a time

ASSUME QueueAssumption ==
    /\ NoNode \notin Nodes
    /\ WarmWorkers \subseteq Workers
    /\ MaxSamples \in Nat

PriorityOnDemand == 10
PriorityPoolMaintain == 50
PrioritySourceSample == 80

Task(priority, node) == [priority |-> priority, node |-> node]
Tasks == [priority : {PriorityOnDemand, PriorityPoolMaintain, PrioritySourceSample},
          node : Nodes \cup {NoNode}]
NoTask == [priority |-> 0, node |-> NoNode]

VARIABLES
    queue,      \* v.queue, in push order
    inFlight,   \* v.inFlight
    waiters,    \* v.waiters: waiters[n] holds the calls whose channel is listed
    started,    \* v.started
    wpc,        \* where each worker is in its loop
    task,       \* the task a running worker holds
    cpc,        \* where each RequestCheck call is
    asks,       \* the node a call named
    box,        \* the buffer (capacity 1) of a call's channel: whose result it is
    closed,     \* the calls whose channel is closed
    walHigh,    \* the WAL is above SQLiteWALHardLimitBytes
    stopped,    \* the process context is cancelled
    overrun,    \* history: tasks a worker took since the WAL last crossed the limit
    late        \* history: tasks a worker took since the context was cancelled

muVars == <<queue, inFlight, waiters>>
workerVars == <<started, wpc, task, overrun, late>>
callVars == <<cpc, asks, box, closed>>
envVars == <<walHigh, stopped>>
vars == <<muVars, workerVars, callVars, envVars>>

-----------------------------------------------------------------------------
(* The heap.                                                               *)

\* queue[i] is what heap.Pop returns: least priority number, then oldest.
IsTopNewestFirst(q, i) ==   \* mutant: the tie goes to the newest task
    \A j \in DOMAIN q : \/ q[i].priority < q[j].priority
                        \/ q[i].priority = q[j].priority /\ j <= i

IsTop(q, i) ==
    \A j \in DOMAIN q : \/ q[i].priority < q[j].priority
                        \/ q[i].priority = q[j].priority /\ i <= j

Without(q, i) == [k \in 1 .. Len(q) - 1 |-> IF k < i THEN q[k] ELSE q[k + 1]]

Running == {w \in Workers : wpc[w] = "running"}
SampleSlots == {i \in DOMAIN queue : queue[i].node = NoNode}
RunningSamples == {w \in Running : task[w].node = NoNode}

-----------------------------------------------------------------------------
Init ==
    /\ queue = <<>>
    /\ inFlight = {}
    /\ waiters = [n \in Nodes |-> {}]
    /\ started = FALSE
    /\ wpc = [w \in Workers |-> "off"]
    /\ task = [w \in Workers |-> NoTask]
    /\ cpc = [c \in Calls |-> "idle"]
    /\ asks = [c \in Calls |-> NoNode]
    /\ box = [c \in Calls |-> NoNode]
    /\ closed = {}
    /\ walHigh = FALSE
    /\ stopped = FALSE
    /\ overrun = [w \in Workers |-> 0]
    /\ late = [w \in Workers |-> 0]

-----------------------------------------------------------------------------
(* Producers.                                                              *)

\* Enqueue of a maintenance task: dropped while n is in flight.
EnqueueNodeUnmarked(n) ==   \* mutant: the mark is forgotten
    /\ n \notin inFlight
    /\ queue' = Append(queue, Task(PriorityPoolMaintain, n))
    /\ UNCHANGED <<inFlight, waiters, workerVars, callVars, envVars>>

EnqueueNode(n) ==
    /\ n \notin inFlight
    /\ inFlight' = inFlight \cup {n}
    /\ queue' = Append(queue, Task(PriorityPoolMaintain, n))
    /\ UNCHANGED <<waiters, workerVars, callVars, envVars>>

\* Enqueue of a source sample: NodeID 0, so inFlight is not consulted.
EnqueueSample ==
    /\ Cardinality(SampleSlots) + Cardinality(RunningSamples) < MaxSamples
    /\ queue' = Append(queue, Task(PrioritySourceSample, NoNode))
    /\ UNCHANGED <<inFlight, waiters, workerVars, callVars, envVars>>

-----------------------------------------------------------------------------
(* RequestCheck.                                                           *)

\* The task a call pushes when no check of n is in flight.
RequestTaskNoPriority(n) == Task(0, n)      \* mutant: the field is left out

RequestTask(n) == Task(PriorityOnDemand, n)

\* The first critical section: list the channel, then join or push.
RequestCheck(c, n) ==
    /\ cpc[c] = "idle"
    /\ cpc' = [cpc EXCEPT ![c] = "waiting"]
    /\ asks' = [asks EXCEPT ![c] = n]
    /\ box' = [box EXCEPT ![c] = NoNode]
    /\ closed' = closed \ {c}
    /\ waiters' = [waiters EXCEPT ![n] = @ \cup {c}]
    /\ inFlight' = inFlight \cup {n}
    /\ queue' = IF n \in inFlight THEN queue ELSE Append(queue, RequestTask(n))
    /\ UNCHANGED <<workerVars, envVars>>

\* The select takes ctx.Done(); the lock is not yet held, so a finish may
\* still slip in.  The deadline of a call may end at any time.
ContextDone(c) ==
    /\ cpc[c] = "waiting"
    /\ cpc' = [cpc EXCEPT ![c] = "leaving"]
    /\ UNCHANGED <<muVars, workerVars, asks, box, closed, envVars>>

\* v.waiters once a call that gives up has taken its channel off the list.
WaitersAllDropped(c) == [waiters EXCEPT ![asks[c]] = {}]    \* mutant

WaitersWithout(c) == [waiters EXCEPT ![asks[c]] = @ \ {c}]

\* The second critical section: take the channel off the list.
RemoveWaiter(c) ==
    /\ cpc[c] = "leaving"
    /\ waiters' = WaitersWithout(c)
    /\ cpc' = [cpc EXCEPT ![c] = "idle"]
    /\ UNCHANGED <<queue, inFlight, workerVars, asks, box, closed, envVars>>

\* The select receives: a buffered result, or the zero value of a closed channel.
Receive(c) ==
    /\ cpc[c] = "waiting"
    /\ box[c] # NoNode \/ c \in closed
    /\ cpc' = [cpc EXCEPT ![c] = "idle"]
    /\ UNCHANGED <<muVars, workerVars, asks, box, closed, envVars>>

-----------------------------------------------------------------------------
(* Workers.                                                                *)

MoveTo(w, pc) == wpc' = [wpc EXCEPT ![w] = pc]

\* Start launches the warm-up workers, once.
Start ==
    /\ ~started
    /\ started' = TRUE
    /\ wpc' = [w \in Workers |-> IF w \in WarmWorkers THEN "loop" ELSE wpc[w]]
    /\ UNCHANGED <<muVars, task, overrun, late, callVars, envVars>>

\* The warm-up ends; the timer may win against a cancelled context.
ScaleWorkersAfterWarmup ==
    /\ started
    /\ \E w \in Workers \ WarmWorkers : wpc[w] = "off"
    /\ wpc' = [w \in Workers |-> IF w \in WarmWorkers THEN wpc[w] ELSE "loop"]
    /\ UNCHANGED <<muVars, started, task, overrun, late, callVars, envVars>>

LoopExitNoPause(w) == IF stopped THEN "dead" ELSE "ready"       \* mutant: no WAL guard
LoopExitNoStop(w) == IF walHigh THEN "paused" ELSE "ready"      \* mutant: no ctx check

LoopExit(w) == IF stopped THEN "dead" ELSE IF walHigh THEN "paused" ELSE "ready"

\* Top of the loop: leave on a cancelled context, else look at the WAL.
LoopTop(w) ==
    /\ wpc[w] = "loop"
    /\ MoveTo(w, LoopExit(w))
    /\ UNCHANGED <<muVars, started, task, overrun, late, callVars, envVars>>

\* pauseForWALPressure: the timer sends the worker back to the top, a
\* cancelled context returns false and so on to pop.
EndPause(w) ==
    /\ wpc[w] = "paused"
    /\ \/ MoveTo(w, "loop")
       \/ stopped /\ MoveTo(w, "ready")
    /\ UNCHANGED <<muVars, started, task, overrun, late, callVars, envVars>>

\* pop of an empty queue: sleep, then the top of the loop.
PopNothing(w) ==
    /\ wpc[w] = "ready"
    /\ queue = <<>>
    /\ MoveTo(w, "loop")
    /\ UNCHANGED <<muVars, started, task, overrun, late, callVars, envVars>>

Pop(w) ==
    /\ wpc[w] = "ready"
    /\ \E i \in DOMAIN queue :
          /\ IsTop(queue, i)
          /\ task' = [task EXCEPT ![w] = queue[i]]
          /\ queue' = Without(queue, i)
    /\ MoveTo(w, "running")
    /\ overrun' = [overrun EXCEPT ![w] = IF walHigh THEN @ + 1 ELSE @]
    /\ late' = [late EXCEPT ![w] = IF stopped THEN @ + 1 ELSE @]
    /\ UNCHANGED <<inFlight, waiters, started, callVars, envVars>>

\* The channels finish answers, and v.waiters after it.
AnsweredOne(n) ==       \* mutant: only one of the waiting calls is answered
    IF waiters[n] = {} THEN {} ELSE {CHOOSE c \in waiters[n] : TRUE}

AnsweredCalls(n) == waiters[n]

WaitersKept(n) == waiters       \* mutant: the list outlives finish

WaitersTaken(n) == [waiters EXCEPT ![n] = {}]

\* finish, once runOne has returned: the node leaves the flight and every
\* listed channel gets the result (a full buffer drops it) and is closed.
Finish(w) ==
    /\ wpc[w] = "running"
    /\ MoveTo(w, "loop")
    /\ task' = [task EXCEPT ![w] = NoTask]
    /\ LET n == task[w].node
       IN IF n = NoNode
          THEN UNCHANGED <<inFlight, waiters, box, closed>>
          ELSE /\ inFlight' = inFlight \ {n}
               /\ waiters' = WaitersTaken(n)
               /\ box' = [c \in Calls |-> IF c \in AnsweredCalls(n) /\ box[c] = NoNode
                                          THEN n ELSE box[c]]
               /\ closed' = closed \cup AnsweredCalls(n)
    /\ UNCHANGED <<queue, started, overrun, late, cpc, asks, envVars>>

WorkerStep(w) == LoopTop(w) \/ EndPause(w) \/ PopNothing(w) \/ Pop(w) \/ Finish(w)

-----------------------------------------------------------------------------
(* Environment.                                                            *)

\* Writers push the WAL over the hard limit, a checkpoint brings it back.
WalMoves ==
    /\ walHigh' = ~walHigh
    /\ overrun' = [w \in Workers |-> 0]
    /\ UNCHANGED <<muVars, started, wpc, task, late, callVars, stopped>>

Shutdown ==
    /\ ~stopped
    /\ stopped' = TRUE
    /\ UNCHANGED <<muVars, workerVars, callVars, walHigh>>

Next ==
    \/ \E n \in Nodes : EnqueueNode(n)
    \/ EnqueueSample
    \/ \E c \in Calls, n \in Nodes : RequestCheck(c, n)
    \/ \E c \in Calls : ContextDone(c) \/ RemoveWaiter(c) \/ Receive(c)
    \/ Start
    \/ ScaleWorkersAfterWarmup
    \/ \E w \in Workers : WorkerStep(w)
    \/ WalMoves
    \/ Shutdown

\* A call has a deadline (SyncVerifyTimeout) and its goroutine runs; a worker
\* runs, and a check ends because each of its network steps has a timeout.
\* Nothing obliges producers, the WAL or the operator to do anything.
Fairness ==
    /\ \A c \in Calls : WF_vars(ContextDone(c) \/ Receive(c)) /\ WF_vars(RemoveWaiter(c))
    /\ \A w \in Workers : WF_vars(WorkerStep(w))

Spec == Init /\ [][Next]_vars /\ Fairness

-----------------------------------------------------------------------------
(* Invariants.                                                             *)

\* Every variable of the validator has its type.
TypeOK ==
    /\ queue \in Seq(Tasks)
    /\ inFlight \subseteq Nodes
    /\ waiters \in [Nodes -> SUBSET Calls]
    /\ started \in BOOLEAN
    /\ wpc \in [Workers -> {"off", "loop", "paused", "ready", "running", "dead"}]
    /\ task \in [Workers -> Tasks \cup {NoTask}]
    /\ \A w \in Running : task[w] \in Tasks
    /\ cpc \in [Calls -> {"idle", "waiting", "leaving"}]
    /\ asks \in [Calls -> Nodes \cup {NoNode}]
    /\ \A c \in Calls : cpc[c] # "idle" => asks[c] \in Nodes
    /\ box \in [Calls -> Nodes \cup {NoNode}]
    /\ closed \subseteq Calls
    /\ walHigh \in BOOLEAN
    /\ stopped \in BOOLEAN
    /\ overrun \in [Workers -> Nat]
    /\ late \in [Workers -> Nat]

Queued(n) == \E i \in DOMAIN queue : queue[i].node = n
Held(n) == \E w \in Running : task[w].node = n

\* Single flight: a node in flight has one task, queued or held by one
\* worker; a node not in flight has none.  inFlight is cleared by finish and
\* set by two producers, in three critical sections that never see each other.
OneTaskPerFlight ==
    /\ inFlight = {n \in Nodes : Queued(n) \/ Held(n)}
    /\ \A n \in inFlight : ~(Queued(n) /\ Held(n))
    /\ \A i, j \in DOMAIN queue :
          queue[i].node = queue[j].node /\ queue[i].node # NoNode => i = j
    /\ \A v, w \in Running :
          task[v].node = task[w].node /\ task[v].node # NoNode => v = w

\* A listed channel belongs to an open call for that node, is empty and is not
\* closed: finish never sends to or closes a closed channel (a panic that
\* would end the process), and no channel outlives its call in the map.
ChannelDiscipline ==
    \A n \in Nodes : \A c \in waiters[n] :
        cpc[c] # "idle" /\ asks[c] = n /\ box[c] = NoNode /\ c \notin closed

\* No lost answer: an open call is listed under its node and that node's check
\* is in flight, or its channel holds the result of that very node.  So a
\* receive never yields the zero value of a closed, empty channel.
NoLostAnswer ==
    \A c \in Calls : cpc[c] # "idle" =>
        \/ c \in waiters[asks[c]] /\ asks[c] \in inFlight
        \/ box[c] = asks[c] /\ c \in closed

\* The WAL guard is read before pop and not under a lock.  While the WAL stays
\* above the hard limit a worker still takes one task it had already passed
\* the guard for, and one more if the process is being stopped.
WalOvershoot ==
    \A w \in Workers : overrun[w] <= IF stopped THEN 2 ELSE 1

\* After the context is cancelled a worker takes at most one more task.
ShutdownOvershoot == \A w \in Workers : late[w] <= 1

-----------------------------------------------------------------------------
(* The abstract specification and liveness.                                *)

\* What the caller of c sees of it: a call that gives up has returned, whether or
\* not its channel is off the list yet.
abstractCall ==
    [c \in Calls |-> IF cpc[c] # "waiting" THEN [phase |-> "idle"]
                     ELSE IF box[c] = NoNode THEN [phase |-> "pending", node |-> asks[c]]
                     ELSE [phase |-> "answered", node |-> asks[c]]]

SF == INSTANCE SingleFlight WITH owed <- inFlight, call <- abstractCall

\* The validator with its queue, workers and channels keeps the promise of
\* SingleFlight: one owed check per node, its end answers every open call
\* that waits for it at once, and a call always returns.
ImplementsSingleFlight == SF!Spec

\* A request that made its own task is served although maintenance and samples
\* keep arriving: once the validator runs, with the WAL under its limit and no
\* shutdown, a queued on-demand task leaves the flight.  (A call that joined a
\* maintenance task has no such promise: only its deadline ends it.)
OnDemandServed ==
    <>[](started /\ ~walHigh /\ ~stopped) =>
        \A n \in Nodes :
            (\E i \in DOMAIN queue : queue[i] = Task(PriorityOnDemand, n))
                ~> n \notin inFlight

\* After the context is cancelled every worker leaves its loop.
WorkersLeave ==
    stopped ~> \A w \in Workers : wpc[w] \in {"off", "dead"}
=============================================================================
