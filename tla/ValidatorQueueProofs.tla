------------------------ MODULE ValidatorQueueProofs ------------------------
(***************************************************************************)
(* Proofs about ValidatorQueue, for any number of nodes, calls, workers    *)
(* and samples.                                                            *)
(*                                                                         *)
(* The inductive invariant Inv is TypeOK, OneTaskPerFlight,                *)
(* ChannelDiscipline and NoLostAnswer with WorkersOff: the last says that  *)
(* Start and the end of the warm-up find only workers that never ran, so   *)
(* that neither takes a task away from a running one.                      *)
(***************************************************************************)
EXTENDS ValidatorQueue, SequenceTheorems, TLAPS

-----------------------------------------------------------------------------
(* Sequences of tasks.                                                     *)

QueuedIn(q, n) == \E i \in DOMAIN q : q[i].node = n
OncePerNode(q) == \A i, j \in DOMAIN q : q[i].node = q[j].node /\ q[i].node # NoNode => i = j

\* What deleting a position does to a sequence.
LEMMA WithoutProperties ==
    ASSUME NEW S, NEW q \in Seq(S), NEW i \in DOMAIN q
    PROVE  /\ Without(q, i) \in Seq(S)
           /\ DOMAIN Without(q, i) = 1 .. Len(q) - 1
           /\ \A k \in 1 .. Len(q) - 1 :
                 Without(q, i)[k] = IF k < i THEN q[k] ELSE q[k + 1]
<1>1. /\ Len(q) \in Nat /\ DOMAIN q = 1 .. Len(q) /\ i \in 1 .. Len(q)
      /\ \A k \in 1 .. Len(q) : q[k] \in S
  BY LenProperties, ElementOfSeq
<1>2. /\ Len(q) - 1 \in Nat
      /\ \A k \in 1 .. Len(q) - 1 : k \in 1 .. Len(q) /\ k + 1 \in 1 .. Len(q)
  BY <1>1
<1>3. Without(q, i) \in [1 .. Len(q) - 1 -> S]
  BY <1>1, <1>2 DEF Without
<1>4. Without(q, i) \in Seq(S)
  BY <1>2, <1>3, SeqDef
<1> QED
  BY <1>4 DEF Without

\* Pushing a task adds its node to the queue, and keeps one task per node if
\* the node had none.
LEMMA AppendNodes ==
    ASSUME NEW q \in Seq(Tasks), NEW t \in Tasks
    PROVE  /\ Append(q, t) \in Seq(Tasks)
           /\ \A n : QueuedIn(Append(q, t), n) <=> QueuedIn(q, n) \/ t.node = n
           /\ OncePerNode(q) /\ (t.node = NoNode \/ ~QueuedIn(q, t.node))
                 => OncePerNode(Append(q, t))
<1>1. /\ Len(q) \in Nat
      /\ DOMAIN q = 1 .. Len(q)
  BY LenProperties
<1>2. /\ Append(q, t) \in Seq(Tasks)
      /\ Len(Append(q, t)) = Len(q) + 1
      /\ \A i \in 1 .. Len(q) : Append(q, t)[i] = q[i]
      /\ Append(q, t)[Len(q) + 1] = t
  BY AppendProperties
<1>3. DOMAIN Append(q, t) = 1 .. Len(q) + 1
  BY <1>2, LenProperties
<1>4. 1 .. Len(q) + 1 = (1 .. Len(q)) \cup {Len(q) + 1}
  BY <1>1
<1>5. \A n : QueuedIn(Append(q, t), n) <=> QueuedIn(q, n) \/ t.node = n
  BY <1>1, <1>2, <1>3, <1>4 DEF QueuedIn
<1>6. OncePerNode(q) /\ (t.node = NoNode \/ ~QueuedIn(q, t.node))
         => OncePerNode(Append(q, t))
  BY <1>1, <1>2, <1>3, <1>4 DEF QueuedIn, OncePerNode
<1> QED
  BY <1>2, <1>5, <1>6

\* Taking a task off the queue takes its node off, if it was there once.
LEMMA WithoutNodes ==
    ASSUME NEW q \in Seq(Tasks), NEW i \in DOMAIN q, OncePerNode(q)
    PROVE  /\ Without(q, i) \in Seq(Tasks)
           /\ q[i] \in Tasks
           /\ \A n : QueuedIn(q, n) <=> QueuedIn(Without(q, i), n) \/ q[i].node = n
           /\ q[i].node # NoNode => ~QueuedIn(Without(q, i), q[i].node)
           /\ OncePerNode(Without(q, i))
<1> DEFINE r == Without(q, i)
<1> DEFINE old(k) == IF k < i THEN k ELSE k + 1
<1>1. /\ Len(q) \in Nat /\ DOMAIN q = 1 .. Len(q) /\ i \in 1 .. Len(q)
      /\ q[i] \in Tasks
  BY LenProperties, ElementOfSeq
<1>2. /\ r \in Seq(Tasks)
      /\ DOMAIN r = 1 .. Len(q) - 1
      /\ \A k \in DOMAIN r : r[k] = q[old(k)]
  <2>1. /\ r \in Seq(Tasks)
        /\ DOMAIN r = 1 .. Len(q) - 1
        /\ \A k \in 1 .. Len(q) - 1 : r[k] = IF k < i THEN q[k] ELSE q[k + 1]
    BY WithoutProperties
  <2> QED
    BY <2>1, <1>1
<1> HIDE DEF r
<1>3. \A k \in DOMAIN r : old(k) \in DOMAIN q /\ old(k) # i
  BY <1>1, <1>2
<1>4. \A k, m \in DOMAIN r : old(k) = old(m) => k = m
  BY <1>1, <1>2
<1>5. \A j \in DOMAIN q : j # i => \E k \in DOMAIN r : j = old(k)
  <2> SUFFICES ASSUME NEW j \in DOMAIN q, j # i
               PROVE  \E k \in DOMAIN r : j = old(k)
    OBVIOUS
  <2>1. CASE j < i
    <3>1. j \in DOMAIN r /\ old(j) = j
      BY <2>1, <1>1, <1>2
    <3> QED
      BY <3>1
  <2>2. CASE j > i
    <3>1. j - 1 \in DOMAIN r /\ old(j - 1) = j
      BY <2>2, <1>1, <1>2
    <3> QED
      BY <3>1
  <2> QED
    BY <1>1, <2>1, <2>2
<1> HIDE DEF old
<1>6. \A n : QueuedIn(q, n) <=> QueuedIn(r, n) \/ q[i].node = n
  BY <1>2, <1>3, <1>5 DEF QueuedIn
<1>7. q[i].node # NoNode => ~QueuedIn(r, q[i].node)
  BY <1>2, <1>3 DEF QueuedIn, OncePerNode
<1>8. OncePerNode(r)
  BY <1>2, <1>3, <1>4 DEF OncePerNode
<1> QED
  BY <1>1, <1>2, <1>6, <1>7, <1>8 DEF r

-----------------------------------------------------------------------------
(* The inductive invariant.                                                *)

\* Start and ScaleWorkersAfterWarmup launch workers that never ran.
WorkersOff ==
    /\ ~started => \A w \in Workers : wpc[w] = "off"
    /\ \A v, w \in Workers \ WarmWorkers : wpc[v] = "off" => wpc[w] = "off"

Inv ==
    /\ TypeOK
    /\ WorkersOff
    /\ OneTaskPerFlight
    /\ ChannelDiscipline
    /\ NoLostAnswer

\* The validator starts with nothing queued, running or waited for.
LEMMA InitInv == Init => Inv
<1> SUFFICES ASSUME Init
             PROVE  Inv
  OBVIOUS
<1>1. /\ queue \in Seq(Tasks)
      /\ DOMAIN queue = {}
  <2>1. queue = <<>>
    BY DEF Init
  <2> QED
    BY <2>1, EmptySeq
<1>2. TypeOK
  BY <1>1, Zenon DEF Init, TypeOK, Running, NoTask
<1>3. OneTaskPerFlight
  BY <1>1 DEF Init, OneTaskPerFlight, Queued, Held, Running
<1>4. ChannelDiscipline /\ NoLostAnswer /\ WorkersOff
  BY DEF Init, ChannelDiscipline, NoLostAnswer, WorkersOff
<1> QED
  BY <1>2, <1>3, <1>4 DEF Inv

\* The type of every variable is kept by every step.
LEMMA TypeStep ==
    ASSUME Inv, [Next]_vars
    PROVE  TypeOK'
<1> USE QueueAssumption DEF Inv, TypeOK, Running
<1> USE DEF muVars, workerVars, callVars, envVars
<1>1. \A p \in {PriorityOnDemand, PriorityPoolMaintain, PrioritySourceSample},
         n \in Nodes \cup {NoNode} : Append(queue, Task(p, n)) \in Seq(Tasks)
  <2>1. \A p \in {PriorityOnDemand, PriorityPoolMaintain, PrioritySourceSample},
           n \in Nodes \cup {NoNode} : Task(p, n) \in Tasks
    BY DEF Task, Tasks
  <2> QED
    BY <2>1, AppendNodes
<1>2. ASSUME NEW n \in Nodes, EnqueueNode(n)
      PROVE  TypeOK'
  BY <1>1, <1>2 DEF EnqueueNode
<1>3. CASE EnqueueSample
  BY <1>1, <1>3 DEF EnqueueSample
<1>4. ASSUME NEW c \in Calls, NEW n \in Nodes, RequestCheck(c, n)
      PROVE  TypeOK'
  BY <1>1, <1>4 DEF RequestCheck, RequestTask
<1>5. ASSUME NEW c \in Calls, ContextDone(c) \/ RemoveWaiter(c) \/ Receive(c)
      PROVE  TypeOK'
  <2>1. CASE ContextDone(c)
    BY <2>1 DEF ContextDone
  <2>2. CASE RemoveWaiter(c)
    BY <2>2 DEF RemoveWaiter, WaitersWithout
  <2>3. CASE Receive(c)
    BY <2>3 DEF Receive
  <2> QED
    BY <1>5, <2>1, <2>2, <2>3
<1>6. CASE Start
  BY <1>6 DEF Start, WorkersOff
<1>7. CASE ScaleWorkersAfterWarmup
  BY <1>7 DEF ScaleWorkersAfterWarmup
<1>8. ASSUME NEW w \in Workers, LoopTop(w) \/ EndPause(w) \/ PopNothing(w)
      PROVE  TypeOK'
  BY <1>8 DEF LoopTop, LoopExit, EndPause, PopNothing, MoveTo
<1>9. ASSUME NEW w \in Workers, Pop(w)
      PROVE  TypeOK'
  <2>1. PICK i \in DOMAIN queue : /\ task' = [task EXCEPT ![w] = queue[i]]
                                  /\ queue' = Without(queue, i)
    BY <1>9 DEF Pop
  <2>2. OncePerNode(queue)
    BY DEF OneTaskPerFlight, OncePerNode
  <2>3. queue[i] \in Tasks /\ queue' \in Seq(Tasks)
    BY <2>1, <2>2, WithoutNodes
  <2>4. overrun' \in [Workers -> Nat] /\ late' \in [Workers -> Nat]
    BY <1>9 DEF Pop
  <2> QED
    BY <1>9, <2>1, <2>3, <2>4 DEF Pop, MoveTo
<1>10. ASSUME NEW w \in Workers, Finish(w)
       PROVE  TypeOK'
  <2>1. /\ inFlight' \subseteq Nodes /\ closed' \subseteq Calls
        /\ waiters' \in [Nodes -> SUBSET Calls]
        /\ box' \in [Calls -> Nodes \cup {NoNode}]
    <3> DEFINE n == task[w].node
    <3>1. CASE n = NoNode
      BY <1>10, <3>1 DEF Finish
    <3>2. CASE n # NoNode
      <4>1. n \in Nodes
        BY <1>10, <3>2 DEF Finish, Tasks, Running
      <4> HIDE DEF n
      <4>2. /\ inFlight' = inFlight \ {n} /\ waiters' = [waiters EXCEPT ![n] = {}]
            /\ box' = [c \in Calls |-> IF c \in waiters[n] /\ box[c] = NoNode
                                       THEN n ELSE box[c]]
            /\ closed' = closed \cup waiters[n]
        BY <1>10, <3>2 DEF Finish, AnsweredCalls, WaitersTaken, n
      <4> QED
        BY <4>1, <4>2
    <3> QED
      BY <3>1, <3>2
  <2>2. /\ wpc' = [wpc EXCEPT ![w] = "loop"] /\ task' = [task EXCEPT ![w] = NoTask]
        /\ UNCHANGED <<queue, started, overrun, late, cpc, asks, walHigh, stopped>>
    BY <1>10 DEF Finish, MoveTo, envVars
  <2> QED
    BY <2>1, <2>2 DEF Running
<1>11. CASE WalMoves
  BY <1>11 DEF WalMoves
<1>12. CASE Shutdown
  BY <1>12 DEF Shutdown
<1>13. CASE UNCHANGED vars
  BY <1>13 DEF vars
<1> QED
  BY <1>2, <1>3, <1>4, <1>5, <1>6, <1>7, <1>8, <1>9, <1>10, <1>11, <1>12, <1>13
     DEF Next, WorkerStep

\* Only Start and the end of the warm-up take workers out of "off".
LEMMA OffStep ==
    ASSUME Inv, [Next]_vars
    PROVE  WorkersOff'
<1> USE DEF workerVars, WorkersOff
<1>1. /\ wpc \in [Workers -> {"off", "loop", "paused", "ready", "running", "dead"}]
      /\ started \in BOOLEAN
      /\ WorkersOff
  BY DEF Inv, TypeOK
<1>2. CASE Start
  BY <1>1, <1>2, QueueAssumption DEF Start
<1>3. CASE ScaleWorkersAfterWarmup
  BY <1>1, <1>3, QueueAssumption DEF ScaleWorkersAfterWarmup
<1>4. ASSUME NEW w \in Workers, WorkerStep(w)
      PROVE  WorkersOff'
  <2>1. /\ wpc[w] # "off"
        /\ started' = started
        /\ \A v \in Workers : (wpc'[v] = "off") <=> (wpc[v] = "off")
    BY <1>1, <1>4 DEF WorkerStep, LoopTop, LoopExit, EndPause, PopNothing, Pop, Finish, MoveTo
  <2> QED
    BY <1>1, <2>1
<1>5. CASE UNCHANGED <<started, wpc>>
  BY <1>1, <1>5
<1>6. CASE /\ ~Start /\ ~ScaleWorkersAfterWarmup
           /\ ~\E w \in Workers : WorkerStep(w)
  BY <1>5, <1>6 DEF Next, EnqueueNode, EnqueueSample, RequestCheck, ContextDone,
                    RemoveWaiter, Receive, WalMoves, Shutdown, vars
<1> QED
  BY <1>2, <1>3, <1>4, <1>6

\* Every step keeps one task per node in flight.
LEMMA FlightStep ==
    ASSUME Inv, TypeOK', [Next]_vars
    PROVE  OneTaskPerFlight'
<1> DEFINE Flight(q, f, R, t) ==
      /\ f = {n \in Nodes : QueuedIn(q, n) \/ \E w \in R : t[w].node = n}
      /\ \A n \in f : ~(QueuedIn(q, n) /\ \E w \in R : t[w].node = n)
      /\ OncePerNode(q)
      /\ \A v, w \in R : t[v].node = t[w].node /\ t[v].node # NoNode => v = w
<1>1. Flight(queue, inFlight, Running, task)
  BY DEF Inv, OneTaskPerFlight, Queued, Held, QueuedIn, OncePerNode
<1>2. SUFFICES Flight(queue', inFlight', Running', task')
  BY DEF OneTaskPerFlight, Queued, Held, QueuedIn, OncePerNode
<1>3. /\ queue \in Seq(Tasks)
      /\ inFlight \subseteq Nodes
      /\ wpc \in [Workers -> {"off", "loop", "paused", "ready", "running", "dead"}]
      /\ task \in [Workers -> Tasks \cup {NoTask}]
  BY DEF Inv, TypeOK
<1>4. ASSUME NEW n \in Nodes, NEW t \in Tasks, t.node = n, n \notin inFlight,
             queue' = Append(queue, t), inFlight' = inFlight \cup {n},
             Running' = Running, task' = task
      PROVE  Flight(queue', inFlight', Running', task')
  <2>1. /\ \A m : QueuedIn(queue', m) <=> QueuedIn(queue, m) \/ n = m
        /\ OncePerNode(queue')
    BY <1>1, <1>3, <1>4, AppendNodes
  <2> QED
    BY <1>1, <1>4, <2>1
<1>5. ASSUME NEW n \in Nodes, EnqueueNode(n)
      PROVE  Flight(queue', inFlight', Running', task')
  BY <1>4, <1>5 DEF EnqueueNode, Task, Tasks, workerVars, Running
<1>6. CASE EnqueueSample
  <2>1. /\ Task(PrioritySourceSample, NoNode) \in Tasks
        /\ Task(PrioritySourceSample, NoNode).node = NoNode
    BY DEF Task, Tasks
  <2>2. /\ \A m : QueuedIn(queue', m) <=> QueuedIn(queue, m) \/ NoNode = m
        /\ OncePerNode(queue')
    BY <1>1, <1>3, <1>6, <2>1, AppendNodes DEF EnqueueSample
  <2> QED
    BY <1>1, <1>6, <2>2, QueueAssumption DEF EnqueueSample, workerVars, Running
<1>7. ASSUME NEW c \in Calls, NEW n \in Nodes, RequestCheck(c, n)
      PROVE  Flight(queue', inFlight', Running', task')
  <2>1. CASE n \in inFlight
    <3>1. queue' = queue /\ inFlight' = inFlight /\ Running' = Running /\ task' = task
      BY <1>7, <2>1 DEF RequestCheck, workerVars, Running
    <3> QED
      BY <1>1, <3>1
  <2>2. CASE n \notin inFlight
    BY <1>4, <1>7, <2>2 DEF RequestCheck, RequestTask, Task, Tasks, workerVars, Running
  <2> QED
    BY <2>1, <2>2
<1>8. ASSUME NEW w \in Workers, Pop(w)
      PROVE  Flight(queue', inFlight', Running', task')
  <2>1. PICK i \in DOMAIN queue : /\ task' = [task EXCEPT ![w] = queue[i]]
                                  /\ queue' = Without(queue, i)
    BY <1>8 DEF Pop
  <2>2. /\ w \notin Running
        /\ Running' = Running \cup {w}
        /\ inFlight' = inFlight
    BY <1>3, <1>8 DEF Pop, MoveTo, Running
  <2>3. /\ task'[w] = queue[i]
        /\ \A v \in Running : task'[v] = task[v]
    BY <1>3, <2>1, <2>2 DEF Running
  <2>4. /\ \A n : QueuedIn(queue, n) <=> QueuedIn(queue', n) \/ queue[i].node = n
        /\ queue[i].node # NoNode => ~QueuedIn(queue', queue[i].node)
        /\ OncePerNode(queue')
        /\ queue[i].node \in Nodes \cup {NoNode}
    BY <1>1, <1>3, <2>1, WithoutNodes DEF Tasks
  <2>5. \A n : (\E v \in Running' : task'[v].node = n)
                  <=> (\E v \in Running : task[v].node = n) \/ queue[i].node = n
    BY <2>2, <2>3
  <2>6. queue[i].node # NoNode => ~\E v \in Running : task[v].node = queue[i].node
    BY <1>1, <2>4
  <2>7. \A u, v \in Running' : task'[u].node = task'[v].node /\ task'[u].node # NoNode
                                  => u = v
    BY <1>1, <2>2, <2>3, <2>6
  <2>8. inFlight' = {n \in Nodes : \/ QueuedIn(queue', n)
                                   \/ \E v \in Running' : task'[v].node = n}
    BY <1>1, <2>2, <2>4, <2>5
  <2>9. \A n \in inFlight' : ~(QueuedIn(queue', n) /\ \E v \in Running' : task'[v].node = n)
    BY <1>1, <2>2, <2>4, <2>5, QueueAssumption
  <2> QED
    BY <2>4, <2>7, <2>8, <2>9
<1>9. ASSUME NEW w \in Workers, Finish(w)
      PROVE  Flight(queue', inFlight', Running', task')
  <2>1. /\ w \in Running
        /\ Running' = Running \ {w}
        /\ queue' = queue
        /\ \A v \in Running' : task'[v] = task[v]
    BY <1>3, <1>9 DEF Finish, MoveTo, Running
  <2>2. inFlight' = inFlight \ {task[w].node}
    BY <1>3, <1>9, QueueAssumption DEF Finish
  <2> QED
    BY <1>1, <2>1, <2>2, QueueAssumption
<1>10. ASSUME queue' = queue, inFlight' = inFlight, Running' = Running, task' = task
       PROVE  Flight(queue', inFlight', Running', task')
  BY <1>1, <1>10
<1>11. CASE Start
  BY <1>3, <1>10, <1>11 DEF Start, muVars, Running, Inv, WorkersOff
<1>12. CASE ScaleWorkersAfterWarmup
  <2>1. Running' = Running
    BY <1>3, <1>12 DEF ScaleWorkersAfterWarmup, Running, Inv, WorkersOff
  <2> QED
    BY <1>10, <1>12, <2>1 DEF ScaleWorkersAfterWarmup, muVars
<1>13. ASSUME NEW w \in Workers, LoopTop(w) \/ EndPause(w) \/ PopNothing(w)
       PROVE  Flight(queue', inFlight', Running', task')
  <2>1. Running' = Running
    BY <1>3, <1>13 DEF LoopTop, LoopExit, EndPause, PopNothing, MoveTo, Running
  <2> QED
    BY <1>10, <1>13, <2>1 DEF LoopTop, EndPause, PopNothing, muVars
<1>14. CASE \E c \in Calls : ContextDone(c) \/ RemoveWaiter(c) \/ Receive(c)
  BY <1>10, <1>14 DEF ContextDone, RemoveWaiter, Receive, muVars, workerVars, Running
<1>15. CASE WalMoves \/ Shutdown \/ UNCHANGED vars
  BY <1>10, <1>15 DEF WalMoves, Shutdown, vars, muVars, workerVars, Running
<1> QED
  BY <1>5, <1>6, <1>7, <1>8, <1>9, <1>11, <1>12, <1>13, <1>14, <1>15
     DEF Next, WorkerStep

\* Every step keeps the listed channels open, empty and owned by their calls.
LEMMA ChannelStep ==
    ASSUME Inv, TypeOK', [Next]_vars
    PROVE  ChannelDiscipline'
<1> USE DEF ChannelDiscipline
<1>1. /\ waiters \in [Nodes -> SUBSET Calls]
      /\ cpc \in [Calls -> {"idle", "waiting", "leaving"}]
      /\ asks \in [Calls -> Nodes \cup {NoNode}]
      /\ box \in [Calls -> Nodes \cup {NoNode}]
      /\ ChannelDiscipline
  BY DEF Inv, TypeOK
<1>2. ASSUME NEW c \in Calls, NEW n \in Nodes, RequestCheck(c, n)
      PROVE  ChannelDiscipline'
  <2>1. \A m \in Nodes : c \notin waiters[m]
    BY <1>1, <1>2 DEF RequestCheck
  <2> QED
    BY <1>1, <1>2, <2>1 DEF RequestCheck
<1>3. ASSUME NEW c \in Calls, ContextDone(c)
      PROVE  ChannelDiscipline'
  BY <1>1, <1>3 DEF ContextDone, muVars
<1>4. ASSUME NEW c \in Calls, RemoveWaiter(c)
      PROVE  ChannelDiscipline'
  <2>1. \A m \in Nodes : waiters'[m] \subseteq waiters[m] \ {c}
    BY <1>1, <1>4 DEF RemoveWaiter, WaitersWithout
  <2> QED
    BY <1>1, <1>4, <2>1 DEF RemoveWaiter
<1>5. ASSUME NEW c \in Calls, Receive(c)
      PROVE  ChannelDiscipline'
  <2>1. \A m \in Nodes : c \notin waiters[m]
    BY <1>1, <1>5 DEF Receive
  <2> QED
    BY <1>1, <1>5, <2>1 DEF Receive, muVars
<1>6. ASSUME NEW w \in Workers, Finish(w)
      PROVE  ChannelDiscipline'
  <2>1. CASE task[w].node = NoNode
    BY <1>1, <1>6, <2>1 DEF Finish
  <2>2. CASE task[w].node # NoNode
    <3> DEFINE n == task[w].node
    <3>1. n \in Nodes
      BY <1>6, <2>2 DEF Inv, TypeOK, Running, Tasks, Finish
    <3>2. \A m \in Nodes : waiters'[m] = IF m = n THEN {} ELSE waiters[m]
      BY <1>1, <1>6, <2>2 DEF Finish, WaitersTaken
    <3>3. \A m \in Nodes : \A c \in waiters'[m] :
             c \notin waiters[n] /\ box'[c] = box[c] /\ (c \in closed' => c \in closed)
      BY <1>1, <1>6, <2>2, <3>1, <3>2 DEF Finish, AnsweredCalls
    <3> QED
      BY <1>1, <1>6, <3>2, <3>3 DEF Finish
  <2> QED
    BY <2>1, <2>2
<1>7. CASE UNCHANGED <<waiters, cpc, asks, box, closed>>
  BY <1>1, <1>7
<1>8. CASE /\ ~\E c \in Calls : ContextDone(c) \/ RemoveWaiter(c) \/ Receive(c)
           /\ ~\E c \in Calls, n \in Nodes : RequestCheck(c, n)
           /\ ~\E w \in Workers : Finish(w)
  BY <1>7, <1>8 DEF Next, EnqueueNode, EnqueueSample, Start, ScaleWorkersAfterWarmup,
                    WorkerStep, LoopTop, EndPause, PopNothing, Pop, WalMoves, Shutdown,
                    vars, muVars, callVars
<1> QED
  BY <1>2, <1>3, <1>4, <1>5, <1>6, <1>8

\* Every step keeps each open call waiting for a check in flight, or answered.
LEMMA AnswerStep ==
    ASSUME Inv, TypeOK', [Next]_vars
    PROVE  NoLostAnswer'
<1> USE DEF NoLostAnswer
<1>1. /\ inFlight \subseteq Nodes
      /\ waiters \in [Nodes -> SUBSET Calls]
      /\ cpc \in [Calls -> {"idle", "waiting", "leaving"}]
      /\ asks \in [Calls -> Nodes \cup {NoNode}]
      /\ \A c \in Calls : cpc[c] # "idle" => asks[c] \in Nodes
      /\ box \in [Calls -> Nodes \cup {NoNode}]
      /\ closed \subseteq Calls
      /\ ChannelDiscipline
      /\ NoLostAnswer
  BY DEF Inv, TypeOK
<1>2. ASSUME NEW n \in Nodes, EnqueueNode(n)
      PROVE  NoLostAnswer'
  BY <1>1, <1>2 DEF EnqueueNode, callVars
<1>3. ASSUME NEW c \in Calls, NEW n \in Nodes, RequestCheck(c, n)
      PROVE  NoLostAnswer'
  <2> SUFFICES ASSUME NEW d \in Calls, cpc'[d] # "idle"
               PROVE  \/ d \in waiters'[asks'[d]] /\ asks'[d] \in inFlight'
                      \/ box'[d] = asks'[d] /\ d \in closed'
    OBVIOUS
  <2>1. CASE d = c
    BY <1>1, <1>3, <2>1 DEF RequestCheck
  <2>2. CASE d # c
    BY <1>1, <1>3, <2>2 DEF RequestCheck
  <2> QED
    BY <2>1, <2>2
<1>4. ASSUME NEW c \in Calls, ContextDone(c)
      PROVE  NoLostAnswer'
  BY <1>1, <1>4 DEF ContextDone, muVars
<1>5. ASSUME NEW c \in Calls, RemoveWaiter(c)
      PROVE  NoLostAnswer'
  <2>1. \A d \in Calls : cpc'[d] # "idle" =>
           /\ d # c
           /\ cpc[d] # "idle"
           /\ d \in waiters[asks[d]] => d \in waiters'[asks[d]]
    BY <1>1, <1>5 DEF RemoveWaiter, WaitersWithout
  <2> QED
    BY <1>1, <1>5, <2>1 DEF RemoveWaiter
<1>6. ASSUME NEW c \in Calls, Receive(c)
      PROVE  NoLostAnswer'
  BY <1>1, <1>6 DEF Receive, muVars
<1>7. ASSUME NEW w \in Workers, Finish(w)
      PROVE  NoLostAnswer'
  <2>1. CASE task[w].node = NoNode
    BY <1>1, <1>7, <2>1 DEF Finish
  <2>2. CASE task[w].node # NoNode
    <3> DEFINE n == task[w].node
    <3> SUFFICES ASSUME NEW c \in Calls, cpc[c] # "idle"
                 PROVE  \/ c \in waiters'[asks[c]] /\ asks[c] \in inFlight'
                        \/ box'[c] = asks[c] /\ c \in closed'
      BY <1>7 DEF Finish
    <3>1. n \in Nodes
      BY <1>7, <2>2 DEF Inv, TypeOK, Running, Tasks, Finish
    <3>2. /\ inFlight' = inFlight \ {n}
          /\ \A m \in Nodes : m # n => waiters'[m] = waiters[m]
          /\ box'[c] = IF c \in waiters[n] /\ box[c] = NoNode THEN n ELSE box[c]
          /\ closed' = closed \cup waiters[n]
      BY <1>1, <1>7, <2>2 DEF Finish, WaitersTaken, AnsweredCalls
    <3>3. CASE c \in waiters[asks[c]] /\ asks[c] = n
      BY <1>1, <3>1, <3>2, <3>3 DEF ChannelDiscipline
    <3>4. CASE c \in waiters[asks[c]] /\ asks[c] \in inFlight /\ asks[c] # n
      BY <1>1, <3>2, <3>4
    <3>5. CASE box[c] = asks[c] /\ c \in closed
      BY <1>1, <3>2, <3>5, QueueAssumption
    <3> QED
      BY <1>1, <3>3, <3>4, <3>5
  <2> QED
    BY <2>1, <2>2
<1>8. CASE UNCHANGED <<inFlight, waiters, cpc, asks, box, closed>>
  BY <1>1, <1>8
<1>9. CASE /\ ~\E n \in Nodes : EnqueueNode(n)
           /\ ~\E c \in Calls : ContextDone(c) \/ RemoveWaiter(c) \/ Receive(c)
           /\ ~\E c \in Calls, n \in Nodes : RequestCheck(c, n)
           /\ ~\E w \in Workers : Finish(w)
  BY <1>8, <1>9 DEF Next, EnqueueSample, Start, ScaleWorkersAfterWarmup,
                    WorkerStep, LoopTop, EndPause, PopNothing, Pop, WalMoves, Shutdown,
                    vars, muVars, callVars
<1> QED
  BY <1>2, <1>3, <1>4, <1>5, <1>6, <1>7, <1>9

\* Inv holds in every reachable state of the validator.
THEOREM InvHolds == Spec => []Inv
<1>1. Inv /\ [Next]_vars => Inv'
  BY TypeStep, OffStep, FlightStep, ChannelStep, AnswerStep DEF Inv
<1> QED
  BY InitInv, <1>1, PTL DEF Spec

\* Every variable of the validator always has its type.
THEOREM TypeCorrect == Spec => []TypeOK
BY InvHolds, PTL DEF Inv

\* Single flight (Enqueue, RequestCheck, finish): a node in flight has exactly
\* one task, queued or held by one worker, and any other node has none.
THEOREM SingleFlightHolds == Spec => []OneTaskPerFlight
BY InvHolds, PTL DEF Inv

\* finish never sends to or closes a channel that is closed, and never finds
\* one whose call is over.
THEOREM ChannelsSafe == Spec => []ChannelDiscipline
BY InvHolds, PTL DEF Inv

\* An open RequestCheck is listed for a check in flight or holds its answer.
THEOREM AnswersKept == Spec => []NoLostAnswer
BY InvHolds, PTL DEF Inv

-----------------------------------------------------------------------------
(* The overshoots.                                                         *)

\* A worker that took a task after the context was cancelled never gets back
\* to pop: finish sends it to the top of the loop, and that to its end.
LateOnce ==
    \A w \in Workers :
        \/ late[w] = 0
        \/ late[w] = 1 /\ stopped /\ wpc[w] \in {"running", "loop", "dead"}

\* A worker that took a task above the limit meets the guard again before pop;
\* once the process stops, only late tasks come on top.
OverrunOnce ==
    \A w \in Workers :
        IF stopped THEN overrun[w] <= 1 + late[w]
        ELSE \/ overrun[w] = 0
             \/ overrun[w] = 1 /\ walHigh /\ wpc[w] \in {"running", "loop", "paused"}

\* Both are kept by every step.
LEMMA OvershootStep ==
    ASSUME TypeOK, TypeOK', LateOnce, OverrunOnce, [Next]_vars
    PROVE  LateOnce' /\ OverrunOnce'
<1> USE DEF LateOnce, OverrunOnce
<1>1. /\ wpc \in [Workers -> {"off", "loop", "paused", "ready", "running", "dead"}]
      /\ overrun \in [Workers -> Nat]
      /\ late \in [Workers -> Nat]
      /\ stopped \in BOOLEAN
      /\ walHigh \in BOOLEAN
  BY DEF TypeOK
<1>2. CASE Start \/ ScaleWorkersAfterWarmup
  <2>1. /\ UNCHANGED <<overrun, late, stopped, walHigh>>
        /\ \A w \in Workers : wpc'[w] \in {wpc[w], "loop"}
    BY <1>2 DEF Start, ScaleWorkersAfterWarmup, envVars
  <2> QED
    BY <1>1, <2>1
<1>3. ASSUME NEW w \in Workers, LoopTop(w)
      PROVE  LateOnce' /\ OverrunOnce'
  <2>1. /\ UNCHANGED <<overrun, late, stopped, walHigh>>
        /\ wpc[w] = "loop"
        /\ wpc'[w] = LoopExit(w)
        /\ \A v \in Workers : v # w => wpc'[v] = wpc[v]
    BY <1>1, <1>3 DEF LoopTop, MoveTo, envVars
  <2> QED
    BY <1>1, <2>1 DEF LoopExit
<1>4. ASSUME NEW w \in Workers, EndPause(w)
      PROVE  LateOnce' /\ OverrunOnce'
  <2>1. /\ UNCHANGED <<overrun, late, stopped, walHigh>>
        /\ wpc[w] = "paused"
        /\ wpc'[w] = "loop" \/ (stopped /\ wpc'[w] = "ready")
        /\ \A v \in Workers : v # w => wpc'[v] = wpc[v]
    BY <1>1, <1>4 DEF EndPause, MoveTo, envVars
  <2> QED
    BY <1>1, <2>1
<1>5. ASSUME NEW w \in Workers, PopNothing(w)
      PROVE  LateOnce' /\ OverrunOnce'
  <2>1. /\ UNCHANGED <<overrun, late, stopped, walHigh>>
        /\ wpc[w] = "ready"
        /\ wpc'[w] = "loop"
        /\ \A v \in Workers : v # w => wpc'[v] = wpc[v]
    BY <1>1, <1>5 DEF PopNothing, MoveTo, envVars
  <2> QED
    BY <1>1, <2>1
<1>6. ASSUME NEW w \in Workers, Pop(w)
      PROVE  LateOnce' /\ OverrunOnce'
  <2>1. /\ UNCHANGED <<stopped, walHigh>>
        /\ wpc[w] = "ready"
        /\ wpc' = [wpc EXCEPT ![w] = "running"]
        /\ overrun' = [overrun EXCEPT ![w] = IF walHigh THEN @ + 1 ELSE @]
        /\ late' = [late EXCEPT ![w] = IF stopped THEN @ + 1 ELSE @]
    BY <1>6 DEF Pop, MoveTo, envVars
  <2>2. /\ wpc'[w] = "running"
        /\ overrun'[w] = IF walHigh THEN overrun[w] + 1 ELSE overrun[w]
        /\ late'[w] = IF stopped THEN late[w] + 1 ELSE late[w]
        /\ \A v \in Workers : v # w => /\ wpc'[v] = wpc[v]
                                       /\ overrun'[v] = overrun[v]
                                       /\ late'[v] = late[v]
    BY <1>1, <2>1
  <2> QED
    BY <1>1, <2>1, <2>2
<1>7. ASSUME NEW w \in Workers, Finish(w)
      PROVE  LateOnce' /\ OverrunOnce'
  <2>1. /\ UNCHANGED <<overrun, late, stopped, walHigh>>
        /\ wpc[w] = "running"
        /\ wpc'[w] = "loop"
        /\ \A v \in Workers : v # w => wpc'[v] = wpc[v]
    BY <1>1, <1>7 DEF Finish, MoveTo, envVars
  <2> QED
    BY <1>1, <2>1
<1>8. CASE WalMoves
  BY <1>1, <1>8 DEF WalMoves
<1>9. CASE Shutdown
  BY <1>1, <1>9 DEF Shutdown, workerVars
<1>10. CASE UNCHANGED <<wpc, overrun, late, stopped, walHigh>>
  BY <1>1, <1>10
<1>11. CASE \/ \E n \in Nodes : EnqueueNode(n)
            \/ EnqueueSample
            \/ \E c \in Calls, n \in Nodes : RequestCheck(c, n)
            \/ \E c \in Calls : ContextDone(c) \/ RemoveWaiter(c) \/ Receive(c)
            \/ UNCHANGED vars
  BY <1>10, <1>11 DEF EnqueueNode, EnqueueSample, RequestCheck, ContextDone, RemoveWaiter,
                      Receive, vars, workerVars, envVars
<1> QED
  BY <1>2, <1>3, <1>4, <1>5, <1>6, <1>7, <1>8, <1>9, <1>11 DEF Next, WorkerStep

\* Both overshoots in one invariant.
LEMMA OvershootsHold == Spec => [](TypeOK /\ LateOnce /\ OverrunOnce)
<1>1. Init => LateOnce /\ OverrunOnce
  BY DEF Init, LateOnce, OverrunOnce
<1>2. TypeOK /\ TypeOK' /\ LateOnce /\ OverrunOnce /\ [Next]_vars => (LateOnce /\ OverrunOnce)'
  BY OvershootStep
<1> QED
  BY TypeCorrect, <1>1, <1>2, PTL DEF Spec

\* worker: at most one task more after the context is cancelled.
THEOREM ShutdownBounded == Spec => []ShutdownOvershoot
<1>1. TypeOK /\ LateOnce => ShutdownOvershoot
  BY DEF LateOnce, ShutdownOvershoot
<1> QED
  BY OvershootsHold, <1>1, PTL

\* pauseForWALPressure: at most one task above the WAL's hard limit, and one
\* more when the process is being stopped.
THEOREM WalBounded == Spec => []WalOvershoot
<1>1. TypeOK /\ LateOnce /\ OverrunOnce => WalOvershoot
  <2> SUFFICES ASSUME TypeOK, LateOnce, OverrunOnce, NEW w \in Workers
               PROVE  overrun[w] <= IF stopped THEN 2 ELSE 1
    BY DEF WalOvershoot
  <2>1. overrun[w] \in Nat /\ late[w] \in Nat /\ (late[w] = 0 \/ late[w] = 1)
    BY DEF TypeOK, LateOnce
  <2>2. CASE stopped
    BY <2>1, <2>2 DEF OverrunOnce
  <2>3. CASE ~stopped
    BY <2>1, <2>3 DEF OverrunOnce
  <2> QED
    BY <2>2, <2>3
<1> QED
  BY OvershootsHold, <1>1, PTL

-----------------------------------------------------------------------------
(* The safety part of the refinement.                                      *)

\* A step of the validator is a step of SingleFlight or leaves its state alone.
LEMMA RefinementStep ==
    ASSUME Inv, Inv', [Next]_vars
    PROVE  [SF!Next]_(SF!vars)
<1> USE DEF SF!Next, SF!vars
<1>1. /\ cpc \in [Calls -> {"idle", "waiting", "leaving"}]
      /\ asks \in [Calls -> Nodes \cup {NoNode}]
      /\ \A c \in Calls : cpc[c] # "idle" => asks[c] \in Nodes
      /\ box \in [Calls -> Nodes \cup {NoNode}]
      /\ waiters \in [Nodes -> SUBSET Calls]
      /\ inFlight \subseteq Nodes
  BY DEF Inv, TypeOK
<1>2. ASSUME NEW n \in Nodes, EnqueueNode(n)
      PROVE  SF!Next
  BY <1>2 DEF EnqueueNode, callVars, abstractCall, SF!Schedule
<1>3. ASSUME NEW c \in Calls, NEW n \in Nodes, RequestCheck(c, n)
      PROVE  SF!Next
  <2>1. /\ abstractCall[c] = SF!Idle
        /\ inFlight' = inFlight \cup {n}
    BY <1>3 DEF RequestCheck, abstractCall, SF!Idle
  <2>2. \A d \in Calls : abstractCall'[d] = IF d = c THEN SF!Pending(n) ELSE abstractCall[d]
    BY <1>1, <1>3 DEF RequestCheck, abstractCall, SF!Pending
  <2>3. abstractCall' = [abstractCall EXCEPT ![c] = SF!Pending(n)]
    BY <2>2 DEF abstractCall
  <2> QED
    BY <2>1, <2>3 DEF SF!Ask
<1>4. ASSUME NEW c \in Calls, ContextDone(c) \/ Receive(c)
      PROVE  SF!Next
  <2>1. /\ abstractCall[c] # SF!Idle
        /\ inFlight' = inFlight
    BY <1>4 DEF ContextDone, Receive, muVars, abstractCall, SF!Idle
  <2>2. \A d \in Calls : abstractCall'[d] = IF d = c THEN SF!Idle ELSE abstractCall[d]
    BY <1>1, <1>4 DEF ContextDone, Receive, abstractCall, SF!Idle
  <2>3. abstractCall' = [abstractCall EXCEPT ![c] = SF!Idle]
    BY <2>2 DEF abstractCall
  <2> QED
    BY <2>1, <2>3 DEF SF!Return
<1>5. ASSUME NEW c \in Calls, RemoveWaiter(c)
      PROVE  UNCHANGED <<inFlight, abstractCall>>
  BY <1>1, <1>5 DEF RemoveWaiter, abstractCall
<1>6. ASSUME NEW w \in Workers, Finish(w), task[w].node # NoNode
      PROVE  SF!Next
  <2> DEFINE n == task[w].node
  <2>1. n \in Nodes /\ n \in inFlight /\ inFlight' = inFlight \ {n}
    BY <1>6 DEF Inv, TypeOK, OneTaskPerFlight, Held, Running, Tasks, Finish
  <2>2. ASSUME NEW c \in Calls
        PROVE  abstractCall'[c] = IF abstractCall[c] = SF!Pending(n)
                                  THEN SF!Answered(n) ELSE abstractCall[c]
    <3>1. /\ cpc' = cpc /\ asks' = asks
          /\ box'[c] = IF c \in waiters[n] /\ box[c] = NoNode THEN n ELSE box[c]
      BY <1>6 DEF Finish, AnsweredCalls
    <3>2. cpc[c] = "waiting" /\ box[c] = NoNode => (c \in waiters[n] <=> asks[c] = n)
      BY <1>1, <2>1, QueueAssumption DEF Inv, NoLostAnswer, ChannelDiscipline
    <3>3. CASE cpc[c] # "waiting"
      BY <3>1, <3>3 DEF abstractCall, SF!Pending
    <3>4. CASE cpc[c] = "waiting" /\ box[c] = NoNode /\ asks[c] = n
      BY <2>1, <3>1, <3>2, <3>4, QueueAssumption DEF abstractCall, SF!Pending, SF!Answered
    <3>5. CASE cpc[c] = "waiting" /\ box[c] = NoNode /\ asks[c] # n
      BY <3>1, <3>2, <3>5 DEF abstractCall, SF!Pending
    <3>6. CASE cpc[c] = "waiting" /\ box[c] # NoNode
      BY <3>1, <3>6 DEF abstractCall, SF!Pending
    <3> QED
      BY <3>3, <3>4, <3>5, <3>6
  <2>3. abstractCall' = [c \in Calls |-> IF abstractCall[c] = SF!Pending(n)
                                         THEN SF!Answered(n) ELSE abstractCall[c]]
    BY <2>2 DEF abstractCall
  <2> QED
    BY <2>1, <2>3 DEF SF!Complete
<1>7. ASSUME NEW w \in Workers, Finish(w), task[w].node = NoNode
      PROVE  UNCHANGED <<inFlight, abstractCall>>
  BY <1>7 DEF Finish, abstractCall
<1>8. CASE /\ ~\E n \in Nodes : EnqueueNode(n)
           /\ ~\E c \in Calls : ContextDone(c) \/ RemoveWaiter(c) \/ Receive(c)
           /\ ~\E c \in Calls, n \in Nodes : RequestCheck(c, n)
           /\ ~\E w \in Workers : Finish(w)
  <2>1. UNCHANGED <<inFlight, cpc, asks, box>>
    BY <1>8 DEF Next, EnqueueSample, Start, ScaleWorkersAfterWarmup, WorkerStep, LoopTop,
                EndPause, PopNothing, Pop, WalMoves, Shutdown, vars, muVars, callVars
  <2> QED
    BY <2>1 DEF abstractCall
<1> QED
  BY <1>2, <1>3, <1>4, <1>5, <1>6, <1>7, <1>8

\* The validator implements the safety part of SingleFlight: the part of
\* ImplementsSingleFlight that does not speak of fairness.
THEOREM RefinesSingleFlight == Spec => SF!Init /\ [][SF!Next]_(SF!vars)
<1>1. Init => SF!Init
  BY DEF Init, abstractCall, SF!Init, SF!Idle
<1>2. Inv /\ Inv' /\ [Next]_vars => [SF!Next]_(SF!vars)
  BY RefinementStep
<1> QED
  BY InvHolds, <1>1, <1>2, PTL DEF Spec
=============================================================================
