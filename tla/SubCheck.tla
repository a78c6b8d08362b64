------------------------------ MODULE SubCheck ------------------------------
(***************************************************************************)
(* The subscription check tool (cmd/subcheck, internal/subcheck): a fixed  *)
(* number of workers probe the nodes of a subscription (SingBox), which    *)
(* they get one at a time over an unbuffered channel; an interrupt ends    *)
(* the sending.                                                            *)
(***************************************************************************)
EXTENDS SingBox, Sequences, SequencesExt

CONSTANTS Subscription      \* the nodes of the subscription, in its order

NotChecked == "not checked"

ASSUME SubCheckAssumption == Subscription \in Seq(Targets) /\ NotChecked \notin Targets

VARIABLES
    spc,        \* where CheckNodes is: sending, waiting for its workers, returned
    sent,       \* nodes sent so far: the first sent of them
    jobs,       \* the index each worker has, 0 for none
    gone,       \* workers whose loop has ended
    results,    \* the node that answered for each entry, or why none did
    cancelled   \* the context is done

checkVars == <<spc, sent, jobs, gone, results, cancelled>>
subCheckVars == <<singBoxVars, checkVars>>

Entries == DOMAIN Subscription

SubCheckInit ==
    /\ SingBoxInit
    /\ spc = "sending" /\ sent = 0
    /\ jobs = [p \in Probers |-> 0]
    /\ gone = {}
    /\ results = [i \in Entries |-> NotChecked]
    /\ cancelled = FALSE

\* sendLoop meets an idle worker; a context that is done does not prevent it.
SendJob(p) ==
    /\ spc = "sending" /\ sent < Len(Subscription)
    /\ p \notin gone /\ jobs[p] = 0
    /\ sent' = sent + 1
    /\ jobs' = [jobs EXCEPT ![p] = sent + 1]
    /\ BeginProbe(p, Subscription[sent + 1])
    /\ UNCHANGED <<spc, gone, results, cancelled>>

ClosesJobsKept == "stuck"       \* mutant: an interrupt leaves the channel open
ClosesJobs == "waiting"

\* The last node was sent, or the context is done: close(jobs).
EndSending ==
    /\ spc = "sending"
    /\ sent = Len(Subscription) \/ cancelled
    /\ spc' = IF sent = Len(Subscription) THEN "waiting" ELSE ClosesJobs
    /\ UNCHANGED <<singBoxVars, sent, jobs, gone, results, cancelled>>

PlaceNext(p) ==         \* mutant: the results are appended as they come
    Cardinality({i \in Entries : results[i] # NotChecked}) + 1
PlaceOf(p) == jobs[p]

\* results[idx], and the worker takes the next.
StoreResult(p) ==
    /\ jobs[p] # 0
    /\ results' = [results EXCEPT ![PlaceOf(p)] = measured[p]]
    /\ jobs' = [jobs EXCEPT ![p] = 0]
    /\ EndProbe(p)
    /\ UNCHANGED <<spc, sent, gone, cancelled>>

LeaveWorker(p) ==
    /\ spc = "waiting" /\ p \notin gone /\ jobs[p] = 0
    /\ gone' = gone \cup {p}
    /\ UNCHANGED <<singBoxVars, spc, sent, jobs, results, cancelled>>

Return ==
    /\ spc = "waiting" /\ gone = Probers
    /\ spc' = "returned"
    /\ UNCHANGED <<singBoxVars, sent, jobs, gone, results, cancelled>>

Interrupt ==
    /\ ~cancelled
    /\ cancelled' = TRUE
    /\ UNCHANGED <<singBoxVars, spc, sent, jobs, gone, results>>

WorkerStepOf(p) == (ProbeStep(p) /\ UNCHANGED checkVars) \/ StoreResult(p) \/ LeaveWorker(p)

SubCheckNext ==
    \/ \E p \in Probers :
          \/ SendJob(p)
          \/ WorkerStepOf(p)
          \/ (Bind(p) \/ Exit(p)) /\ UNCHANGED checkVars
    \/ EndSending \/ Return \/ Interrupt

\* The goroutines run, and every wait of a probe has a deadline; no process is
\* obliged to start.
SubCheckFairness ==
    /\ WF_subCheckVars(EndSending \/ Return \/ \E p \in Probers : SendJob(p))
    /\ \A p \in Probers : WF_subCheckVars(WorkerStepOf(p))

SubCheckSpec == SubCheckInit /\ [][SubCheckNext]_subCheckVars /\ SubCheckFairness

-----------------------------------------------------------------------------
\* When the check returns, every node sent has its own result in its place, or
\* that of a node whose probe raced with its own for a port, and a node is
\* unchecked only if it was never sent, after an interrupt: the summary counts
\* no node for another.
ResultsInPlace ==
    spc = "returned" =>
        /\ \A i \in 1 .. sent :
              \/ results[i] \in {NoTarget, Subscription[i]}
              \/ {results[i], Subscription[i]} \subseteq Tunnelled
        /\ \A i \in Entries : results[i] = NotChecked <=> i > sent
        /\ sent = Len(Subscription) \/ cancelled

\* A check that has begun returns, whatever the nodes and their processes do.
CheckReturns == sent > 0 ~> spc = "returned"
=============================================================================
