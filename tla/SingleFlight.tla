---------------------------- MODULE SingleFlight ----------------------------
(***************************************************************************)
(* What the validator promises to the callers of RequestCheck, with its    *)
(* queue, its workers, its channels and its locks left out: a set of node  *)
(* checks is owed, any number of calls may wait for one check, and the     *)
(* end of a check answers every call that waits for it, at once.           *)
(* ValidatorQueue.tla implements this module.                              *)
(***************************************************************************)
CONSTANTS
    Nodes,      \* node ids (never 0)
    Calls       \* callers of RequestCheck, each with at most one open call

VARIABLES
    owed,       \* nodes that have a check queued or running
    call        \* call[c]: what the caller c is doing

vars == <<owed, call>>

Idle == [phase |-> "idle"]
Pending(n) == [phase |-> "pending", node |-> n]
Answered(n) == [phase |-> "answered", node |-> n]

Init ==
    /\ owed = {}
    /\ call = [c \in Calls |-> Idle]

\* A background producer wants n checked; one check per node is owed at most.
Schedule(n) ==
    /\ n \notin owed
    /\ owed' = owed \cup {n}
    /\ UNCHANGED call

\* A call for n joins the check that is owed, or makes one owed.
Ask(c, n) ==
    /\ call[c] = Idle
    /\ call' = [call EXCEPT ![c] = Pending(n)]
    /\ owed' = owed \cup {n}

\* The check of n ends: every call waiting for n has its answer.
Complete(n) ==
    /\ n \in owed
    /\ owed' = owed \ {n}
    /\ call' = [c \in Calls |-> IF call[c] = Pending(n) THEN Answered(n) ELSE call[c]]

\* The caller reads its answer, or its context ends first.
Return(c) ==
    /\ call[c] # Idle
    /\ call' = [call EXCEPT ![c] = Idle]
    /\ UNCHANGED owed

Next ==
    \/ \E n \in Nodes : Schedule(n) \/ Complete(n)
    \/ \E c \in Calls : Return(c) \/ \E n \in Nodes : Ask(c, n)

Spec == Init /\ [][Next]_vars /\ \A c \in Calls : WF_vars(Return(c))
=============================================================================
