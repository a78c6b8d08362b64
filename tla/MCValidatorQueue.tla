-------------------------- MODULE MCValidatorQueue --------------------------
(* Model values and symmetry for the runs of ValidatorQueue.               *)
EXTENDS ValidatorQueue, TLC

CONSTANTS n1, n2, c1, c2, w1, w2

MCNodes == {n1, n2}
MCCalls == {c1, c2}
MCWorkers == {w1, w2}
MCWarmWorkers == {w1}

\* Nodes and calls are interchangeable; a worker is warm or not.
Symmetry == Permutations(MCNodes) \cup Permutations(MCCalls)
=============================================================================
