---------------------------- MODULE MCNodeCheck ----------------------------
(* Model values and symmetry for the runs of NodeCheck.                    *)
EXTENDS NodeCheck, TLC

CONSTANTS f1, f2, w1, w2

OneFingerprint == {f1}
TwoWorkers == {w1, w2}

\* Workers are interchangeable.
Symmetry == Permutations(TwoWorkers)
=============================================================================
