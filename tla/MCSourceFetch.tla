--------------------------- MODULE MCSourceFetch ---------------------------
(* Model values for the runs of SourceFetch.                               *)
EXTENDS SourceFetch

CONSTANT s1

OneSource == {s1}
=============================================================================
