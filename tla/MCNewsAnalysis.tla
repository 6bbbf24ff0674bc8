--------------------------- MODULE MCNewsAnalysis ---------------------------
(* Instances of NewsAnalysis.                                              *)
EXTENDS NewsAnalysis

CONSTANTS j1, j2

=============================================================================
