---------------------------- MODULE MCNewsExport ----------------------------
(* Instances of NewsExport: the first export has two clips.                *)
EXTENDS NewsExport

CONSTANTS k1, k2, w1, w2

TwoParts == [k \in Keys |-> IF k = k1 THEN 2 ELSE 1]

=============================================================================
