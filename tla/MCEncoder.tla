------------------------------ MODULE MCEncoder ------------------------------
(* Instances of Encoder: exports of one clip, but the first has two.       *)
EXTENDS Encoder

CONSTANTS k1, k2, w1, w2

TwoParts == [k \in Keys |-> IF k = k1 THEN 2 ELSE 1]

=============================================================================
