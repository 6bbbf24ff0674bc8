---------------------------- MODULE MCForwarding ----------------------------
(* Instances of Forwarding.                                                *)
EXTENDS Forwarding

CONSTANTS p1, p2, d1, d2, s1, s2, u1, q1, k1, k2, h1, h2

OneProgram == [p \in Programs |-> IF p = p1 THEN s1 ELSE None]
FourRows ==
    {[url |-> q1, key |-> k1, on |-> TRUE], [url |-> q1, key |-> k2, on |-> TRUE],
     [url |-> u1, key |-> k1, on |-> TRUE], [url |-> u1, key |-> k1, on |-> FALSE]}

OneRelay ==
    [d \in Destinations |->
        IF d = d1 THEN [url |-> q1, key |-> k1, on |-> TRUE] ELSE None]

=============================================================================
