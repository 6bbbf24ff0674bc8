------------------------------ MODULE MCNewsJobs ------------------------------
(* An instance of NewsJobs: two jobs of one owner with a clip each, and a  *)
(* smart one of another.                                                   *)
EXTENDS NewsJobs

CONSTANTS j1, j2, k, ann, bob

ThreeOwner == [j \in {j1, j2, k} |-> IF j = k THEN bob ELSE ann]
ThreeParts == [j \in {j1, j2, k} |-> IF j = k THEN 0 ELSE 1]

=============================================================================
