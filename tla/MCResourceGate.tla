--------------------------- MODULE MCResourceGate ---------------------------
(* Instances of ResourceGate with the profiles and capacities of           *)
(* media-runtime/resource_gate.py:15-16.                                   *)
EXTENDS ResourceGate

CONSTANTS a1, a2, e1, e2

MCDims == {"cpu", "nvenc", "asr"}
MCProfiles == {"asr", "encode", "cpu"}

MCCost ==
    [p \in MCProfiles |->
        CASE p = "asr"    -> [cpu |-> 4, nvenc |-> 0, asr |-> 1]
          [] p = "encode" -> [cpu |-> 2, nvenc |-> 1, asr |-> 0]
          [] p = "cpu"    -> [cpu |-> 2, nvenc |-> 0, asr |-> 0]]

MCCapacity == [cpu |-> 6, nvenc |-> 2, asr |-> 1]

FourCallers == {a1, a2, e1, e2}
FourProfiles == [c \in FourCallers |-> IF c \in {a1, a2} THEN "asr" ELSE "encode"]

ASSUME EveryProfileFits

=============================================================================
