------------------------- MODULE MCRecordingControl -------------------------
(* Instances of RecordingControl: one program, or two of which only the    *)
(* first is scheduled.                                                     *)
EXTENDS RecordingControl

CONSTANTS p1, p2, s1

OneProgram == [s \in {s1} |-> p1]

=============================================================================
