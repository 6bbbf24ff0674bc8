--------------------------- MODULE AdmissionQueue ---------------------------
(***************************************************************************)
(* What the resource gate promises to its callers, without files, rows or  *)
(* locks: calls join a line, the first of the line is granted its share as *)
(* soon as the host has room for it, a call may leave the line or end at   *)
(* any time, whether it returns or is killed.                              *)
(***************************************************************************)
EXTENDS Integers

CONSTANTS
    Callers, Dims, Profiles, profile, Cost, Capacity,
    Used(_, _)   \* Used(S, d): what the calls in S take of dimension d

VARIABLES
    ahead,   \* ahead[c]: the calls still in line that joined before c
    line,    \* the calls in line
    using    \* the calls that hold their share of the host

qvars == <<ahead, line, using>>

QInit ==
    /\ ahead = [c \in Callers |-> {}]
    /\ line = {}
    /\ using = {}

Join(c) ==
    /\ c \notin line /\ c \notin using
    /\ ahead' = [ahead EXCEPT ![c] = line]
    /\ line' = line \cup {c}
    /\ UNCHANGED using

(* Leaving the line makes room for those behind.                           *)
OutOfLine(c) ==
    /\ line' = line \ {c}
    /\ ahead' = [o \in Callers |-> IF o = c THEN {} ELSE ahead[o] \ {c}]

Quit(c) ==
    /\ c \in line
    /\ OutOfLine(c)
    /\ UNCHANGED using

Grant(c) ==
    /\ c \in line
    /\ ahead[c] = {}
    /\ \A d \in Dims : Used(using, d) + Cost[profile[c]][d] <= Capacity[d]
    /\ OutOfLine(c)
    /\ using' = using \cup {c}

End(c) ==
    /\ c \in using
    /\ using' = using \ {c}
    /\ UNCHANGED <<ahead, line>>

QNext == \E c \in Callers : Join(c) \/ Quit(c) \/ Grant(c) \/ End(c)

QSpec == QInit /\ [][QNext]_qvars

=============================================================================
