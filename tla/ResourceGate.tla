---------------------------- MODULE ResourceGate ----------------------------
(***************************************************************************)
(* media-runtime/resource_gate.py: host-local admission shared by the ASR, *)
(* news and material workers.  Every call of Gate.acquire owns a row of an *)
(* SQLite table and a lock file.  The row says what the call is promised,  *)
(* the kernel lock says whether anything still uses it: the lock belongs   *)
(* to the open file description, which an FFmpeg child inherits, so it     *)
(* outlives a crashed parent for as long as that child runs.               *)
(*                                                                         *)
(* A Caller is one acquire call at a time.  A call that ended is followed  *)
(* by another with a fresh key once its row is gone, so what is modelled   *)
(* is an unbounded sequence of calls, at most |Callers| of them at once.   *)
(***************************************************************************)
EXTENDS Integers, FiniteSets

CONSTANTS
    Callers,      \* concurrent acquire calls
    Dims,         \* budget dimensions: CPU threads, NVENC tasks, ASR tasks
    Profiles,     \* the keys of PROFILES
    profile,      \* profile[c]: the profile caller c asks for
    Cost,         \* PROFILES: Cost[profile][dimension]
    Capacity,     \* CAPACITY: Capacity[dimension]
    QueueLimit    \* rows the table may hold (32 in the code)

ASSUME GateAssumption ==
    /\ IsFiniteSet(Callers)
    /\ profile \in [Callers -> Profiles]
    /\ Cost \in [Profiles -> [Dims -> Nat]]
    /\ Capacity \in [Dims -> Nat]
    /\ QueueLimit \in Nat \ {0}

(* Every profile fits an idle host: only liveness needs it.                *)
EveryProfileFits == \A p \in Profiles, d \in Dims : Cost[p][d] <= Capacity[d]

VARIABLES
    row,       \* row[c]: state column of the caller's row, "none" without one
    before,    \* before[c]: callers whose row has a smaller seq than c's row
    file,      \* file[c]: the lock file is linked in the directory
    holders,   \* holders[c]: processes with the locked descriptor open
    pc         \* pc[c]: where the call is

vars == <<row, before, file, holders, pc>>

RowStates == {"none", "waiting", "running"}

(* "polling" .. "closing" are points inside acquire; "dead" is a process    *)
(* that was killed there.                                                  *)
Inside == {"polling", "admitted", "working", "leaving", "closing"}
Points == Inside \cup {"idle", "dead"}

TypeOK ==
    /\ row \in [Callers -> RowStates]
    /\ before \in [Callers -> SUBSET Callers]
    /\ file \in [Callers -> BOOLEAN]
    /\ holders \in [Callers -> SUBSET {"proc", "child"}]
    /\ pc \in [Callers -> Points]

Init ==
    /\ row = [c \in Callers |-> "none"]
    /\ before = [c \in Callers |-> {}]
    /\ file = [c \in Callers |-> FALSE]
    /\ holders = [c \in Callers |-> {}]
    /\ pc = [c \in Callers |-> "idle"]

-----------------------------------------------------------------------------
(* Budget arithmetic.                                                      *)

(* The units of dimension d that the callers in S were granted, one pair   *)
(* for each unit, so that its cardinality is the sum in acquire.           *)
Units(S, d) == UNION {{c} \X (1..Cost[profile[c]][d]) : c \in S}

Used(S, d) == Cardinality(Units(S, d))

Running(r) == {c \in Callers : r[c] = "running"}

Fits(r, c) ==
    \A d \in Dims : Used(Running(r), d) + Cost[profile[c]][d] <= Capacity[d]

-----------------------------------------------------------------------------
(* Gate.reap, run at the head of every transaction.                        *)

(* Variant: recycle a row as soon as its process is gone.                  *)
ReapableOnceParentIsGone(c) == row[c] # "none" /\ "proc" \notin holders[c]

(* Variant: trust the unlink of a clean exit, never look at the lock.      *)
ReapableOnlyWithoutFile(c) == row[c] # "none" /\ ~file[c]

Reapable(c) ==
    /\ row[c] # "none"
    /\ holders[c] = {} \/ ~file[c]

RowsAfterReap == [c \in Callers |-> IF Reapable(c) THEN "none" ELSE row[c]]

FilesAfterReap == [c \in Callers |-> file[c] /\ ~Reapable(c)]

(* Deleting rows takes them out of everybody's past.                       *)
BeforeAfterReap ==
    [c \in Callers |-> IF Reapable(c) THEN {}
                       ELSE {b \in before[c] : ~Reapable(b)}]

-----------------------------------------------------------------------------
(* Gate.acquire.                                                           *)

(* Create the key's file and lock it (no row names the key yet, so nobody  *)
(* can look at the file before it is locked); then the first transaction:  *)
(* reap, refuse a full table, append a row.                                *)
EnqueueWithoutLock(c) ==   \* variant: append the row, lock the file later
    /\ pc[c] = "idle"
    /\ row[c] = "none"
    /\ file' = [FilesAfterReap EXCEPT ![c] = TRUE]
    /\ LET present == {b \in Callers : RowsAfterReap[b] # "none"}
       IN  /\ row' = [RowsAfterReap EXCEPT ![c] = "waiting"]
           /\ before' = [BeforeAfterReap EXCEPT ![c] = present]
    /\ pc' = [pc EXCEPT ![c] = "polling"]
    /\ UNCHANGED holders

Enqueue(c) ==
    /\ pc[c] = "idle"
    /\ row[c] = "none"
    /\ file' = [FilesAfterReap EXCEPT ![c] = TRUE]
    /\ holders' = [holders EXCEPT ![c] = {"proc"}]
    /\ LET present == {b \in Callers : RowsAfterReap[b] # "none"}
       IN  \/ /\ Cardinality(present) >= QueueLimit
              \* the raise rolls the deletions back, not the unlinks
              /\ pc' = [pc EXCEPT ![c] = "leaving"]
              /\ UNCHANGED <<row, before>>
           \/ /\ Cardinality(present) < QueueLimit
              /\ row' = [RowsAfterReap EXCEPT ![c] = "waiting"]
              /\ before' = [BeforeAfterReap EXCEPT ![c] = present]
              /\ pc' = [pc EXCEPT ![c] = "polling"]

(* One turn of the loop: reap, then admit the head of the queue if the     *)
(* budget allows it; otherwise sleep and come back.                        *)
AnybodyWhoFits(r, b, c) == TRUE   \* variant: first fit instead of first come

AtHead(r, b, c) == \A o \in b[c] : r[o] # "waiting"

Poll(c) ==
    /\ pc[c] = "polling"
    /\ file' = FilesAfterReap
    /\ before' = BeforeAfterReap
    /\ IF AtHead(RowsAfterReap, BeforeAfterReap, c) /\ Fits(RowsAfterReap, c)
       THEN /\ row' = [RowsAfterReap EXCEPT ![c] = "running"]
            /\ pc' = [pc EXCEPT ![c] = "admitted"]
       ELSE /\ row' = RowsAfterReap
            /\ UNCHANGED pc
    /\ UNCHANGED holders

(* Cancelled, past the deadline, or the waiting callback raised.           *)
GiveUp(c) ==
    /\ pc[c] = "polling"
    /\ pc' = [pc EXCEPT ![c] = "leaving"]
    /\ UNCHANGED <<row, before, file, holders>>

(* The body of the with statement: ASR works in the process, an encoder    *)
(* starts FFmpeg with the descriptor and waits for it or kills it before   *)
(* leaving (encode_part).                                                  *)
Spawn(c) ==
    /\ pc[c] = "admitted"
    /\ holders' = [holders EXCEPT ![c] = @ \cup {"child"}]
    /\ pc' = [pc EXCEPT ![c] = "working"]
    /\ UNCHANGED <<row, before, file>>

ChildExit(c) ==
    /\ "child" \in holders[c]
    /\ holders' = [holders EXCEPT ![c] = @ \ {"child"}]
    /\ UNCHANGED <<row, before, file, pc>>

Finish(c) ==
    /\ pc[c] \in {"admitted", "working"}
    /\ "child" \notin holders[c]
    /\ pc' = [pc EXCEPT ![c] = "leaving"]
    /\ UNCHANGED <<row, before, file, holders>>

(* finally: delete the row in a transaction, which may fail ...            *)
MarkRowDeleted(c) ==   \* variant: keep the row with a state of its own
    /\ pc[c] = "leaving"
    /\ row' = [row EXCEPT ![c] = "done"]
    /\ pc' = [pc EXCEPT ![c] = "closing"]
    /\ UNCHANGED <<before, file, holders>>

DeleteRow(c) ==
    /\ pc[c] = "leaving"
    /\ \/ /\ row' = [row EXCEPT ![c] = "none"]
          /\ before' = [o \in Callers |-> IF o = c THEN {} ELSE before[o] \ {c}]
       \/ UNCHANGED <<row, before>>
    /\ pc' = [pc EXCEPT ![c] = "closing"]
    /\ UNCHANGED <<file, holders>>

(* ... and only then drop the lock and unlink the file, in any case.       *)
CloseFile(c) ==
    /\ pc[c] = "closing"
    /\ holders' = [holders EXCEPT ![c] = @ \ {"proc"}]
    /\ file' = [file EXCEPT ![c] = FALSE]
    /\ pc' = [pc EXCEPT ![c] = "idle"]
    /\ UNCHANGED <<row, before>>

(* Gate.snapshot reaps as well.                                            *)
Snapshot ==
    /\ \E c \in Callers : Reapable(c)
    /\ row' = RowsAfterReap
    /\ before' = BeforeAfterReap
    /\ file' = FilesAfterReap
    /\ UNCHANGED <<holders, pc>>

-----------------------------------------------------------------------------
(* The process of a call is killed: the kernel closes its descriptors, an  *)
(* FFmpeg child keeps its own.  A later call has a fresh key.              *)
Crash(c) ==
    /\ pc[c] \in Inside
    /\ holders' = [holders EXCEPT ![c] = @ \ {"proc"}]
    /\ pc' = [pc EXCEPT ![c] = "dead"]
    /\ UNCHANGED <<row, before, file>>

Renew(c) ==
    /\ pc[c] = "dead"
    /\ row[c] = "none" /\ holders[c] = {}
    /\ file' = [file EXCEPT ![c] = FALSE]
    /\ pc' = [pc EXCEPT ![c] = "idle"]
    /\ UNCHANGED <<row, before, holders>>

Step(c) ==
    \/ Enqueue(c) \/ Poll(c) \/ GiveUp(c)
    \/ Spawn(c) \/ ChildExit(c) \/ Finish(c)
    \/ DeleteRow(c) \/ CloseFile(c) \/ Crash(c) \/ Renew(c)

Next == Snapshot \/ \E c \in Callers : Step(c)

(* A live process keeps executing and FFmpeg ends or is killed (3600 s).   *)
(* Nobody has to open a call, give up, crash or take a snapshot.           *)
Fairness ==
    \A c \in Callers :
        /\ WF_vars(Poll(c)) /\ WF_vars(Finish(c)) /\ WF_vars(ChildExit(c))
        /\ WF_vars(DeleteRow(c)) /\ WF_vars(CloseFile(c))

Spec == Init /\ [][Next]_vars

FairSpec == Spec /\ Fairness

-----------------------------------------------------------------------------
(* Properties.                                                             *)

(* A call consumes its share while its own code or its child runs.         *)
Consuming(c) ==
    \/ pc[c] \in {"admitted", "working"}
    \/ "child" \in holders[c]

Consumers == {c \in Callers : Consuming(c)}

(* The host is never oversubscribed: what live processes consume, orphaned *)
(* FFmpeg children of crashed parents included, stays within CAPACITY      *)
(* ("Never recycle a live/possibly orphaned process").                     *)
HostWithinCapacity == \A d \in Dims : Used(Consumers, d) <= Capacity[d]

(* A live waiter never loses its row: queued.index(key) cannot raise, and  *)
(* its turn cannot be given away.                                          *)
WaiterKeepsItsPlace == \A c \in Callers : pc[c] = "polling" => row[c] = "waiting"

(* The gate implements AdmissionQueue: the line is the set of live waiters *)
(* in the order of their rows, the users are the consumers.                *)
Waiters == {c \in Callers : pc[c] = "polling"}

Ahead ==
    [c \in Callers |-> IF c \in Waiters THEN before[c] \cap Waiters ELSE {}]

Promise == INSTANCE AdmissionQueue
               WITH ahead <- Ahead, line <- Waiters, using <- Consumers

ImplementsAdmissionQueue == Promise!QSpec

(* A waiter that neither gives up nor dies is admitted, although other     *)
(* callers crash with and without orphaned children and fail to delete     *)
(* their rows.                                                             *)
NobodyStarves == \A c \in Callers : (pc[c] = "polling") ~> (pc[c] # "polling")

-----------------------------------------------------------------------------
(* The strengthening under which the safety properties are inductive.      *)

(* What the program point of a call says about its row, file and lock.     *)
CallInv(c) ==
    /\ pc[c] \in Inside => "proc" \in holders[c] /\ file[c]
    /\ "proc" \in holders[c] => pc[c] \in Inside
    /\ pc[c] = "polling" => row[c] = "waiting"
    /\ pc[c] \in {"admitted", "working"} => row[c] = "running"
    /\ "child" \in holders[c] =>
          row[c] = "running" /\ file[c] /\ pc[c] \in {"working", "dead"}

(* Only rows of the table are in anybody's past.                           *)
PastInv == \A c \in Callers : \A b \in before[c] : row[b] # "none"

(* The rows the table calls running fit the host.                          *)
TableWithinCapacity == \A d \in Dims : Used(Running(row), d) <= Capacity[d]

IInv ==
    /\ TypeOK
    /\ \A c \in Callers : CallInv(c)
    /\ PastInv
    /\ TableWithinCapacity

=============================================================================
