------------------------- MODULE ResourceGateProofs -------------------------
(***************************************************************************)
(* Safety of the resource gate for any set of callers, any profiles and    *)
(* any capacities.                                                         *)
(***************************************************************************)
EXTENDS ResourceGate, FiniteSetTheorems, TLAPS

-----------------------------------------------------------------------------
(* Budget arithmetic: Used is a sum over the callers of a set.             *)

LEMMA BlockSize ==
    ASSUME NEW c, NEW k \in Nat
    PROVE  IsFiniteSet({c} \X (1..k)) /\ Cardinality({c} \X (1..k)) = k
<1>1. IsFiniteSet({c}) /\ Cardinality({c}) = 1
  BY FS_Singleton
<1>2. /\ IsFiniteSet(1..k)
      /\ Cardinality(1..k) = IF 1 > k THEN 0 ELSE k - 1 + 1
  <2>1. 1 \in Int /\ k \in Int
    OBVIOUS
  <2> QED
    BY <2>1, FS_Interval, Zenon
<1>3. Cardinality(1..k) = k
  BY <1>2
<1>4. /\ IsFiniteSet({c} \X (1..k))
      /\ Cardinality({c} \X (1..k)) = Cardinality({c}) * Cardinality(1..k)
  BY <1>1, <1>2, FS_Product, Zenon
<1> QED
  BY <1>1, <1>3, <1>4

LEMMA UnitsFinite ==
    ASSUME NEW S \in SUBSET Callers, NEW d \in Dims
    PROVE  /\ IsFiniteSet(Units(S, d))
           /\ Used(S, d) \in Nat
<1> DEFINE Block == [c \in S |-> {c} \X (1..Cost[profile[c]][d])]
           Blocks == {{c} \X (1..Cost[profile[c]][d]) : c \in S}
<1>1. IsFiniteSet(S)
  BY FS_Subset, GateAssumption
<1>2. Block \in Surjection(S, Blocks)
  BY DEF Surjection
<1>3. IsFiniteSet(Blocks)
  BY <1>1, <1>2, FS_Surjection
<1>4. ASSUME NEW B \in Blocks PROVE IsFiniteSet(B)
  <2>1. PICK c \in S : B = {c} \X (1..Cost[profile[c]][d])
    OBVIOUS
  <2>2. Cost[profile[c]][d] \in Nat
    BY GateAssumption
  <2> QED
    BY <2>1, <2>2, BlockSize
<1>5. IsFiniteSet(UNION Blocks)
  BY <1>3, <1>4, FS_UNION
<1> QED
  BY <1>5, FS_CardinalityType DEF Units, Used

LEMMA UsedIsMonotone ==
    ASSUME NEW T \in SUBSET Callers, NEW S \in SUBSET T, NEW d \in Dims
    PROVE  Used(S, d) <= Used(T, d)
<1>1. Units(S, d) \subseteq Units(T, d)
  BY DEF Units
<1> QED
  BY <1>1, UnitsFinite, FS_Subset DEF Used

LEMMA UsedGrowsByTheCost ==
    ASSUME NEW S \in SUBSET Callers, NEW c \in Callers, c \notin S, NEW d \in Dims
    PROVE  Used(S \cup {c}, d) = Used(S, d) + Cost[profile[c]][d]
<1> DEFINE k == Cost[profile[c]][d]
           Block == {c} \X (1..k)
<1>1. k \in Nat
  BY GateAssumption
<1>2. Units(S \cup {c}, d) = Units(S, d) \cup Block
  BY DEF Units
<1>3. Units(S, d) \cap Block = {}
  BY DEF Units
<1>4. IsFiniteSet(Block) /\ Cardinality(Block) = k
  BY <1>1, BlockSize
<1>5. Cardinality(Units(S, d) \cap Block) = 0
  BY <1>3, FS_EmptySet, Zenon
<1>6. Cardinality(Units(S, d) \cup Block)
        = Cardinality(Units(S, d)) + Cardinality(Block) - Cardinality(Units(S, d) \cap Block)
  BY <1>4, UnitsFinite, FS_Union
<1>7. Cardinality(Units(S, d)) \in Nat
  BY UnitsFinite, FS_CardinalityType
<1>8. Cardinality(Units(S, d) \cup Block) = Cardinality(Units(S, d)) + k
  <2> HIDE DEF k, Block
  <2> QED
    BY <1>1, <1>4, <1>5, <1>6, <1>7
<1> QED
  BY <1>2, <1>8 DEF Used

-----------------------------------------------------------------------------
(* The types.                                                              *)

LEMMA TypeStep == TypeOK /\ [Next]_vars => TypeOK'
<1> SUFFICES ASSUME TypeOK, [Next]_vars
             PROVE  TypeOK'
  OBVIOUS
<1> USE DEF TypeOK, RowStates, Points, Inside
<1>1. /\ RowsAfterReap \in [Callers -> RowStates]
      /\ FilesAfterReap \in [Callers -> BOOLEAN]
      /\ BeforeAfterReap \in [Callers -> SUBSET Callers]
  BY DEF RowsAfterReap, FilesAfterReap, BeforeAfterReap, Reapable
<1>2. CASE Snapshot
  BY <1>1, <1>2 DEF Snapshot
<1>3. ASSUME NEW c \in Callers, Enqueue(c) PROVE TypeOK'
  BY <1>1, <1>3 DEF Enqueue
<1>4. ASSUME NEW c \in Callers, Poll(c) PROVE TypeOK'
  BY <1>1, <1>4 DEF Poll
<1>5. ASSUME NEW c \in Callers, GiveUp(c) \/ Finish(c) PROVE TypeOK'
  BY <1>5 DEF GiveUp, Finish
<1>6. ASSUME NEW c \in Callers, Spawn(c) PROVE TypeOK'
  BY <1>6 DEF Spawn
<1>7. ASSUME NEW c \in Callers, ChildExit(c) PROVE TypeOK'
  BY <1>7 DEF ChildExit
<1>8. ASSUME NEW c \in Callers, DeleteRow(c) PROVE TypeOK'
  BY <1>8 DEF DeleteRow
<1>9. ASSUME NEW c \in Callers, CloseFile(c) PROVE TypeOK'
  BY <1>9 DEF CloseFile
<1>10. ASSUME NEW c \in Callers, Crash(c) PROVE TypeOK'
  BY <1>10 DEF Crash
<1>11. ASSUME NEW c \in Callers, Renew(c) PROVE TypeOK'
  BY <1>11 DEF Renew
<1>12. CASE UNCHANGED vars
  BY <1>12 DEF vars
<1> QED
  BY <1>2, <1>3, <1>4, <1>5, <1>6, <1>7, <1>8, <1>9, <1>10, <1>11, <1>12
     DEF Next, Step

(* Every step of every call keeps rows, files, locks and program points    *)
(* in their types.                                                         *)
THEOREM TypeCorrect == Spec => []TypeOK
<1>1. Init => TypeOK
  BY DEF Init, TypeOK, RowStates, Points, Inside
<1> QED
  BY <1>1, TypeStep, PTL DEF Spec

-----------------------------------------------------------------------------
(* The inductive invariant.                                                *)

(* Reaping never touches a row that something alive still holds.           *)
LEMMA ReapSparesTheLiving ==
    ASSUME TypeOK, NEW c \in Callers, CallInv(c),
           pc[c] \in Inside \/ "child" \in holders[c]
    PROVE  /\ ~Reapable(c)
           /\ RowsAfterReap[c] = row[c]
           /\ FilesAfterReap[c] = file[c]
  BY DEF TypeOK, CallInv, Reapable, RowsAfterReap, FilesAfterReap

(* Reaping preserves what a call knows, and only shrinks the table.        *)
LEMMA ReapKeepsCalls ==
    ASSUME TypeOK, NEW c \in Callers, CallInv(c),
           row'[c] = RowsAfterReap[c], file'[c] = FilesAfterReap[c],
           pc'[c] = pc[c], holders'[c] = holders[c]
    PROVE  CallInv(c)'
<1>1. CASE pc[c] \in Inside \/ "child" \in holders[c]
  BY <1>1, ReapSparesTheLiving DEF CallInv
<1>2. CASE ~(pc[c] \in Inside \/ "child" \in holders[c])
  BY <1>2 DEF CallInv, Inside
<1> QED
  BY <1>1, <1>2

LEMMA ReapKeepsPast ==
    ASSUME TypeOK, PastInv
    PROVE  \A o \in Callers : \A b \in BeforeAfterReap[o] : RowsAfterReap[b] # "none"
  BY DEF TypeOK, PastInv, BeforeAfterReap, RowsAfterReap

LEMMA ReapFreesCapacity ==
    ASSUME TypeOK, TableWithinCapacity, NEW r \in [Callers -> RowStates],
           Running(r) \subseteq Running(row)
    PROVE  \A d \in Dims : Used(Running(r), d) <= Capacity[d]
<1> SUFFICES ASSUME NEW d \in Dims
             PROVE  Used(Running(r), d) <= Capacity[d]
  OBVIOUS
<1>1. Running(r) \in SUBSET Running(row) /\ Running(row) \in SUBSET Callers
  BY DEF Running
<1>2. Used(Running(r), d) <= Used(Running(row), d)
  BY <1>1, UsedIsMonotone
<1>3. /\ Used(Running(r), d) \in Nat /\ Used(Running(row), d) \in Nat
      /\ Capacity[d] \in Nat
  <2>1. Running(r) \in SUBSET Callers
    BY <1>1
  <2> QED
    BY <1>1, <2>1, UnitsFinite, GateAssumption
<1>4. Used(Running(row), d) <= Capacity[d]
  BY DEF TableWithinCapacity
<1> QED
  BY <1>2, <1>3, <1>4

LEMMA AdmissionFits ==
    ASSUME TypeOK, NEW c \in Callers, NEW r \in [Callers -> RowStates],
           r[c] # "running", Fits(r, c), row' = [r EXCEPT ![c] = "running"]
    PROVE  TableWithinCapacity'
<1>1. Running(row') = Running(r) \cup {c}
  BY DEF Running
<1>2. Running(r) \in SUBSET Callers /\ c \notin Running(r)
  BY DEF Running
<1>3. ASSUME NEW d \in Dims
      PROVE  Used(Running(row'), d) <= Capacity[d]
  <2>1. Used(Running(r) \cup {c}, d) = Used(Running(r), d) + Cost[profile[c]][d]
    BY <1>2, UsedGrowsByTheCost
  <2> QED
    BY <1>1, <2>1 DEF Fits
<1> QED
  BY <1>3 DEF TableWithinCapacity

LEMMA InvInit == Init => IInv
<1> SUFFICES ASSUME Init PROVE IInv
  OBVIOUS
<1>1. TypeOK
  BY DEF Init, TypeOK, RowStates, Points, Inside
<1>2. ASSUME NEW c \in Callers PROVE CallInv(c)
  BY DEF Init, CallInv, Inside
<1>3. PastInv
  BY DEF Init, PastInv
<1>4. TableWithinCapacity
  <2>1. Running(row) = {}
    BY DEF Init, Running
  <2>2. ASSUME NEW d \in Dims PROVE Used({}, d) = 0
    <3>1. Units({}, d) = {}
      BY DEF Units
    <3> QED
      BY <3>1, FS_EmptySet DEF Used
  <2> QED
    BY <2>1, <2>2, GateAssumption DEF TableWithinCapacity
<1> QED
  BY <1>1, <1>2, <1>3, <1>4 DEF IInv

LEMMA InvStep == IInv /\ [Next]_vars => IInv'
<1> SUFFICES ASSUME IInv, [Next]_vars
             PROVE  IInv'
  OBVIOUS
<1>0. /\ TypeOK /\ PastInv /\ TableWithinCapacity
      /\ \A c \in Callers : CallInv(c)
  BY DEF IInv
<1>1. TypeOK'
  BY <1>0, TypeStep
<1>r. /\ RowsAfterReap \in [Callers -> RowStates]
      /\ FilesAfterReap \in [Callers -> BOOLEAN]
      /\ BeforeAfterReap \in [Callers -> SUBSET Callers]
      /\ Running(RowsAfterReap) \subseteq Running(row)
  BY <1>0 DEF TypeOK, RowsAfterReap, FilesAfterReap, BeforeAfterReap, Running, RowStates
<1>2. CASE Snapshot
  <2>1. ASSUME NEW o \in Callers PROVE CallInv(o)'
    BY <1>0, <1>2, ReapKeepsCalls DEF Snapshot
  <2>2. PastInv'
    BY <1>0, <1>2, ReapKeepsPast DEF Snapshot, PastInv
  <2>3. TableWithinCapacity'
    BY <1>0, <1>2, <1>r, ReapFreesCapacity DEF Snapshot, TableWithinCapacity
  <2> QED
    BY <1>1, <2>1, <2>2, <2>3 DEF IInv
<1>3. ASSUME NEW c \in Callers, Enqueue(c) PROVE IInv'
  <2>1. ASSUME NEW o \in Callers PROVE CallInv(o)'
    <3>1. CASE o = c
      BY <1>0, <1>3, <1>r, <3>1 DEF Enqueue, CallInv, Inside, TypeOK
    <3>2. CASE o # c /\ row'[o] = RowsAfterReap[o]
      BY <1>0, <1>3, <1>r, <3>2, ReapKeepsCalls DEF Enqueue, TypeOK
    <3>3. CASE o # c /\ row' = row
      <4>1. CASE pc[o] \in Inside \/ "child" \in holders[o]
        BY <1>0, <1>3, <1>r, <3>3, <4>1, ReapSparesTheLiving DEF Enqueue, CallInv, TypeOK
      <4>2. CASE ~(pc[o] \in Inside \/ "child" \in holders[o])
        BY <1>0, <1>3, <1>r, <3>3, <4>2 DEF Enqueue, CallInv, Inside, TypeOK
      <4> QED
        BY <4>1, <4>2
    <3> QED
      BY <1>3, <1>r, <3>1, <3>2, <3>3 DEF Enqueue
  <2>2. PastInv'
    BY <1>0, <1>3, <1>r, ReapKeepsPast DEF Enqueue, PastInv, TypeOK, RowStates
  <2>3. TableWithinCapacity'
    <3>1. Running(row') \subseteq Running(row) /\ row' \in [Callers -> RowStates]
      BY <1>0, <1>1, <1>3, <1>r DEF Enqueue, Running, TypeOK
    <3> QED
      BY <1>0, <3>1, ReapFreesCapacity DEF TableWithinCapacity
  <2> QED
    BY <1>1, <2>1, <2>2, <2>3 DEF IInv
<1>4. ASSUME NEW c \in Callers, Poll(c) PROVE IInv'
  <2>1. RowsAfterReap[c] = "waiting" /\ FilesAfterReap[c] = file[c]
    BY <1>0, <1>4, ReapSparesTheLiving DEF Poll, CallInv, Inside
  <2>2. ASSUME NEW o \in Callers PROVE CallInv(o)'
    <3>1. CASE o = c /\ pc' # pc
      BY <1>0, <1>4, <1>r, <2>1, <3>1 DEF Poll, CallInv, Inside, TypeOK
    <3>2. CASE o # c \/ pc' = pc
      BY <1>0, <1>4, <1>r, <3>2, ReapKeepsCalls DEF Poll, TypeOK
    <3> QED
      BY <3>1, <3>2
  <2>3. PastInv'
    BY <1>0, <1>4, <1>r, ReapKeepsPast DEF Poll, PastInv, TypeOK, RowStates
  <2>4. TableWithinCapacity'
    <3>1. CASE row' = RowsAfterReap
      BY <1>0, <1>r, <3>1, ReapFreesCapacity DEF TableWithinCapacity
    <3>2. CASE row' # RowsAfterReap
      BY <1>0, <1>4, <1>r, <2>1, <3>2, AdmissionFits DEF Poll
    <3> QED
      BY <3>1, <3>2
  <2> QED
    BY <1>1, <2>2, <2>3, <2>4 DEF IInv
<1>5. ASSUME NEW c \in Callers, DeleteRow(c) PROVE IInv'
  <2>1. ASSUME NEW o \in Callers PROVE CallInv(o)'
    BY <1>0, <1>5 DEF DeleteRow, CallInv, Inside, TypeOK
  <2>2. PastInv'
    BY <1>0, <1>5 DEF DeleteRow, PastInv, TypeOK
  <2>3. TableWithinCapacity'
    <3>1. Running(row') \subseteq Running(row) /\ row' \in [Callers -> RowStates]
      BY <1>0, <1>1, <1>5 DEF DeleteRow, Running, TypeOK
    <3> QED
      BY <1>0, <3>1, ReapFreesCapacity DEF TableWithinCapacity
  <2> QED
    BY <1>1, <2>1, <2>2, <2>3 DEF IInv
<1>6. ASSUME NEW c \in Callers,
             \/ GiveUp(c) \/ Spawn(c) \/ ChildExit(c) \/ Finish(c)
             \/ CloseFile(c) \/ Crash(c) \/ Renew(c)
      PROVE  IInv'
  <2>1. UNCHANGED <<row, before>>
    BY <1>6 DEF GiveUp, Spawn, ChildExit, Finish, CloseFile, Crash, Renew
  <2>2. PastInv' /\ TableWithinCapacity'
    BY <1>0, <2>1 DEF PastInv, TableWithinCapacity, Running
  <2>3. ASSUME NEW o \in Callers PROVE CallInv(o)'
    <3> USE <1>0 DEF CallInv, Inside, TypeOK
    <3>1. CASE GiveUp(c)
      BY <3>1 DEF GiveUp
    <3>2. CASE Spawn(c)
      BY <3>2 DEF Spawn
    <3>3. CASE ChildExit(c)
      BY <3>3 DEF ChildExit
    <3>4. CASE Finish(c)
      BY <3>4 DEF Finish
    <3>5. CASE CloseFile(c)
      BY <3>5 DEF CloseFile
    <3>6. CASE Crash(c)
      BY <3>6 DEF Crash
    <3>7. CASE Renew(c)
      BY <3>7 DEF Renew
    <3> QED
      BY <1>6, <3>1, <3>2, <3>3, <3>4, <3>5, <3>6, <3>7
  <2> QED
    BY <1>1, <2>2, <2>3 DEF IInv
<1>7. CASE UNCHANGED vars
  BY <1>0, <1>1, <1>7
     DEF vars, IInv, CallInv, PastInv, TableWithinCapacity, Running
<1> QED
  BY <1>2, <1>3, <1>4, <1>5, <1>6, <1>7 DEF Next, Step

(* The invariant holds of every reachable state.                           *)
THEOREM InvariantHolds == Spec => []IInv
  BY InvInit, InvStep, PTL DEF Spec

-----------------------------------------------------------------------------
(* The properties.                                                         *)

LEMMA ConsumersAreRunning ==
    ASSUME IInv PROVE Consumers \subseteq Running(row)
  BY DEF IInv, CallInv, Consumers, Consuming, Running

LEMMA HostInv == IInv => HostWithinCapacity
<1> SUFFICES ASSUME IInv, NEW d \in Dims
             PROVE  Used(Consumers, d) <= Capacity[d]
  BY DEF HostWithinCapacity
<1>1. Consumers \in SUBSET Running(row) /\ Running(row) \in SUBSET Callers
  BY ConsumersAreRunning DEF Running
<1>2. Used(Consumers, d) <= Used(Running(row), d)
  BY <1>1, UsedIsMonotone
<1>3. Used(Running(row), d) <= Capacity[d]
  BY DEF IInv, TableWithinCapacity
<1>4. /\ Used(Consumers, d) \in Nat /\ Used(Running(row), d) \in Nat
      /\ Capacity[d] \in Nat
  <2>1. Consumers \in SUBSET Callers
    BY <1>1
  <2> QED
    BY <1>1, <2>1, UnitsFinite, GateAssumption
<1> QED
  BY <1>2, <1>3, <1>4

(* Live processes, orphaned children included, never oversubscribe the     *)
(* host, however many callers there are and whatever their profiles cost.  *)
THEOREM HostNeverOversubscribed == Spec => []HostWithinCapacity
  BY InvariantHolds, HostInv, PTL

(* The row of a live waiter is never taken away by anybody's reap.         *)
THEOREM WaiterNeverReaped == Spec => []WaiterKeepsItsPlace
<1>1. IInv => WaiterKeepsItsPlace
  BY DEF IInv, CallInv, WaiterKeepsItsPlace
<1> QED
  BY <1>1, InvariantHolds, PTL

-----------------------------------------------------------------------------
(* The gate implements AdmissionQueue.                                     *)

(* A step that leaves waiters, consumers and the past of waiters alone is  *)
(* a stutter of the abstract queue.                                        *)
LEMMA Stutter ==
    ASSUME Waiters' = Waiters, Consumers' = Consumers,
           \A o \in Waiters : before'[o] \cap Waiters = before[o] \cap Waiters
    PROVE  UNCHANGED Promise!qvars
<1>1. Ahead' = Ahead
  BY DEF Ahead
<1> QED
  BY <1>1 DEF Promise!qvars

(* Reaping leaves every live waiter in everybody's past.                   *)
LEMMA ReapKeepsTheLine ==
    ASSUME IInv, NEW o \in Waiters
    PROVE  /\ BeforeAfterReap[o] \cap Waiters = before[o] \cap Waiters
           /\ \A b \in Waiters : RowsAfterReap[b] = "waiting" /\ ~Reapable(b)
<1>1. ASSUME NEW b \in Waiters PROVE RowsAfterReap[b] = "waiting" /\ ~Reapable(b)
  BY <1>1, ReapSparesTheLiving DEF IInv, CallInv, Waiters, Inside
<1> QED
  BY <1>1 DEF BeforeAfterReap, Waiters

LEMMA PollStep ==
    ASSUME IInv, NEW c \in Callers, Poll(c)
    PROVE  Promise!Grant(c) \/ UNCHANGED Promise!qvars
<1>1. c \in Waiters /\ c \notin Consumers /\ RowsAfterReap[c] = "waiting"
  <2>1. "child" \notin holders[c]
    BY DEF IInv, CallInv, Poll
  <2> QED
    BY <2>1, ReapKeepsTheLine DEF Waiters, Consumers, Consuming, Poll
<1>2. CASE pc' = pc
  <2>1. Waiters' = Waiters /\ Consumers' = Consumers
    BY <1>2 DEF Poll, Waiters, Consumers, Consuming
  <2> QED
    BY <2>1, ReapKeepsTheLine, Stutter DEF Poll
<1>3. CASE pc' # pc
  <2>1. /\ AtHead(RowsAfterReap, BeforeAfterReap, c)
        /\ Fits(RowsAfterReap, c)
        /\ pc' = [pc EXCEPT ![c] = "admitted"]
        /\ before' = BeforeAfterReap /\ holders' = holders
    BY <1>3 DEF Poll
  <2>2. Waiters' = Waiters \ {c} /\ Consumers' = Consumers \cup {c}
    BY <1>1, <2>1 DEF Waiters, Consumers, Consuming, IInv, TypeOK
  <2>3. Ahead[c] = {}
    <3>1. ASSUME NEW b \in before[c] \cap Waiters PROVE FALSE
      <4>1. b \in BeforeAfterReap[c] /\ RowsAfterReap[b] = "waiting"
        BY <1>1, ReapKeepsTheLine
      <4> QED
        BY <2>1, <4>1 DEF AtHead
    <3> QED
      BY <1>1, <3>1 DEF Ahead, Waiters
  <2>4. Ahead' = [o \in Callers |-> IF o = c THEN {} ELSE Ahead[o] \ {c}]
    <3>1. ASSUME NEW o \in Callers
          PROVE  (IF o \in Waiters' THEN before'[o] \cap Waiters' ELSE {})
                   = IF o = c THEN {} ELSE Ahead[o] \ {c}
      BY <1>1, <2>1, <2>2, ReapKeepsTheLine DEF Ahead
    <3> QED
      BY <3>1 DEF Ahead
  <2>5. ASSUME NEW d \in Dims
        PROVE  Used(Consumers, d) + Cost[profile[c]][d] <= Capacity[d]
    <3>1. Consumers \subseteq Running(RowsAfterReap)
      BY ReapSparesTheLiving DEF IInv, CallInv, Consumers, Consuming, Running, Inside
    <3>2. Consumers \in SUBSET Callers /\ Running(RowsAfterReap) \in SUBSET Callers
      BY DEF Consumers, Running
    <3>3. Used(Consumers, d) <= Used(Running(RowsAfterReap), d)
      BY <3>1, <3>2, UsedIsMonotone
    <3>4. Used(Running(RowsAfterReap), d) + Cost[profile[c]][d] <= Capacity[d]
      BY <2>1 DEF Fits
    <3>5. /\ Used(Consumers, d) \in Nat
          /\ Used(Running(RowsAfterReap), d) \in Nat
          /\ Cost[profile[c]][d] \in Nat
          /\ Capacity[d] \in Nat
      BY <3>2, UnitsFinite, GateAssumption
    <3> QED
      BY <3>3, <3>4, <3>5
  <2> QED
    BY <1>1, <2>2, <2>3, <2>4, <2>5 DEF Promise!Grant, Promise!OutOfLine
<1> QED
  BY <1>2, <1>3

LEMMA EnqueueStep ==
    ASSUME IInv, NEW c \in Callers, Enqueue(c)
    PROVE  Promise!Join(c) \/ UNCHANGED Promise!qvars
<1>1. /\ TypeOK /\ PastInv /\ CallInv(c)
      /\ pc[c] = "idle" /\ row[c] = "none" /\ "child" \notin holders[c]
      /\ holders' = [holders EXCEPT ![c] = {"proc"}]
  BY DEF IInv, Enqueue, CallInv
<1>2. c \notin Waiters /\ c \notin Consumers
  BY <1>1 DEF Waiters, Consumers, Consuming
<1>3. CASE pc'[c] = "leaving"
  <2>1. pc' = [pc EXCEPT ![c] = "leaving"] /\ before' = before
    BY <1>1, <1>3 DEF Enqueue, TypeOK
  <2>2. Waiters' = Waiters /\ Consumers' = Consumers
    BY <1>1, <2>1 DEF Waiters, Consumers, Consuming, TypeOK
  <2> QED
    BY <2>1, <2>2, Stutter
<1>4. CASE pc'[c] # "leaving"
  <2> DEFINE present == {b \in Callers : RowsAfterReap[b] # "none"}
  <2>1. /\ pc' = [pc EXCEPT ![c] = "polling"]
        /\ before' = [BeforeAfterReap EXCEPT ![c] = present]
    BY <1>1, <1>4 DEF Enqueue, TypeOK
  <2>2. Waiters' = Waiters \cup {c} /\ Consumers' = Consumers
    BY <1>1, <2>1 DEF Waiters, Consumers, Consuming, TypeOK
  <2>3. before'[c] = present
    BY <2>1 DEF BeforeAfterReap
  <2>4. present \cap Waiters' = Waiters
    <3>1. c \notin present
      BY <1>1 DEF RowsAfterReap
    <3>2. \A w \in Waiters : w \in present
      BY ReapKeepsTheLine DEF Waiters
    <3> QED
      BY <2>2, <3>1, <3>2
  <2>5. ASSUME NEW o \in Waiters PROVE before'[o] \cap Waiters' = Ahead[o]
    <3>1. o # c /\ before'[o] = BeforeAfterReap[o]
      BY <1>2, <2>1 DEF BeforeAfterReap, Waiters
    <3>2. c \notin before[o]
      BY <1>1 DEF PastInv, Waiters
    <3>3. BeforeAfterReap[o] \cap Waiters = before[o] \cap Waiters
      BY ReapKeepsTheLine
    <3>4. c \notin BeforeAfterReap[o]
      BY <3>2 DEF BeforeAfterReap, Waiters
    <3>5. Ahead[o] = before[o] \cap Waiters
      BY DEF Ahead, Waiters
    <3> QED
      BY <2>2, <3>1, <3>3, <3>4, <3>5
  <2>6. Ahead' = [Ahead EXCEPT ![c] = Waiters]
    <3>1. ASSUME NEW o \in Callers
          PROVE  (IF o \in Waiters' THEN before'[o] \cap Waiters' ELSE {})
                   = IF o = c THEN Waiters ELSE Ahead[o]
      BY <1>2, <2>2, <2>3, <2>4, <2>5 DEF Ahead
    <3>2. Ahead' = [o \in Callers |-> IF o = c THEN Waiters ELSE Ahead[o]]
      BY <3>1 DEF Ahead
    <3> QED
      BY <3>2 DEF Ahead
  <2> QED
    BY <1>2, <2>2, <2>6 DEF Promise!Join
<1> QED
  BY <1>3, <1>4

(* GiveUp and the death of a waiter leave the line; the end, or the death, *)
(* of what consumed a share ends it; all else is invisible.                *)
LEMMA LeaveStep ==
    ASSUME IInv, NEW c \in Callers, before' = before,
           Waiters' = Waiters \ {c}, Consumers' = Consumers, c \in Waiters
    PROVE  Promise!Quit(c)
<1>1. ASSUME NEW o \in Callers
      PROVE  (IF o \in Waiters' THEN before'[o] \cap Waiters' ELSE {})
               = IF o = c THEN {} ELSE Ahead[o] \ {c}
  BY DEF Ahead
<1>2. Ahead' = [o \in Callers |-> IF o = c THEN {} ELSE Ahead[o] \ {c}]
  BY <1>1 DEF Ahead
<1> QED
  BY <1>2 DEF Promise!Quit, Promise!OutOfLine

LEMMA EndStep ==
    ASSUME NEW c \in Callers, before' = before, Waiters' = Waiters,
           Consumers' = Consumers \/ (c \in Consumers /\ Consumers' = Consumers \ {c})
    PROVE  Promise!End(c) \/ UNCHANGED Promise!qvars
<1>1. Ahead' = Ahead
  BY DEF Ahead
<1> QED
  BY <1>1 DEF Promise!End, Promise!qvars

(* Every step of the gate is a step of AdmissionQueue under the mapping,   *)
(* or invisible to it.                                                     *)
LEMMA RefinementStep ==
    IInv /\ [Next]_vars => [Promise!QNext]_(Promise!qvars)
<1> SUFFICES ASSUME IInv, [Next]_vars
             PROVE  Promise!QNext \/ UNCHANGED Promise!qvars
  OBVIOUS
<1>0. TypeOK /\ \A c \in Callers : CallInv(c)
  BY DEF IInv
<1>1. CASE Snapshot
  <2>1. Waiters' = Waiters /\ Consumers' = Consumers /\ before' = BeforeAfterReap
    BY <1>1 DEF Snapshot, Waiters, Consumers, Consuming
  <2> QED
    BY <2>1, ReapKeepsTheLine, Stutter
<1>2. ASSUME NEW c \in Callers, Enqueue(c)
      PROVE  Promise!QNext \/ UNCHANGED Promise!qvars
  BY <1>2, EnqueueStep DEF Promise!QNext
<1>3. ASSUME NEW c \in Callers, Poll(c)
      PROVE  Promise!QNext \/ UNCHANGED Promise!qvars
  BY <1>3, PollStep DEF Promise!QNext
<1>4. ASSUME NEW c \in Callers, DeleteRow(c)
      PROVE  Promise!QNext \/ UNCHANGED Promise!qvars
  <2>1. c \notin Waiters /\ Waiters' = Waiters /\ Consumers' = Consumers
    BY <1>0, <1>4 DEF DeleteRow, Waiters, Consumers, Consuming, TypeOK
  <2>2. \A o \in Waiters : before'[o] \cap Waiters = before[o] \cap Waiters
    BY <1>0, <1>4, <2>1 DEF DeleteRow, Waiters, TypeOK
  <2> QED
    BY <2>1, <2>2, Stutter
<1>5. ASSUME NEW c \in Callers, GiveUp(c)
      PROVE  Promise!QNext \/ UNCHANGED Promise!qvars
  <2>1. /\ c \in Waiters /\ before' = before
        /\ Waiters' = Waiters \ {c} /\ Consumers' = Consumers
    BY <1>0, <1>5 DEF GiveUp, Waiters, Consumers, Consuming, TypeOK
  <2> QED
    BY <2>1, LeaveStep DEF Promise!QNext
<1>6. ASSUME NEW c \in Callers, Crash(c)
      PROVE  Promise!QNext \/ UNCHANGED Promise!qvars
  <2>1. CASE c \in Waiters
    <3>1. /\ before' = before
          /\ Waiters' = Waiters \ {c} /\ Consumers' = Consumers
      BY <1>0, <1>6, <2>1 DEF Crash, Waiters, Consumers, Consuming, CallInv, TypeOK
    <3> QED
      BY <2>1, <3>1, LeaveStep DEF Promise!QNext
  <2>2. CASE c \notin Waiters
    <3>1. before' = before /\ Waiters' = Waiters
      BY <1>0, <1>6, <2>2 DEF Crash, Waiters, TypeOK
    <3>2. \/ Consumers' = Consumers
          \/ c \in Consumers /\ Consumers' = Consumers \ {c}
      BY <1>0, <1>6 DEF Crash, Consumers, Consuming, TypeOK
    <3> QED
      BY <3>1, <3>2, EndStep DEF Promise!QNext
  <2> QED
    BY <2>1, <2>2
<1>7. ASSUME NEW c \in Callers,
             Spawn(c) \/ ChildExit(c) \/ Finish(c) \/ CloseFile(c) \/ Renew(c)
      PROVE  Promise!QNext \/ UNCHANGED Promise!qvars
  <2>1. before' = before /\ Waiters' = Waiters
    BY <1>0, <1>7
       DEF Spawn, ChildExit, Finish, CloseFile, Renew, Waiters, TypeOK
  <2>2. \/ Consumers' = Consumers
        \/ c \in Consumers /\ Consumers' = Consumers \ {c}
    <3> USE <1>0 DEF Consumers, Consuming, TypeOK, CallInv
    <3>1. CASE Spawn(c)
      BY <3>1 DEF Spawn
    <3>2. CASE ChildExit(c)
      BY <3>2 DEF ChildExit
    <3>3. CASE Finish(c)
      BY <3>3 DEF Finish
    <3>4. CASE CloseFile(c)
      BY <3>4 DEF CloseFile
    <3>5. CASE Renew(c)
      BY <3>5 DEF Renew
    <3> QED
      BY <1>7, <3>1, <3>2, <3>3, <3>4, <3>5
  <2> QED
    BY <2>1, <2>2, EndStep DEF Promise!QNext
<1>8. CASE UNCHANGED vars
  BY <1>8 DEF vars, Promise!qvars, Ahead, Waiters, Consumers, Consuming
<1> QED
  BY <1>1, <1>2, <1>3, <1>4, <1>5, <1>6, <1>7, <1>8 DEF Next, Step

(* The gate keeps the promise of AdmissionQueue: shares are granted in the *)
(* order of arrival and only when the host has room for them.              *)
THEOREM GateImplementsQueue == Spec => ImplementsAdmissionQueue
<1>1. Init => Promise!QInit
  BY DEF Init, Promise!QInit, Ahead, Waiters, Consumers, Consuming
<1> QED
  BY <1>1, InvariantHolds, RefinementStep, PTL
     DEF Spec, ImplementsAdmissionQueue, Promise!QSpec

=============================================================================
