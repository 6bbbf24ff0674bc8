-------------------------- MODULE ForwardingProofs --------------------------
(***************************************************************************)
(* The safety properties of Forwarding, for any programs, destinations,    *)
(* requests and restarts.                                                  *)
(***************************************************************************)
EXTENDS Forwarding, TLAPS

RowsInv ==
    /\ \A p, q \in Programs : slug[p] = slug[q] /\ slug[p] # None => p = q
    /\ \A p \in Programs : p \in unused => slug[p] = None
    /\ \A d \in Destinations : d \in unused => row[d] = None
    /\ \A p \in Programs, d \in Destinations :
           bound[<<p, d>>] # "none" => slug[p] # None /\ row[d] # None

(* What the place of a worker says about its variables.                    *)
PlaceInv(h) ==
    /\ at[h] = "idle" => left[h] = {}
    /\ at[h] \in {"keys", "upsert", "reconcile"} => prog[h] \in left[h] /\ name[h] \in Slugs
    /\ at[h] = "listing" /\ h # Boot => item[h] \in Destinations /\ left[h] = {}
    /\ at[h] = "deleting" => item[h] \in Destinations /\ h # Boot
    /\ at[h] = "unpath" => item[h] \in Slugs /\ left[h] = {}

(* A worker that is alone works with copies that are not old.              *)
CopyInv(h) ==
    /\ at[h] \in {"keys", "upsert", "reconcile"} =>
          /\ name[h] = slug[prog[h]]
          /\ seen[h] = {<<d, row[d].url>> : d \in Listed(prog[h])}
    /\ at[h] \in {"upsert", "reconcile"} => body[h] = {Address(d) : d \in Wanted(prog[h])}
    /\ at[h] = "reconcile" => path[name[h]] = body[h]
    /\ at[h] = "unpath" => \A p \in Programs : slug[p] # item[h]
    /\ at[h] = "deleting" => left[h] = BoundTo(item[h])

AloneInv ==
    /\ ~alone => unsure = Programs
    /\ alone => /\ \A g, h \in Workers : ~Idle(g) /\ ~Idle(h) => g = h
                /\ \A h \in Workers : CopyInv(h)

Settled(p) ==
    /\ path[slug[p]] = {Address(d) : d \in Wanted(p)}
    /\ \A d \in Destinations :
          relay[<<p, d>>].dest = IF d \in WantedRelays(p) THEN Address(d) ELSE None

Pending(p) ==
    \E h \in Handlers : p \in left[h] \/ (at[h] = "listing" /\ p \in BoundTo(item[h]))

SettledInv ==
    \A p \in Programs \ unsure : slug[p] # None => Settled(p) \/ Pending(p)

(* An entry of the map is the handle of a goroutine that was not cancelled. *)
EntryIsLive == \A k \in Keyed : relay[k] # NoRelay => run[k][relay[k].n].live

RelayInv == RelayIsReachable /\ EntryIsLive

IInv ==
    /\ TypeOK
    /\ RowsInv
    /\ \A h \in Workers : PlaceInv(h)
    /\ RelayInv
    /\ AloneInv
    /\ SettledInv

-----------------------------------------------------------------------------
Runs == [at : {"pushing", "pausing"}, slug : Slugs, dest : Addresses, live : BOOLEAN]

RowsType ==
    /\ slug \in [Programs -> Slugs \cup {None}]
    /\ row \in [Destinations -> Rows \cup {None}]
    /\ bound \in [Keyed -> {"none", "off", "on"}]
    /\ unused \subseteq Programs \cup Destinations

RelayType ==
    /\ relay \in [Keyed -> [n : 1 .. MaxRuns, dest : Addresses] \cup {NoRelay}]
    /\ run \in [Keyed -> [1 .. MaxRuns -> Runs \cup {NoRun}]]

CallType ==
    /\ at \in [Workers -> Points]
    /\ item \in [Workers -> Destinations \cup Slugs \cup {None}]
    /\ left \in [Workers -> SUBSET Programs]
    /\ tries \in [Workers -> Nat]

SyncType ==
    /\ prog \in [Workers -> Programs \cup {None}]
    /\ seen \in [Workers -> SUBSET (Destinations \X Urls)]
    /\ name \in [Workers -> Slugs \cup {None}]
    /\ body \in [Workers -> SUBSET Addresses]

Contents == (SUBSET Addresses) \cup {None}
PathType == path \in [Slugs -> Contents]
GhostType == alone \in BOOLEAN /\ unsure \subseteq Programs /\ requests \in 0 .. MaxRequests

LEMMA TypeParts ==
    TypeOK <=> RowsType /\ RelayType /\ CallType /\ SyncType /\ PathType /\ GhostType
BY DEF TypeOK, RowsType, RelayType, CallType, SyncType, PathType, Contents, GhostType, Runs

LEMMA TypePartsAfter ==
    ASSUME RowsType', RelayType', CallType', SyncType', PathType', GhostType'
    PROVE  TypeOK'
BY DEF TypeOK, RowsType, RelayType, CallType, SyncType, PathType, Contents, GhostType, Runs

-----------------------------------------------------------------------------
(* Goroutines of relays.                                                   *)

LEMMA RunKeeps ==
    ASSUME IInv, NEW k \in Keyed, NEW n \in 1 .. MaxRuns, Resume(k, n) \/ Exit(k, n)
    PROVE  IInv'
<1> USE DEF Resume, Exit
<1>1. UNCHANGED <<rows, path, relay, call, ghost, requests>>
  OBVIOUS
<1>2. run[k][n] \in Runs
  <2>0. run \in [Keyed -> [1 .. MaxRuns -> Runs \cup {NoRun}]]
    BY TypeParts DEF IInv, RelayType
  <2>1. run[k][n] \in Runs \cup {NoRun}
    BY <2>0
  <2>2. run[k][n].at \in {"pushing", "pausing"}
    OBVIOUS
  <2> QED  BY <2>1, <2>2 DEF NoRun
<1>3. \/ \E p \in {"pushing", "pausing"} : Move(k, n, p)
      \/ ~run[k][n].live /\ Return(k, n)
  BY <1>2 DEF Runs
<1>4. run' \in [Keyed -> [1 .. MaxRuns -> Runs \cup {NoRun}]]
  <2>1. ASSUME NEW p \in {"pushing", "pausing"}, Move(k, n, p)
        PROVE  run' \in [Keyed -> [1 .. MaxRuns -> Runs \cup {NoRun}]]
    <3>1. [run[k][n] EXCEPT !.at = p] \in Runs
      BY <1>2 DEF Runs
    <3> QED  BY <2>1, <3>1 DEF IInv, TypeOK, Move, Runs
  <2>2. CASE Return(k, n)
    BY <2>2 DEF IInv, TypeOK, Return, Runs
  <2> QED  BY <1>3, <2>1, <2>2
<1>5. RelayInv'
  <2>2. ASSUME NEW l \in Keyed, NEW m \in 1 .. MaxRuns
        PROVE  /\ run'[l][m].live = run[l][m].live
               /\ run[l][m].live => run'[l][m].dest = run[l][m].dest
    <3>1. CASE l # k \/ m # n
      <4>1. run \in [Keyed -> [1 .. MaxRuns -> Runs \cup {NoRun}]]
        BY TypeParts DEF IInv, RelayType
      <4>2. \E x : run' = [run EXCEPT ![k][n] = x]
        BY <1>3 DEF Move, Return
      <4> QED  BY <3>1, <4>1, <4>2
    <3>2. CASE l = k /\ m = n
      <4>1. run \in [Keyed -> [1 .. MaxRuns -> Runs \cup {NoRun}]]
        BY TypeParts DEF IInv, RelayType
      <4>2. CASE ~run[k][n].live /\ Return(k, n)
        <5>1. run'[k][n] = NoRun
          BY <4>1, <4>2 DEF Return
        <5>2. run[k][n].live = FALSE /\ NoRun.live = FALSE
          BY <1>2, <4>2 DEF NoRun, Runs
        <5> HIDE DEF Resume, Exit
        <5> QED  BY <3>2, <5>1, <5>2
      <4>3. ASSUME NEW p \in {"pushing", "pausing"}, Move(k, n, p)
            PROVE  run'[k][n].live = run[k][n].live /\ run'[k][n].dest = run[k][n].dest
        BY <1>2, <4>1, <4>3 DEF Move, Runs
      <4> QED  BY <1>3, <3>2, <4>2, <4>3
    <3> QED  BY <3>1, <3>2
  <2>3. \A l \in Keyed : relay[l] # NoRelay => relay[l].n \in 1 .. MaxRuns
    BY TypeParts DEF IInv, RelayType
  <2> QED  BY <1>1, <2>2, <2>3 DEF IInv, RelayInv, RelayIsReachable, EntryIsLive
<1>6. TypeOK'
  BY <1>1, <1>4, TypeParts, TypePartsAfter
  DEF IInv, RowsType, RelayType, CallType, SyncType, PathType, GhostType, rows, call, sync, ghost
<1>7. RowsInv' /\ (\A h \in Workers : PlaceInv(h))'
  BY <1>1 DEF IInv, RowsInv, PlaceInv, rows, call, sync
<1>8. AloneInv'
  <2>1. ASSUME NEW h \in Workers, CopyInv(h)
        PROVE  CopyInv(h)'
    BY <1>1, <2>1 DEF CopyInv, Listed, Wanted, Address, BoundTo, rows, call, sync
  <2>2. \A h \in Workers : Idle(h)' = Idle(h)
    BY <1>1 DEF Idle, call
  <2> QED  BY <1>1, <2>1, <2>2 DEF IInv, AloneInv, ghost
<1>9. SettledInv'
  BY <1>1 DEF IInv, SettledInv, Settled, Pending, WantedRelays, Listed, Wanted, Address, BoundTo,
              rows, call, sync, ghost
<1> QED  BY <1>5, <1>6, <1>7, <1>8, <1>9 DEF IInv

-----------------------------------------------------------------------------
(* Steps of a worker that is not idle: rows stay.                          *)

Elsewhere(h) ==
    \A g \in Workers \ {h} :
        /\ at'[g] = at[g] /\ item'[g] = item[g] /\ left'[g] = left[g]
        /\ prog'[g] = prog[g] /\ seen'[g] = seen[g]
        /\ name'[g] = name[g] /\ body'[g] = body[g]

LEMMA WorkerFrame ==
    ASSUME IInv, NEW h \in Workers, ~Idle(h), UNCHANGED rows, Elsewhere(h),
           TypeOK', PlaceInv(h)', RelayInv', alone' = alone,
           ~alone => unsure' = Programs, alone => CopyInv(h)', SettledInv'
    PROVE  IInv'
<1>1. RowsInv'
  BY DEF IInv, RowsInv, rows
<1>2. \A g \in Workers : PlaceInv(g)'
  BY DEF IInv, PlaceInv, Elsewhere
<1>3. ASSUME alone
      PROVE  /\ \A f, g \in Workers : ~Idle(f)' /\ ~Idle(g)' => f = g
             /\ \A g \in Workers : CopyInv(g)'
  <2>1. \A g \in Workers \ {h} : at[g] = "idle" /\ at'[g] = "idle"
    BY <1>3 DEF IInv, AloneInv, Idle, Elsewhere
  <2>2. \A g \in Workers \ {h} : CopyInv(g)'
    BY <2>1 DEF CopyInv
  <2> QED  BY <1>3, <2>1, <2>2 DEF Idle
<1>4. AloneInv'
  BY <1>3 DEF AloneInv
<1> QED  BY <1>1, <1>2, <1>4 DEF IInv

LEMMA SettledFrame ==
    ASSUME UNCHANGED rows, NEW p \in Programs, path'[slug[p]] = path[slug[p]],
           \A d \in Destinations : relay'[<<p, d>>].dest = relay[<<p, d>>].dest,
           Settled(p)
    PROVE  Settled(p)'
<1>1. /\ Wanted(p)' = Wanted(p) /\ WantedRelays(p)' = WantedRelays(p)
      /\ \A d \in Destinations : Address(d)' = Address(d)
  BY DEF Wanted, WantedRelays, Listed, Address, rows
<1>2. {Address(d) : d \in Wanted(p)}' = {Address(d) : d \in Wanted(p)}
  BY <1>1 DEF Address, rows
<1> QED  BY <1>1, <1>2 DEF Settled, rows

(* A request still has to synchronise program p.                           *)
Holds(h, p) ==
    h \in Handlers /\ (p \in left[h] \/ (at[h] = "listing" /\ p \in BoundTo(item[h])))

LEMMA SettledStep ==
    ASSUME IInv, NEW h \in Workers, UNCHANGED rows, Elsewhere(h),
           \A p \in Programs \ unsure' : slug[p] # None =>
               \/ Settled(p)'
               \/ Holds(h, p)'
               \/ p \notin unsure /\ (Settled(p) => Settled(p)') /\ ~Holds(h, p)
    PROVE  SettledInv'
<1>1. SUFFICES ASSUME NEW p \in Programs \ unsure', slug[p] # None
               PROVE  Settled(p)' \/ Pending(p)'
  BY DEF SettledInv, rows
<1>2. CASE Holds(h, p)'
  BY <1>2 DEF Holds, Pending
<1>3. CASE p \notin unsure /\ (Settled(p) => Settled(p)') /\ ~Holds(h, p)
  <2>1. CASE Pending(p)
    <3>1. PICK g \in Handlers : p \in left[g] \/ (at[g] = "listing" /\ p \in BoundTo(item[g]))
      BY <2>1 DEF Pending
    <3>2. g # h
      BY <1>3, <3>1 DEF Holds
    <3>3. left'[g] = left[g] /\ at'[g] = at[g] /\ item'[g] = item[g]
      BY <3>2 DEF Elsewhere, Workers
    <3> QED  BY <3>1, <3>3 DEF Pending, BoundTo, rows
  <2> QED  BY <1>1, <1>3, <2>1 DEF IInv, SettledInv
<1> QED  BY <1>1, <1>2, <1>3

(* A worker that only leaves or deletes a path no program has.             *)
LEMMA FinishKeeps ==
    ASSUME IInv, NEW h \in Workers, Finish(h) \/ DeletePath(h)
    PROVE  IInv'
<1> USE DEF Finish, DeletePath, Leave, Then
<1>0. RowsType /\ RelayType /\ CallType /\ SyncType /\ PathType /\ GhostType
  BY TypeParts DEF IInv
<1>a. PlaceInv(h) /\ left[h] = {}
  BY DEF IInv, PlaceInv
<1>1. TypeOK'
  <2>1. CallType'
    BY <1>0 DEF CallType, Points
  <2>2. PathType'
    <3>1. CASE path' = path
      BY <1>0, <3>1 DEF PathType
    <3>2. CASE item[h] \in Slugs /\ path' = [path EXCEPT ![item[h]] = None]
      <4>1. None \in Contents
        BY DEF Contents
      <4> QED  BY <1>0, <3>2, <4>1 DEF PathType
    <3> QED  BY <1>a, <3>1, <3>2 DEF PlaceInv
  <2> QED  BY <1>0, <2>1, <2>2, TypePartsAfter
           DEF RowsType, RelayType, SyncType, PathType, GhostType, rows, relays, sync, ghost
<1>2. Elsewhere(h)
  BY <1>0 DEF Elsewhere, CallType, sync
<1>3. at'[h] = "idle" /\ left'[h] = {}
  BY <1>0 DEF CallType
<1>4. PlaceInv(h)' /\ CopyInv(h)'
  BY <1>3 DEF PlaceInv, CopyInv
<1>5. RelayInv'
  BY DEF IInv, RelayInv, RelayIsReachable, EntryIsLive, relays
<1>6. SettledInv'
  <2>1. ASSUME NEW p \in Programs \ unsure, slug[p] # None
        PROVE  path'[slug[p]] = path[slug[p]]
    <3>1. alone
      BY <2>1 DEF IInv, AloneInv
    <3>2. CASE DeletePath(h)
      <4>1. slug[p] # item[h]
        BY <3>1, <3>2 DEF IInv, AloneInv, CopyInv
      <4> QED  BY <1>0, <2>1, <3>2, <4>1 DEF PathType, RowsType
    <3> QED  BY <3>2
  <2>2. \A p \in Programs \ unsure : slug[p] # None => (Settled(p) => Settled(p)')
    BY <2>1, SettledFrame DEF relays, rows
  <2>3. \A p \in Programs : ~Holds(h, p)
    BY <1>a DEF Holds
  <2> QED  BY <1>2, <2>2, <2>3, SettledStep DEF ghost, rows
<1> QED  BY <1>1, <1>2, <1>4, <1>5, <1>6, WorkerFrame DEF IInv, AloneInv, Idle, ghost, rows

LEMMA ListKeeps ==
    ASSUME IInv, NEW h \in Workers, List(h)
    PROVE  IInv'
<1> USE DEF List
<1>0. RowsType /\ RelayType /\ CallType /\ SyncType /\ PathType /\ GhostType
  BY TypeParts DEF IInv
<1>1. TypeOK'
  <2>1. CallType'
    BY <1>0 DEF CallType, Points, BoundTo
  <2> QED  BY <1>0, <2>1, TypePartsAfter
           DEF RowsType, RelayType, SyncType, PathType, GhostType, rows, relays, sync, ghost
<1>2. Elsewhere(h)
  BY <1>0 DEF Elsewhere, CallType, sync
<1>3. at'[h] = "syncing" /\ (h # Boot => left'[h] = BoundTo(item[h]))
  BY <1>0 DEF CallType
<1>4. PlaceInv(h)' /\ CopyInv(h)'
  BY <1>3 DEF PlaceInv, CopyInv
<1>5. RelayInv'
  BY DEF IInv, RelayInv, RelayIsReachable, EntryIsLive, relays
<1>6. SettledInv'
  <2>1. \A p \in Programs : Settled(p) => Settled(p)'
    BY SettledFrame DEF relays, rows
  <2>2. \A p \in Programs : Holds(h, p) => Holds(h, p)'
    BY <1>3, ForwardingAssumption DEF IInv, PlaceInv, Holds
  <2>3. unsure' = unsure
    BY DEF ghost
  <2> QED  BY <1>2, <2>1, <2>2, <2>3, SettledStep DEF rows
<1> QED  BY <1>1, <1>2, <1>4, <1>5, <1>6, WorkerFrame DEF IInv, AloneInv, Idle, ghost, rows

(* A failing attempt for p, whatever became of its path.                   *)
LEMMA AttemptFailsKeeps ==
    ASSUME IInv, NEW h \in Workers, NEW p \in left[h], AttemptFails(h, p),
           at[h] \in {"syncing", "keys", "upsert"}, PathType',
           alone => \A q \in Programs : Settled(q) /\ slug[q] # None => path'[slug[q]] = path[slug[q]]
    PROVE  IInv'
<1> USE DEF AttemptFails, Leave, Then
<1>0. RowsType /\ RelayType /\ CallType /\ SyncType /\ PathType /\ GhostType
  BY TypeParts DEF IInv
<1>a. p \in Programs
  BY <1>0 DEF CallType
<1>1. TypeOK'
  <2>1. CallType'
    <3>1. at' \in [Workers -> Points]
      BY <1>0 DEF CallType, Points
    <3>2. item' \in [Workers -> Destinations \cup Slugs \cup {None}]
      BY <1>0 DEF CallType
    <3>3. left' \in [Workers -> SUBSET Programs]
      BY <1>0 DEF CallType
    <3>4. tries' \in [Workers -> Nat]
      BY <1>0, ForwardingAssumption DEF CallType
    <3> QED  BY <3>1, <3>2, <3>3, <3>4 DEF CallType
  <2>2. SyncType'
    BY <1>0, <1>a DEF SyncType
  <2>3. GhostType'
    BY <1>0, <1>a DEF GhostType
  <2> QED  BY <1>0, <2>1, <2>2, <2>3, TypePartsAfter DEF RowsType, RelayType, rows, relays
<1>2. Elsewhere(h)
  BY <1>0 DEF Elsewhere, CallType, SyncType
<1>3. /\ at'[h] \in {"idle", "syncing", "listing"}
      /\ at'[h] = "idle" => left'[h] = {}
      /\ at'[h] = "listing" => h = Boot
      /\ unsure \subseteq unsure'
  BY <1>0 DEF CallType
<1>4. PlaceInv(h)' /\ CopyInv(h)'
  BY <1>3 DEF PlaceInv, CopyInv
<1>5. RelayInv'
  BY DEF IInv, RelayInv, RelayIsReachable, EntryIsLive, relays
<1>6. SettledInv'
  <2>1. \A q \in Programs \ unsure : slug[q] # None => (Settled(q) => Settled(q)')
    <3>1. SUFFICES ASSUME NEW q \in Programs \ unsure, slug[q] # None, Settled(q)
                   PROVE  Settled(q)'
      OBVIOUS
    <3>2. alone
      BY <3>1 DEF IInv, AloneInv
    <3> QED  BY <3>1, <3>2, SettledFrame DEF relays, rows
  <2>2. \A q \in Programs \ unsure' : Holds(h, q) => Holds(h, q)'
    BY <1>0, <1>3, ForwardingAssumption DEF Holds, CallType
  <2> QED  BY <1>2, <1>3, <2>1, <2>2, SettledStep DEF rows
<1>7. ~alone => unsure' = Programs
  BY <1>0, <1>3, <1>1, TypeParts DEF IInv, AloneInv, GhostType, TypeOK
<1> QED  BY <1>1, <1>2, <1>4, <1>5, <1>6, <1>7, WorkerFrame DEF Idle, rows

(* Rows and path are as they were, the place is not.                       *)
LEMMA ReadKeeps ==
    ASSUME IInv, NEW h \in Workers, Read(h)
    PROVE  IInv'
<1>0. RowsType /\ RelayType /\ CallType /\ SyncType /\ PathType /\ GhostType
  BY TypeParts DEF IInv
<1>1. PICK p \in left[h] :
        /\ at[h] = "syncing" /\ prog[h] \in {None, p}
        /\ IF slug[p] = None
           THEN AttemptFails(h, p) /\ UNCHANGED path
           ELSE /\ at' = [at EXCEPT ![h] = "keys"]
                /\ prog' = [prog EXCEPT ![h] = p]
                /\ name' = [name EXCEPT ![h] = slug[p]]
                /\ seen' = [seen EXCEPT ![h] = {<<d, row[d].url>> : d \in Listed(p)}]
                /\ UNCHANGED <<rows, path, relays, item, left, tries, body, ghost, requests>>
  BY DEF Read
<1>2. p \in Programs
  BY <1>0 DEF CallType
<1>3. CASE slug[p] = None
  BY <1>0, <1>1, <1>3, AttemptFailsKeeps DEF PathType
<1>4. CASE slug[p] # None
  <2> USE <1>1, <1>4
  <2>1. TypeOK'
    <3>1. CallType'
      BY <1>0 DEF CallType, Points
    <3>2. {<<d, row[d].url>> : d \in Listed(p)} \subseteq Destinations \X Urls
      <4>1. \A d \in Listed(p) : d \in Destinations /\ row[d] \in Rows
        BY <1>0, <1>2 DEF Listed, IInv, RowsInv, RowsType
      <4>2. \A d \in Listed(p) : row[d].url \in Urls
        BY <4>1, ForwardingAssumption
      <4> QED  BY <4>1, <4>2
    <3>3. SyncType'
      BY <1>0, <1>2, <3>2 DEF SyncType, RowsType
    <3> QED  BY <1>0, <3>1, <3>3, TypePartsAfter
             DEF RowsType, RelayType, PathType, GhostType, rows, relays, ghost
  <2>2. Elsewhere(h)
    BY <1>0 DEF Elsewhere, CallType, SyncType
  <2>3. /\ at'[h] = "keys" /\ prog'[h] = p /\ name'[h] = slug[p] /\ slug[p] \in Slugs
        /\ seen'[h] = {<<d, row[d].url>> : d \in Listed(p)} /\ left'[h] = left[h]
    BY <1>0, <1>2 DEF CallType, SyncType, RowsType
  <2>4. PlaceInv(h)'
    BY <2>3 DEF PlaceInv
  <2>5. CopyInv(h)'
    <3>1. Listed(prog[h])' = Listed(p)
      BY <2>3 DEF Listed, rows
    <3>2. {<<d, row[d].url>> : d \in Listed(prog[h])}' = {<<d, row[d].url>> : d \in Listed(p)}
      BY <3>1 DEF rows
    <3> QED  BY <2>3, <3>2 DEF CopyInv, rows
  <2>6. RelayInv'
    BY DEF IInv, RelayInv, RelayIsReachable, EntryIsLive, relays
  <2>7. SettledInv'
    <3>1. \A q \in Programs : Settled(q) => Settled(q)'
      BY SettledFrame DEF relays, rows
    <3>2. \A q \in Programs : Holds(h, q) => Holds(h, q)'
      BY <2>3 DEF Holds
    <3>3. unsure' = unsure
      BY DEF ghost
    <3> QED  BY <2>2, <3>1, <3>2, <3>3, SettledStep DEF rows
  <2> QED  BY <2>1, <2>2, <2>4, <2>5, <2>6, <2>7, WorkerFrame DEF IInv, AloneInv, Idle, ghost, rows
<1> QED  BY <1>3, <1>4

LEMMA ReadKeysKeeps ==
    ASSUME IInv, NEW h \in Workers, ReadKeys(h)
    PROVE  IInv'
<1>0. RowsType /\ RelayType /\ CallType /\ SyncType /\ PathType /\ GhostType
  BY TypeParts DEF IInv
<1>1. at[h] = "keys" /\ prog[h] \in left[h] /\ name[h] \in Slugs /\ prog[h] \in Programs
  BY <1>0 DEF ReadKeys, IInv, PlaceInv, CallType
<1>2. CASE \E e \in seen[h] : row[e[1]] = None
  BY <1>0, <1>1, <1>2, AttemptFailsKeeps DEF ReadKeys, PathType
<1>3. CASE ~ \E e \in seen[h] : row[e[1]] = None
  <2> DEFINE keyed == {<<e[2], row[e[1]].key>> : e \in {e \in seen[h] : e[2] \notin Queries}}
  <2>0. /\ at' = [at EXCEPT ![h] = "upsert"]
        /\ body' = [body EXCEPT ![h] = keyed]
        /\ UNCHANGED <<rows, path, relays, item, left, tries, prog, seen, name, ghost, requests>>
    BY <1>3 DEF ReadKeys
  <2>1. keyed \subseteq Addresses
    <3>1. ASSUME NEW e \in seen[h]
          PROVE  e[2] \in Urls /\ row[e[1]].key \in Keys
      <4>1. e[1] \in Destinations /\ e[2] \in Urls
        BY <1>0 DEF SyncType
      <4>2. row[e[1]] \in Rows
        BY <1>0, <1>3, <4>1 DEF RowsType
      <4> QED  BY <4>1, <4>2, ForwardingAssumption
    <3> QED  BY <3>1 DEF Addresses
  <2> HIDE DEF keyed
  <2>2. TypeOK'
    <3>1. CallType'
      BY <1>0, <2>0 DEF CallType, Points
    <3>2. SyncType'
      BY <1>0, <2>0, <2>1 DEF SyncType
    <3> QED  BY <1>0, <2>0, <3>1, <3>2, TypePartsAfter
             DEF RowsType, RelayType, PathType, GhostType, rows, relays, ghost
  <2>3. Elsewhere(h)
    BY <1>0, <2>0 DEF Elsewhere, CallType, SyncType
  <2>4. at'[h] = "upsert" /\ body'[h] = keyed
    BY <1>0, <2>0 DEF CallType, SyncType
  <2>5. PlaceInv(h)'
    BY <1>1, <2>0, <2>4 DEF PlaceInv
  <2>6. ASSUME alone
        PROVE  CopyInv(h)'
    <3>1. CopyInv(h)
      BY <2>6 DEF IInv, AloneInv
    <3>2. seen[h] = {<<d, row[d].url>> : d \in Listed(prog[h])} /\ name[h] = slug[prog[h]]
      BY <1>1, <3>1 DEF CopyInv
    <3>3. keyed = {Address(d) : d \in Wanted(prog[h])}
      <4>1. ASSUME NEW e \in seen[h], e[2] \notin Queries
            PROVE  <<e[2], row[e[1]].key>> \in {Address(d) : d \in Wanted(prog[h])}
        <5>1. PICK d \in Listed(prog[h]) : e = <<d, row[d].url>>
          BY <3>2
        <5>2. d \in Wanted(prog[h]) /\ <<e[2], row[e[1]].key>> = Address(d)
          BY <4>1, <5>1 DEF Wanted, Address
        <5> QED  BY <5>2
      <4>2. ASSUME NEW d \in Wanted(prog[h])
            PROVE  Address(d) \in keyed
        <5>1. <<d, row[d].url>> \in seen[h] /\ row[d].url \notin Queries
          BY <3>2 DEF Wanted
        <5> QED  BY <5>1 DEF keyed, Address
      <4> QED  BY <4>1, <4>2 DEF keyed
    <3>4. /\ {Address(d) : d \in Wanted(prog[h])}' = {Address(d) : d \in Wanted(prog[h])}
          /\ {<<d, row[d].url>> : d \in Listed(prog[h])}' = {<<d, row[d].url>> : d \in Listed(prog[h])}
      BY <2>0 DEF Wanted, Address, Listed, rows
    <3> QED  BY <2>0, <2>4, <3>2, <3>3, <3>4 DEF CopyInv, rows
  <2>7. RelayInv'
    BY <2>0 DEF IInv, RelayInv, RelayIsReachable, EntryIsLive, relays
  <2>8. SettledInv'
    <3>1. \A q \in Programs : Settled(q) => Settled(q)'
      BY <2>0, SettledFrame DEF relays, rows
    <3>2. \A q \in Programs : Holds(h, q) => Holds(h, q)'
      BY <1>1, <2>0 DEF Holds
    <3>3. unsure' = unsure
      BY <2>0 DEF ghost
    <3> QED  BY <2>0, <2>3, <3>1, <3>2, <3>3, SettledStep DEF rows
  <2> QED  BY <1>1, <2>0, <2>2, <2>3, <2>5, <2>6, <2>7, <2>8, WorkerFrame
           DEF IInv, AloneInv, Idle, ghost, rows
<1> QED  BY <1>2, <1>3

(* When nobody else is at work, a path is written only by the program that *)
(* has it now, and with what the rows say.                                 *)
LEMMA UpsertKeepsPath ==
    ASSUME IInv, NEW h \in Workers, at[h] = "upsert",
           path' = [path EXCEPT ![name[h]] = body[h]]
    PROVE  /\ PathType'
           /\ path'[name[h]] = body[h]
           /\ alone => \A q \in Programs :
                  Settled(q) /\ slug[q] # None => path'[slug[q]] = path[slug[q]]
<1>0. RowsType /\ SyncType /\ PathType /\ CallType
  BY TypeParts DEF IInv
<1>1. prog[h] \in Programs /\ name[h] \in Slugs /\ body[h] \in Contents
  BY <1>0 DEF IInv, PlaceInv, CallType, SyncType, Contents
<1>2. ASSUME alone, NEW q \in Programs, Settled(q), slug[q] # None
      PROVE  path'[slug[q]] = path[slug[q]]
  <2>1. /\ name[h] = slug[prog[h]] /\ body[h] = {Address(d) : d \in Wanted(prog[h])}
    BY <1>2 DEF IInv, AloneInv, CopyInv
  <2>2. CASE slug[q] = name[h]
    <3>1. q = prog[h]
      BY <1>1, <1>2, <2>1, <2>2 DEF IInv, RowsInv
    <3> QED  BY <1>0, <1>1, <1>2, <2>1, <2>2, <3>1 DEF Settled, PathType
  <2>3. CASE slug[q] # name[h]
    BY <1>0, <1>2, <2>3 DEF PathType, RowsType
  <2> QED  BY <2>2, <2>3
<1> QED  BY <1>0, <1>1, <1>2 DEF PathType

LEMMA UpsertKeeps ==
    ASSUME IInv, NEW h \in Workers, Upsert(h)
    PROVE  IInv'
<1> USE DEF Upsert
<1>0. RowsType /\ RelayType /\ CallType /\ SyncType /\ PathType /\ GhostType
  BY TypeParts DEF IInv
<1>1. prog[h] \in left[h] /\ name[h] \in Slugs /\ prog[h] \in Programs
  BY <1>0 DEF IInv, PlaceInv, CallType
<1>2. TypeOK'
  <2>1. CallType'
    BY <1>0 DEF CallType, Points
  <2> QED  BY <1>0, <2>1, TypePartsAfter, UpsertKeepsPath
           DEF RowsType, RelayType, SyncType, GhostType, rows, relays, sync, ghost
<1>3. Elsewhere(h)
  BY <1>0 DEF Elsewhere, CallType, sync
<1>4. at'[h] = "reconcile"
  BY <1>0 DEF CallType
<1>5. PlaceInv(h)'
  BY <1>1, <1>4 DEF PlaceInv, sync
<1>6. ASSUME alone
      PROVE  CopyInv(h)'
  <2>1. CopyInv(h)
    BY <1>6 DEF IInv, AloneInv
  <2>2. /\ {Address(d) : d \in Wanted(prog[h])}' = {Address(d) : d \in Wanted(prog[h])}
        /\ {<<d, row[d].url>> : d \in Listed(prog[h])}' = {<<d, row[d].url>> : d \in Listed(prog[h])}
    BY DEF Wanted, Address, Listed, rows, sync
  <2>3. path'[name'[h]] = body'[h]
    BY UpsertKeepsPath DEF sync
  <2> QED  BY <1>4, <2>1, <2>2, <2>3 DEF CopyInv, rows, sync
<1>7. RelayInv'
  BY DEF IInv, RelayInv, RelayIsReachable, EntryIsLive, relays
<1>8. SettledInv'
  <2>1. \A q \in Programs \ unsure : slug[q] # None => (Settled(q) => Settled(q)')
    <3>1. SUFFICES ASSUME NEW q \in Programs \ unsure, slug[q] # None, Settled(q)
                   PROVE  Settled(q)'
      OBVIOUS
    <3>2. alone
      BY <3>1 DEF IInv, AloneInv
    <3>3. path'[slug[q]] = path[slug[q]]
      BY <3>1, <3>2, UpsertKeepsPath
    <3> QED  BY <3>1, <3>3, SettledFrame DEF relays, rows
  <2>2. \A q \in Programs : Holds(h, q) => Holds(h, q)'
    BY DEF Holds
  <2>3. unsure' = unsure
    BY DEF ghost
  <2> QED  BY <1>3, <2>1, <2>2, <2>3, SettledStep DEF rows
<1> QED  BY <1>2, <1>3, <1>5, <1>6, <1>7, <1>8, WorkerFrame DEF IInv, AloneInv, Idle, ghost, rows

LEMMA UpsertLostKeeps ==
    ASSUME IInv, NEW h \in Workers, UpsertLost(h)
    PROVE  IInv'
<1>1. at[h] = "upsert" /\ prog[h] \in left[h] /\ AttemptFails(h, prog[h])
  BY DEF UpsertLost, IInv, PlaceInv
<1>2. CASE path' = path
  BY <1>1, <1>2, AttemptFailsKeeps, TypeParts DEF IInv, PathType
<1>3. CASE path' = [path EXCEPT ![name[h]] = body[h]]
  BY <1>1, <1>3, AttemptFailsKeeps, UpsertKeepsPath
<1> QED  BY <1>2, <1>3 DEF UpsertLost

(* The browser is gone: what was left to synchronise is not, and known.    *)
LEMMA HangUpKeeps ==
    ASSUME IInv, NEW h \in Handlers, HangUp(h)
    PROVE  IInv'
<1> USE DEF HangUp, Leave, Then, Forget
<1>0. RowsType /\ RelayType /\ CallType /\ SyncType /\ PathType /\ GhostType /\ h \in Workers
  BY TypeParts DEF IInv, Workers
<1>1. TypeOK'
  <2>1. CallType'
    BY <1>0 DEF CallType, Points
  <2>2. SyncType'
    BY <1>0 DEF SyncType
  <2>3. GhostType'
    BY <1>0 DEF GhostType, CallType
  <2> QED  BY <1>0, <2>1, <2>2, <2>3, TypePartsAfter DEF RowsType, RelayType, PathType, rows, relays
<1>2. Elsewhere(h)
  BY <1>0 DEF Elsewhere, CallType, SyncType
<1>3. at'[h] = "idle" /\ left'[h] = {}
  BY <1>0 DEF CallType
<1>4. PlaceInv(h)' /\ CopyInv(h)'
  BY <1>3 DEF PlaceInv, CopyInv
<1>5. RelayInv'
  BY DEF IInv, RelayInv, RelayIsReachable, EntryIsLive, relays
<1>6. SettledInv'
  <2>1. \A q \in Programs : Settled(q) => Settled(q)'
    BY SettledFrame DEF relays, rows
  <2>2. \A q \in Programs \ unsure' : ~Holds(h, q)
    BY DEF Holds
  <2> QED  BY <1>0, <1>2, <2>1, <2>2, SettledStep DEF rows
<1>7. ~alone => unsure' = Programs
  BY <1>0 DEF IInv, AloneInv, GhostType, CallType
<1> QED  BY <1>0, <1>1, <1>2, <1>4, <1>5, <1>6, <1>7, WorkerFrame DEF Idle, rows

-----------------------------------------------------------------------------
(* reconcileFFmpegRelays.                                                  *)

(* A key is only wanted by the program that is synchronised, its run has a *)
(* place and its destination is an address.                                *)
LEMMA StartsIsSound ==
    ASSUME IInv, NEW h \in Workers, Reconcile(h), NEW k \in Keyed, Starts(h, k)
    PROVE  /\ k[1] = prog[h]
           /\ FreshRun(k) \in 1 .. MaxRuns /\ run[k][FreshRun(k)] = NoRun
           /\ DestOf(h, k) \in Addresses
<1>0. RowsType /\ SyncType
  BY TypeParts DEF IInv
<1>1. PICK e \in seen[h] : k = <<prog[h], e[1]>> /\ e[2] \in Queries /\ row[e[1]] # None
  BY DEF Starts, Desired
<1>2. \E n \in 1 .. MaxRuns : IsFresh(k, n)
  BY DEF Reconcile
<1>3. FreshRun(k) \in 1 .. MaxRuns /\ run[k][FreshRun(k)] = NoRun
  BY <1>2 DEF FreshRun, IsFresh
<1>4. DestOf(h, k) \in Addresses
  <2> DEFINE x == CHOOSE y \in seen[h] : y[1] = k[2]
  <2>1. k[2] = e[1] /\ e[1] \in Destinations
    BY <1>0, <1>1 DEF SyncType
  <2>2. x \in seen[h]
    BY <1>1, <2>1
  <2>3. x[2] \in Urls
    BY <1>0, <2>2 DEF SyncType
  <2>4. row[k[2]] \in Rows
    BY <1>0, <1>1, <2>1 DEF RowsType
  <2>5. row[k[2]].key \in Keys
    BY <2>4, ForwardingAssumption
  <2>6. DestOf(h, k) = <<x[2], row[k[2]].key>>
    BY DEF DestOf
  <2> QED  BY <2>3, <2>5, <2>6 DEF Addresses
<1> QED  BY <1>1, <1>3, <1>4

LEMMA RelayAdapts ==
    ASSUME IInv, NEW h \in Workers, Reconcile(h), NEW k \in Keyed
    PROVE  \/ Starts(h, k) /\ relay'[k] = [n |-> FreshRun(k), dest |-> DestOf(h, k)]
           \/ ~Starts(h, k) /\ Cancels(h, k) /\ relay'[k] = NoRelay
           \/ ~Starts(h, k) /\ ~Cancels(h, k) /\ relay'[k] = relay[k]
<1>1. relay'[k] = AdaptRelay(h, k)
  BY DEF Reconcile
<1> QED  BY <1>1 DEF AdaptRelay

(* An entry that is cancelled has a goroutine, so its place is not free    *)
(* for the one that replaces it.                                           *)
LEMMA RunAdapts ==
    ASSUME IInv, NEW h \in Workers, Reconcile(h), NEW k \in Keyed, NEW n \in 1 .. MaxRuns
    PROVE  \/ Cancelled(h, k, n) /\ run'[k][n] = [run[k][n] EXCEPT !.live = FALSE]
           \/ /\ Starts(h, k) /\ n = FreshRun(k)
              /\ run'[k][n] = [at |-> "pushing", slug |-> name[h], dest |-> DestOf(h, k),
                               live |-> TRUE]
           \/ /\ ~Cancelled(h, k, n) /\ ~(Starts(h, k) /\ n = FreshRun(k))
              /\ run'[k][n] = run[k][n]
<1>1. run'[k][n] = AdaptRun(h, k, n)
  BY DEF Reconcile
<1>2. Cancelled(h, k, n) => ~(Starts(h, k) /\ n = FreshRun(k))
  <2>1. Cancelled(h, k, n) => run[k][n].live
    BY DEF Cancelled, Cancels, IInv, RelayInv, EntryIsLive
  <2>2. Starts(h, k) /\ n = FreshRun(k) => ~run[k][n].live
    BY StartsIsSound DEF NoRun
  <2> QED  BY <2>1, <2>2
<1> QED  BY <1>1, <1>2 DEF AdaptRun

LEMMA ReconcileKeepsTypes ==
    ASSUME IInv, NEW h \in Workers, Reconcile(h)
    PROVE  RelayType'
<1>0. RelayType /\ name[h] \in Slugs
  BY TypeParts DEF IInv, PlaceInv, Reconcile
<1>1. ASSUME NEW k \in Keyed
      PROVE  relay'[k] \in [n : 1 .. MaxRuns, dest : Addresses] \cup {NoRelay}
  <2>1. relay[k] \in [n : 1 .. MaxRuns, dest : Addresses] \cup {NoRelay}
    BY <1>0 DEF RelayType
  <2>2. CASE Starts(h, k) /\ relay'[k] = [n |-> FreshRun(k), dest |-> DestOf(h, k)]
    <3>1. FreshRun(k) \in 1 .. MaxRuns /\ DestOf(h, k) \in Addresses
      BY <2>2, StartsIsSound
    <3> QED  BY <2>2, <3>1
  <2> QED  BY <2>1, <2>2, RelayAdapts
<1>2. ASSUME NEW k \in Keyed, NEW n \in 1 .. MaxRuns
      PROVE  run'[k][n] \in Runs \cup {NoRun}
  <2>1. run[k][n] \in Runs \cup {NoRun}
    BY <1>0 DEF RelayType
  <2>2. CASE Cancelled(h, k, n) /\ run'[k][n] = [run[k][n] EXCEPT !.live = FALSE]
    <3>1. CASE run[k][n] \in Runs
      BY <2>2, <3>1 DEF Runs
    <3>2. CASE run[k][n] = NoRun
      <4>1. Cancelled(h, k, n) => run[k][n].live
        BY DEF Cancelled, Cancels, IInv, RelayInv, EntryIsLive
      <4> QED  BY <2>2, <3>2, <4>1 DEF NoRun
    <3> QED  BY <2>1, <3>1, <3>2
  <2>3. CASE /\ Starts(h, k) /\ n = FreshRun(k)
             /\ run'[k][n] = [at |-> "pushing", slug |-> name[h], dest |-> DestOf(h, k),
                              live |-> TRUE]
    BY <1>0, <2>3, StartsIsSound DEF Runs
  <2> QED  BY <2>1, <2>2, <2>3, RunAdapts
<1>3. relay' = [k \in Keyed |-> relay'[k]]
  BY DEF Reconcile
<1>4. run' = [k \in Keyed |-> [n \in 1 .. MaxRuns |-> run'[k][n]]]
  BY DEF Reconcile
<1>5. relay' \in [Keyed -> [n : 1 .. MaxRuns, dest : Addresses] \cup {NoRelay}]
  BY <1>1, <1>3
<1>6. run' \in [Keyed -> [1 .. MaxRuns -> Runs \cup {NoRun}]]
  BY <1>2, <1>4
<1> QED  BY <1>5, <1>6 DEF RelayType

LEMMA ReconcileKeepsRelays ==
    ASSUME IInv, NEW h \in Workers, Reconcile(h)
    PROVE  RelayInv'
<1>0. RelayType
  BY TypeParts DEF IInv
<1>1. ASSUME NEW k \in Keyed, NEW n \in 1 .. MaxRuns, run'[k][n].live
      PROVE  relay'[k].n = n /\ relay'[k].dest = run'[k][n].dest
  <2>1. CASE Cancelled(h, k, n) /\ run'[k][n] = [run[k][n] EXCEPT !.live = FALSE]
    <3>1. run[k][n] \in Runs \cup {NoRun}
      BY <1>0 DEF RelayType
    <3> QED  BY <1>1, <2>1, <3>1 DEF Runs, NoRun
  <2>2. CASE /\ Starts(h, k) /\ n = FreshRun(k)
             /\ run'[k][n] = [at |-> "pushing", slug |-> name[h], dest |-> DestOf(h, k),
                              live |-> TRUE]
    <3>1. relay'[k] = [n |-> FreshRun(k), dest |-> DestOf(h, k)]
      BY <2>2, RelayAdapts
    <3> QED  BY <2>2, <3>1
  <2>3. CASE /\ ~Cancelled(h, k, n) /\ ~(Starts(h, k) /\ n = FreshRun(k))
             /\ run'[k][n] = run[k][n]
    <3>1. relay[k].n = n /\ relay[k].dest = run[k][n].dest
      BY <1>1, <2>3 DEF IInv, RelayInv, RelayIsReachable
    <3>2. ~Cancels(h, k) /\ relay[k] # NoRelay
      BY <2>3, <3>1 DEF Cancelled, NoRelay
    <3>3. ~Starts(h, k)
      BY <3>2, StartsIsSound DEF Cancels, Starts
    <3> QED  BY <2>3, <3>1, <3>2, <3>3, RelayAdapts
  <2> QED  BY <2>1, <2>2, <2>3, RunAdapts
<1>2. ASSUME NEW k \in Keyed, relay'[k] # NoRelay
      PROVE  run'[k][relay'[k].n].live
  <2>1. CASE Starts(h, k) /\ relay'[k] = [n |-> FreshRun(k), dest |-> DestOf(h, k)]
    <3>1. FreshRun(k) \in 1 .. MaxRuns /\ run[k][FreshRun(k)] = NoRun
      BY <2>1, StartsIsSound
    <3>2. ~Cancelled(h, k, FreshRun(k))
      <4>1. Cancelled(h, k, FreshRun(k)) => run[k][FreshRun(k)].live
        BY DEF Cancelled, Cancels, IInv, RelayInv, EntryIsLive
      <4>2. ~NoRun.live
        BY DEF NoRun
      <4> QED  BY <3>1, <4>1, <4>2
    <3>3. run'[k][FreshRun(k)].live
      <4> DEFINE n == FreshRun(k)
      <4>1. n \in 1 .. MaxRuns /\ ~Cancelled(h, k, n) /\ Starts(h, k) /\ n = FreshRun(k)
        BY <2>1, <3>1, <3>2
      <4> HIDE DEF n
      <4>2. run'[k][n] = [at |-> "pushing", slug |-> name[h], dest |-> DestOf(h, k), live |-> TRUE]
        BY <4>1, RunAdapts
      <4>3. run'[k][n].live
        BY <4>2
      <4> QED  BY <4>3 DEF n
    <3> QED  BY <2>1, <3>3
  <2>2. CASE ~Starts(h, k) /\ ~Cancels(h, k) /\ relay'[k] = relay[k]
    <3>1. relay[k].n \in 1 .. MaxRuns /\ run[k][relay[k].n].live
      BY <1>0, <1>2, <2>2 DEF RelayType, IInv, RelayInv, EntryIsLive
    <3> QED  BY <2>2, <3>1, RunAdapts DEF Cancelled
  <2> QED  BY <1>2, <2>1, <2>2, RelayAdapts
<1> QED  BY <1>1, <1>2 DEF RelayInv, RelayIsReachable, EntryIsLive

(* Alone, a reconciliation leaves the program as the rows want it ...      *)
LEMMA ReconcileSettles ==
    ASSUME IInv, NEW h \in Workers, Reconcile(h), alone, NEW p \in Programs, p = prog[h]
    PROVE  Settled(p)'
<1>0. RowsType /\ RelayType /\ CallType
  BY TypeParts DEF IInv
<1>1. /\ name[h] = slug[p] /\ path[name[h]] = body[h]
      /\ seen[h] = {<<d, row[d].url>> : d \in Listed(p)}
      /\ body[h] = {Address(d) : d \in Wanted(p)}
  BY DEF IInv, AloneInv, CopyInv, Reconcile
<1>2. UNCHANGED <<rows, path>>
  BY DEF Reconcile
<1>3. ASSUME NEW d \in Destinations
      PROVE  relay'[<<p, d>>].dest = IF d \in WantedRelays(p) THEN Address(d) ELSE None
  <2> DEFINE k == <<p, d>>
  <2>0. k \in Keyed /\ k[1] = prog[h] /\ k[2] = d
    BY <1>0 DEF Keyed
  <2> HIDE DEF k
  <2>1. CASE d \in WantedRelays(p)
    <3>1. d \in Listed(p) /\ row[d].url \in Queries /\ row[d] # None
      BY <1>0, <2>1 DEF WantedRelays, Wanted, Listed, IInv, RowsInv
    <3>2. <<d, row[d].url>> \in seen[h]
      BY <1>1, <3>1
    <3>3. k \in Desired(h)
      BY <3>1, <3>2 DEF Desired, k
    <3>4. DestOf(h, k) = Address(d)
      <4>1. \A x \in seen[h] : x[1] = d => x = <<d, row[d].url>>
        BY <1>1
      <4> DEFINE c == CHOOSE x \in seen[h] : x[1] = k[2]
      <4>2. c = <<d, row[d].url>>
        BY <2>0, <3>2, <4>1
      <4>3. DestOf(h, k) = <<c[2], row[k[2]].key>>
        BY DEF DestOf
      <4> HIDE DEF c
      <4> QED  BY <2>0, <4>2, <4>3 DEF Address
    <3>5. CASE Starts(h, k)
      <4>1. relay'[k] = [n |-> FreshRun(k), dest |-> DestOf(h, k)]
        BY <2>0, <3>5, RelayAdapts
      <4>2. relay'[k].dest = DestOf(h, k)
        BY <4>1
      <4> QED  BY <2>1, <3>4, <4>2 DEF k
    <3>6. CASE ~Starts(h, k)
      <4>1. Stays(h, k) /\ ~Cancels(h, k)
        BY <3>3, <3>6 DEF Starts, Cancels
      <4>2. relay'[k] = relay[k]
        BY <2>0, <3>6, <4>1, RelayAdapts
      <4> QED  BY <2>1, <3>4, <4>1, <4>2 DEF Stays, k
    <3> QED  BY <3>5, <3>6
  <2>2. CASE d \notin WantedRelays(p)
    <3>1. k \notin Desired(h)
      <4>1. SUFFICES ASSUME NEW e \in seen[h], e[2] \in Queries, k = <<prog[h], e[1]>>
                     PROVE  FALSE
        BY DEF Desired
      <4>2. e[1] = d
        BY <2>0, <4>1 DEF k
      <4>3. PICK x \in Listed(p) : e = <<x, row[x].url>>
        BY <1>1
      <4>4. x = d /\ row[d].url \in Queries
        BY <4>1, <4>2, <4>3
      <4> QED  BY <2>2, <4>3, <4>4 DEF WantedRelays, Wanted
    <3>2. ~Starts(h, k) /\ ~Stays(h, k)
      BY <3>1 DEF Starts, Stays
    <3>3. relay'[k] = NoRelay
      BY <2>0, <3>2, RelayAdapts DEF Cancels
    <3> QED  BY <2>2, <3>3 DEF NoRelay, k
  <2> QED  BY <2>1, <2>2 DEF k
<1>4. /\ Wanted(p)' = Wanted(p) /\ WantedRelays(p)' = WantedRelays(p)
      /\ \A d \in Destinations : Address(d)' = Address(d)
  BY <1>2 DEF Wanted, WantedRelays, Listed, Address, rows
<1>5. {Address(d) : d \in Wanted(p)}' = {Address(d) : d \in Wanted(p)}
  BY <1>2, <1>4 DEF Address, rows
<1> QED  BY <1>1, <1>2, <1>3, <1>4, <1>5 DEF Settled, rows

(* ... and no other program's relays are touched.                          *)
LEMMA ReconcileKeepsOthers ==
    ASSUME IInv, NEW h \in Workers, Reconcile(h), NEW q \in Programs, q # prog[h], Settled(q)
    PROVE  Settled(q)'
<1>1. ASSUME NEW d \in Destinations
      PROVE  relay'[<<q, d>>] = relay[<<q, d>>]
  <2>1. <<q, d>> \in Keyed
    BY DEF Keyed
  <2>2. ~Starts(h, <<q, d>>) /\ ~Cancels(h, <<q, d>>)
    BY <2>1, StartsIsSound DEF Cancels
  <2> QED  BY <2>1, <2>2, RelayAdapts
<1> QED  BY <1>1, SettledFrame DEF Reconcile, rows

LEMMA ReconcileKeeps ==
    ASSUME IInv, NEW h \in Workers, Reconcile(h)
    PROVE  IInv'
<1>0. RowsType /\ RelayType /\ CallType /\ SyncType /\ PathType /\ GhostType
  BY TypeParts DEF IInv
<1>a. /\ at[h] = "reconcile" /\ prog[h] \in left[h]
      /\ at' = [at EXCEPT ![h] = "syncing"]
      /\ left' = [left EXCEPT ![h] = @ \ {prog[h]}]
      /\ tries' = IF h = Boot THEN tries ELSE [tries EXCEPT ![h] = MaxAttempts]
      /\ unsure' = IF alone THEN unsure \ {prog[h]} ELSE unsure
      /\ Forget(h)
      /\ UNCHANGED <<rows, path, item, alone, requests>>
  BY DEF Reconcile, IInv, PlaceInv
<1>1. TypeOK'
  <2>1. CallType'
    <3>1. tries' \in [Workers -> Nat]
      BY <1>0, <1>a, ForwardingAssumption DEF CallType
    <3> QED  BY <1>0, <1>a, <3>1 DEF CallType, Points
  <2>2. SyncType'
    BY <1>0, <1>a DEF SyncType, Forget
  <2>3. GhostType'
    BY <1>0, <1>a DEF GhostType
  <2> QED  BY <1>0, <1>a, <2>1, <2>2, <2>3, ReconcileKeepsTypes, TypePartsAfter
           DEF RowsType, PathType, rows
<1>2. Elsewhere(h)
  BY <1>0, <1>a DEF Elsewhere, CallType, SyncType, Forget
<1>3. at'[h] = "syncing" /\ left'[h] = left[h] \ {prog[h]}
  BY <1>0, <1>a DEF CallType
<1>4. PlaceInv(h)' /\ CopyInv(h)'
  BY <1>3 DEF PlaceInv, CopyInv
<1>5. SettledInv'
  <2>1. SUFFICES ASSUME NEW q \in Programs \ unsure', slug[q] # None
                 PROVE  \/ Settled(q)'
                        \/ Holds(h, q)'
                        \/ q \notin unsure /\ (Settled(q) => Settled(q)') /\ ~Holds(h, q)
    BY <1>2, <1>a, SettledStep DEF rows
  <2>2. alone
    BY <1>a, <2>1 DEF IInv, AloneInv
  <2>3. CASE q = prog[h]
    BY <2>2, <2>3, ReconcileSettles
  <2>4. CASE q # prog[h]
    <3>1. q \notin unsure
      BY <1>a, <2>1, <2>4
    <3>2. Holds(h, q) => Holds(h, q)'
      BY <1>3, <1>a, <2>4 DEF Holds
    <3> QED  BY <2>4, <3>1, <3>2, ReconcileKeepsOthers
  <2> QED  BY <2>3, <2>4
<1> QED  BY <1>1, <1>2, <1>4, <1>5, <1>a, ReconcileKeepsRelays, WorkerFrame
         DEF IInv, AloneInv, Idle

-----------------------------------------------------------------------------
(* Requests.                                                               *)

(* What a program is settled to depends on its own slug, its bindings and  *)
(* the rows it is bound to.                                                *)
LEMMA ViewFrame ==
    ASSUME NEW q \in Programs, slug'[q] = slug[q], path' = path, relay' = relay,
           \A d \in Destinations : /\ bound'[<<q, d>>] = bound[<<q, d>>]
                                   /\ bound[<<q, d>>] = "on" => row'[d] = row[d],
           Settled(q)
    PROVE  Settled(q)'
<1>1. \A d \in Destinations : d \in Listed(q)' <=> d \in Listed(q)
  BY DEF Listed
<1>2. Listed(q)' = Listed(q)
  BY <1>1 DEF Listed
<1>3. \A d \in Listed(q) : d \in Destinations /\ row'[d] = row[d] /\ Address(d)' = Address(d)
  BY DEF Listed, Address
<1>4. Wanted(q)' = Wanted(q) /\ WantedRelays(q)' = WantedRelays(q)
  BY <1>2, <1>3 DEF Wanted, WantedRelays
<1>5. {Address(d) : d \in Wanted(q)}' = {Address(d) : d \in Wanted(q)}
  <2>1. {Address(d) : d \in Wanted(q)}' = {Address(d)' : d \in Wanted(q)}
    BY <1>4 DEF Address
  <2>2. \A d \in Wanted(q) : Address(d)' = Address(d)
    BY <1>3 DEF Wanted
  <2> QED  BY <2>1, <2>2
<1>6. \A d \in WantedRelays(q) : Address(d)' = Address(d)
  BY <1>3 DEF WantedRelays
<1>7. path'[slug'[q]] = {Address(d) : d \in Wanted(q)}'
  BY <1>5 DEF Settled
<1>8. ASSUME NEW d \in Destinations
      PROVE  relay'[<<q, d>>].dest = IF d \in WantedRelays(q)' THEN Address(d)' ELSE None
  BY <1>4, <1>6 DEF Settled
<1> QED  BY <1>7, <1>8 DEF Settled

AllIdle == \A x \in Workers : Idle(x)

LEMMA RequestFrame ==
    ASSUME IInv, NEW h \in Handlers, Arrive(h),
           RowsType', CallType', RowsInv', PlaceInv(h)',
           \A g \in Workers \ {h} : at'[g] = at[g] /\ item'[g] = item[g] /\ left'[g] = left[g],
           AllIdle => CopyInv(h)',
           \A p \in Programs \ unsure : slug'[p] # None =>
               \/ slug[p] # None /\ (Settled(p) => Settled(p)')
               \/ Holds(h, p)'
    PROVE  IInv'
<1>0. RowsType /\ RelayType /\ CallType /\ SyncType /\ PathType /\ GhostType /\ h \in Workers
  BY TypeParts DEF IInv, Workers
<1>a. /\ Idle(h) /\ requests < MaxRequests /\ requests' = requests + 1
      /\ IF AllIdle THEN alone' = TRUE /\ UNCHANGED unsure
                    ELSE alone' = FALSE /\ unsure' = Programs
      /\ UNCHANGED <<path, relay, run, prog, seen, name, body>>
  BY DEF Arrive, AllIdle, relays, sync
<1>1. TypeOK'
  <2>1. GhostType'
    <3>1. requests' \in 0 .. MaxRequests
      BY <1>0, <1>a, ForwardingAssumption DEF GhostType
    <3>2. CASE AllIdle
      BY <1>0, <1>a, <3>1, <3>2 DEF GhostType
    <3>3. CASE ~AllIdle
      BY <1>a, <3>1, <3>3 DEF GhostType
    <3> QED  BY <3>2, <3>3
  <2> QED  BY <1>0, <1>a, <2>1, TypePartsAfter DEF RelayType, SyncType, PathType
<1>2. \A g \in Workers : PlaceInv(g)'
  BY <1>a DEF IInv, PlaceInv
<1>3. RelayInv'
  BY <1>a DEF IInv, RelayInv, RelayIsReachable, EntryIsLive
<1>4. ASSUME AllIdle, NEW g \in Workers \ {h}
      PROVE  at'[g] = "idle"
  BY <1>4 DEF AllIdle, Idle
<1>5. AloneInv'
  <2>1. CASE AllIdle
    <3>1. \A g \in Workers : CopyInv(g)'
      BY <1>4, <2>1 DEF CopyInv
    <3> QED  BY <1>a, <1>4, <2>1, <3>1 DEF AloneInv, Idle
  <2>2. CASE ~AllIdle
    BY <1>a, <2>2 DEF AloneInv
  <2> QED  BY <2>1, <2>2
<1>6. SettledInv'
  <2>1. SUFFICES ASSUME NEW p \in Programs \ unsure', slug'[p] # None
                 PROVE  Settled(p)' \/ Pending(p)'
    BY DEF SettledInv
  <2>2. AllIdle /\ p \in Programs \ unsure
    BY <1>a, <2>1
  <2>3. CASE slug[p] # None /\ (Settled(p) => Settled(p)')
    <3>1. ~Pending(p)
      BY <2>2 DEF Pending, AllIdle, Idle, IInv, PlaceInv, Workers
    <3> QED  BY <2>2, <2>3, <3>1 DEF IInv, SettledInv
  <2>4. CASE Holds(h, p)'
    BY <2>4 DEF Holds, Pending
  <2> QED  BY <2>1, <2>2, <2>3, <2>4
<1> QED  BY <1>1, <1>2, <1>3, <1>5, <1>6 DEF IInv

LEMMA ThenFacts ==
    ASSUME CallType, NEW h \in Workers, NEW p \in Points, NEW n \in Nat,
           NEW x \in Destinations \cup Slugs \cup {None}, NEW todo \in SUBSET Programs,
           Then(h, p, x, todo, n)
    PROVE  /\ CallType'
           /\ at'[h] = p /\ item'[h] = x /\ left'[h] = todo
           /\ \A g \in Workers \ {h} : at'[g] = at[g] /\ item'[g] = item[g] /\ left'[g] = left[g]
BY DEF CallType, Then

(* The requests that write one row of program_destination.                 *)
LEMMA BindingKeeps ==
    ASSUME IInv, NEW h \in Handlers, Arrive(h), NEW p \in Programs, NEW d \in Destinations,
           NEW to \in {"none", "off", "on"}, bound' = [bound EXCEPT ![<<p, d>>] = to],
           to # "none" => slug[p] # None /\ row[d] # None,
           UNCHANGED <<slug, row, unused>>, NEW n \in Nat, Then(h, "syncing", None, {p}, n)
    PROVE  IInv'
<1>0. RowsType /\ CallType /\ h \in Workers
  BY TypeParts DEF IInv, Workers
<1>1. RowsType'
  BY <1>0 DEF RowsType
<1>2. \A q \in Programs, e \in Destinations :
          bound'[<<q, e>>] = IF q = p /\ e = d THEN to ELSE bound[<<q, e>>]
  <2>1. \A q \in Programs, e \in Destinations : <<q, e>> \in Keyed
    BY DEF Keyed
  <2> QED  BY <1>0, <2>1 DEF RowsType
<1>3. RowsInv'
  BY <1>2 DEF IInv, RowsInv
<1>4. /\ CallType' /\ at'[h] = "syncing" /\ left'[h] = {p}
      /\ \A g \in Workers \ {h} : at'[g] = at[g] /\ item'[g] = item[g] /\ left'[g] = left[g]
  <2>1. "syncing" \in Points /\ {p} \in SUBSET Programs
    BY DEF Points
  <2> QED  BY <1>0, <2>1, ThenFacts
<1>5. PlaceInv(h)' /\ CopyInv(h)'
  BY <1>4 DEF PlaceInv, CopyInv
<1>6. ASSUME NEW q \in Programs \ unsure, slug'[q] # None
      PROVE  (slug[q] # None /\ (Settled(q) => Settled(q)')) \/ Holds(h, q)'
  <2>1. CASE q = p
    BY <1>4, <2>1 DEF Holds
  <2>2. CASE q # p
    <3>1. \A e \in Destinations : bound'[<<q, e>>] = bound[<<q, e>>]
      BY <1>2, <2>2
    <3> QED  BY <1>6, <3>1, ViewFrame DEF Arrive, relays
  <2> QED  BY <2>1, <2>2
<1> QED  BY <1>1, <1>3, <1>4, <1>5, <1>6, RequestFrame

LEMMA BindKeeps ==
    ASSUME IInv, NEW h \in Handlers, Bind(h) \/ SwitchBinding(h) \/ Unbind(h)
    PROVE  IInv'
<1>0. bound \in [Keyed -> {"none", "off", "on"}] /\ MaxAttempts \in Nat
  BY ForwardingAssumption DEF IInv, TypeOK
<1>1. CASE Bind(h)
  BY <1>0, <1>1, BindingKeeps DEF Bind, SyncWithRetry
<1>2. CASE Unbind(h)
  BY <1>2, BindingKeeps DEF Unbind, SyncOnce
<1>3. CASE SwitchBinding(h)
  <2>1. PICK p \in Programs, d \in Destinations, to \in {"off", "on"} :
          /\ Arrive(h)
          /\ bound' = [bound EXCEPT ![<<p, d>>] = IF @ = "none" THEN @ ELSE to]
          /\ SyncWithRetry(h, {p})
          /\ UNCHANGED <<slug, row, unused>>
    BY <1>3 DEF SwitchBinding
  <2> DEFINE new == IF bound[<<p, d>>] = "none" THEN "none" ELSE to
  <2>2. new \in {"none", "off", "on"} /\ bound' = [bound EXCEPT ![<<p, d>>] = new]
    BY <2>1
  <2>3. new # "none" => slug[p] # None /\ row[d] # None
    BY DEF IInv, RowsInv
  <2> HIDE DEF new
  <2> QED  BY <1>0, <2>1, <2>2, <2>3, BindingKeeps DEF SyncWithRetry
<1> QED  BY <1>1, <1>2, <1>3

LEMMA CreateDestinationKeeps ==
    ASSUME IInv, NEW h \in Handlers, CreateDestination(h)
    PROVE  IInv'
<1>0. RowsType /\ CallType /\ h \in Workers
  BY TypeParts DEF IInv, Workers
<1>1. PICK d \in unused \cap Destinations, new \in Rows :
        /\ Arrive(h)
        /\ row' = [row EXCEPT ![d] = new] /\ unused' = unused \ {d}
        /\ UNCHANGED <<slug, bound, at, item, left, tries>>
  BY DEF CreateDestination
<1>2. row[d] = None /\ \A q \in Programs : bound[<<q, d>>] = "none"
  BY DEF IInv, RowsInv
<1>3. RowsType' /\ CallType'
  BY <1>0, <1>1 DEF RowsType, CallType
<1>4. \A e \in Destinations : row'[e] = IF e = d THEN new ELSE row[e]
  BY <1>0, <1>1 DEF RowsType
<1>5. RowsInv'
  <2>1. new # None /\ None \notin Destinations
    BY ForwardingAssumption
  <2>2. \A p, q \in Programs : slug'[p] = slug'[q] /\ slug'[p] # None => p = q
    BY <1>1 DEF IInv, RowsInv
  <2>3. \A p \in Programs : p \in unused' => slug'[p] = None
    BY <1>1 DEF IInv, RowsInv
  <2>4. \A e \in Destinations : e \in unused' => row'[e] = None
    BY <1>1, <1>4 DEF IInv, RowsInv
  <2>5. \A p \in Programs, e \in Destinations :
            bound'[<<p, e>>] # "none" => slug'[p] # None /\ row'[e] # None
    BY <1>1, <1>4, <2>1 DEF IInv, RowsInv
  <2> QED  BY <2>2, <2>3, <2>4, <2>5 DEF RowsInv
<1>6. PlaceInv(h)' /\ CopyInv(h)'
  BY <1>0, <1>1 DEF IInv, PlaceInv, CopyInv, Arrive, Idle, sync
<1>7. ASSUME NEW q \in Programs \ unsure, slug'[q] # None
      PROVE  slug[q] # None /\ (Settled(q) => Settled(q)')
  <2>1. \A e \in Destinations : bound[<<q, e>>] = "on" => row'[e] = row[e]
    BY <1>2, <1>4
  <2> QED  BY <1>1, <1>7, <2>1, ViewFrame DEF Arrive, relays
<1> QED  BY <1>1, <1>3, <1>5, <1>6, <1>7, RequestFrame

LEMMA PatchDestinationKeeps ==
    ASSUME IInv, NEW h \in Handlers, PatchDestination(h)
    PROVE  IInv'
<1>0. RowsType /\ CallType /\ h \in Workers /\ h # Boot
  BY TypeParts, ForwardingAssumption DEF IInv, Workers
<1>1. PICK d \in Destinations, new \in Rows :
        /\ Arrive(h)
        /\ row[d] # None
        /\ row' = [row EXCEPT ![d] = new]
        /\ Then(h, "listing", d, {}, MaxAttempts)
        /\ UNCHANGED <<slug, bound, unused>>
  BY DEF PatchDestination
<1>2. \A e \in Destinations : row'[e] = IF e = d THEN new ELSE row[e]
  BY <1>0, <1>1 DEF RowsType
<1>3. RowsType' /\ RowsInv'
  <2>1. new # None
    BY ForwardingAssumption
  <2> QED  BY <1>0, <1>1, <1>2, <2>1 DEF RowsType, IInv, RowsInv
<1>4. /\ CallType' /\ at'[h] = "listing" /\ item'[h] = d /\ left'[h] = {}
      /\ \A g \in Workers \ {h} : at'[g] = at[g] /\ item'[g] = item[g] /\ left'[g] = left[g]
  <2>1. "listing" \in Points /\ MaxAttempts \in Nat
    BY ForwardingAssumption DEF Points
  <2> QED  BY <1>0, <1>1, <2>1, ThenFacts
<1>5. PlaceInv(h)' /\ CopyInv(h)'
  BY <1>4 DEF PlaceInv, CopyInv
<1>6. ASSUME NEW q \in Programs \ unsure, slug'[q] # None
      PROVE  (slug[q] # None /\ (Settled(q) => Settled(q)')) \/ Holds(h, q)'
  <2>1. CASE bound[<<q, d>>] # "none"
    BY <1>1, <1>4, <2>1 DEF Holds, BoundTo
  <2>2. CASE bound[<<q, d>>] = "none"
    <3>1. \A e \in Destinations : bound[<<q, e>>] = "on" => row'[e] = row[e]
      BY <1>2, <2>2
    <3> QED  BY <1>1, <1>6, <3>1, ViewFrame DEF Arrive, relays
  <2> QED  BY <2>1, <2>2
<1> QED  BY <1>1, <1>3, <1>4, <1>5, <1>6, RequestFrame

LEMMA DeleteDestinationKeeps ==
    ASSUME IInv, NEW h \in Handlers, DeleteDestination(h)
    PROVE  IInv'
<1>0. RowsType /\ CallType /\ h \in Workers /\ h # Boot
  BY TypeParts, ForwardingAssumption DEF IInv, Workers
<1>1. PICK d \in Destinations :
        /\ Arrive(h)
        /\ Then(h, "deleting", d, BoundTo(d), MaxAttempts)
        /\ UNCHANGED <<slug, row, bound, unused>>
  BY DEF DeleteDestination, rows
<1>2. RowsType' /\ RowsInv'
  BY <1>0, <1>1 DEF RowsType, IInv, RowsInv
<1>3. /\ CallType' /\ at'[h] = "deleting" /\ item'[h] = d /\ left'[h] = BoundTo(d)
      /\ \A g \in Workers \ {h} : at'[g] = at[g] /\ item'[g] = item[g] /\ left'[g] = left[g]
  <2>1. "deleting" \in Points /\ MaxAttempts \in Nat /\ BoundTo(d) \in SUBSET Programs
    BY ForwardingAssumption DEF Points, BoundTo
  <2> QED  BY <1>0, <1>1, <2>1, ThenFacts
<1>4. PlaceInv(h)' /\ CopyInv(h)'
  BY <1>0, <1>1, <1>3 DEF PlaceInv, CopyInv, BoundTo
<1>5. ASSUME NEW q \in Programs \ unsure, slug'[q] # None
      PROVE  slug[q] # None /\ (Settled(q) => Settled(q)')
  BY <1>1, <1>5, ViewFrame DEF Arrive, relays
<1> QED  BY <1>1, <1>2, <1>3, <1>4, <1>5, RequestFrame

(* CreateProgram and PatchProgram give program p a slug that nobody has.   *)
LEMMA SlugKeeps ==
    ASSUME IInv, NEW h \in Handlers, Arrive(h), NEW p \in Programs, NEW s \in Slugs,
           \A q \in Programs \ {p} : slug[q] # s,
           slug' = [slug EXCEPT ![p] = s],
           (unused' = unused /\ slug[p] # None) \/ unused' = unused \ {p},
           UNCHANGED <<row, bound>>, SyncOnce(h, {p})
    PROVE  IInv'
<1>0. RowsType /\ CallType /\ h \in Workers
  BY TypeParts DEF IInv, Workers
<1>1. s # None
  BY ForwardingAssumption
<1>2. \A q \in Programs : slug'[q] = IF q = p THEN s ELSE slug[q]
  BY <1>0 DEF RowsType
<1>3. RowsType'
  BY <1>0 DEF RowsType
<1>4. RowsInv'
  <2>1. \A x, y \in Programs : slug'[x] = slug'[y] /\ slug'[x] # None => x = y
    BY <1>2 DEF IInv, RowsInv
  <2>2. \A x \in Programs : x \in unused' => slug'[x] = None
    BY <1>2 DEF IInv, RowsInv
  <2>3. \A d \in Destinations : d \in unused' => row'[d] = None
    BY DEF IInv, RowsInv
  <2>4. \A x \in Programs, d \in Destinations :
            bound'[<<x, d>>] # "none" => slug'[x] # None /\ row'[d] # None
    BY <1>1, <1>2 DEF IInv, RowsInv
  <2> QED  BY <2>1, <2>2, <2>3, <2>4 DEF RowsInv
<1>5. /\ CallType' /\ at'[h] = "syncing" /\ left'[h] = {p}
      /\ \A g \in Workers \ {h} : at'[g] = at[g] /\ item'[g] = item[g] /\ left'[g] = left[g]
  <2>1. "syncing" \in Points /\ {p} \in SUBSET Programs
    BY DEF Points
  <2> QED  BY <1>0, <2>1, ThenFacts DEF SyncOnce
<1>6. PlaceInv(h)' /\ CopyInv(h)'
  BY <1>5 DEF PlaceInv, CopyInv
<1>7. ASSUME NEW q \in Programs \ unsure, slug'[q] # None
      PROVE  (slug[q] # None /\ (Settled(q) => Settled(q)')) \/ Holds(h, q)'
  <2>1. CASE q = p
    BY <1>5, <2>1 DEF Holds
  <2>2. CASE q # p
    <3>1. slug'[q] = slug[q]
      BY <1>2, <2>2
    <3> QED  BY <1>7, <3>1, ViewFrame DEF Arrive, relays
  <2> QED  BY <2>1, <2>2
<1> QED  BY <1>3, <1>4, <1>5, <1>6, <1>7, RequestFrame

LEMMA CreateProgramKeeps ==
    ASSUME IInv, NEW h \in Handlers, CreateProgram(h)
    PROVE  IInv'
BY SlugKeeps DEF CreateProgram, Free

LEMMA PatchProgramKeeps ==
    ASSUME IInv, NEW h \in Handlers, PatchProgram(h)
    PROVE  IInv'
<1>1. PICK p \in Programs, s \in Slugs :
        /\ Arrive(h)
        /\ slug[p] # None /\ (s = slug[p] \/ Free(s))
        /\ slug' = [slug EXCEPT ![p] = s]
        /\ SyncOnce(h, {p})
        /\ UNCHANGED <<row, bound, unused>>
  BY DEF PatchProgram
<1>2. \A q \in Programs \ {p} : slug[q] # s
  BY <1>1 DEF Free, IInv, RowsInv
<1> QED  BY <1>1, <1>2, SlugKeeps

LEMMA DeleteProgramKeeps ==
    ASSUME IInv, NEW h \in Handlers, DeleteProgram(h)
    PROVE  IInv'
<1>0. RowsType /\ CallType /\ h \in Workers
  BY TypeParts DEF IInv, Workers
<1>1. PICK p \in Programs :
        /\ Arrive(h)
        /\ slug[p] # None
        /\ slug' = [slug EXCEPT ![p] = None]
        /\ bound' = [k \in Keyed |-> IF k[1] = p THEN "none" ELSE bound[k]]
        /\ Then(h, "unpath", slug[p], {}, 0)
        /\ UNCHANGED <<row, unused>>
  BY DEF DeleteProgram
<1>2. \A q \in Programs : slug'[q] = IF q = p THEN None ELSE slug[q]
  BY <1>0, <1>1 DEF RowsType
<1>3. \A q \in Programs, d \in Destinations :
          bound'[<<q, d>>] = IF q = p THEN "none" ELSE bound[<<q, d>>]
  BY <1>1 DEF Keyed
<1>4. RowsType'
  <2>1. \A k \in Keyed : bound'[k] \in {"none", "off", "on"}
    BY <1>0, <1>1 DEF RowsType
  <2>2. bound' = [k \in Keyed |-> bound'[k]]
    BY <1>1
  <2>3. bound' \in [Keyed -> {"none", "off", "on"}]
    BY <2>1, <2>2
  <2> QED  BY <1>0, <1>1, <2>3 DEF RowsType
<1>5. RowsInv'
  <2>1. \A x, y \in Programs : slug'[x] = slug'[y] /\ slug'[x] # None => x = y
    BY <1>2 DEF IInv, RowsInv
  <2>2. \A x \in Programs : x \in unused' => slug'[x] = None
    BY <1>1, <1>2 DEF IInv, RowsInv
  <2>3. \A d \in Destinations : d \in unused' => row'[d] = None
    BY <1>1 DEF IInv, RowsInv
  <2>4. \A x \in Programs, d \in Destinations :
            bound'[<<x, d>>] # "none" => slug'[x] # None /\ row'[d] # None
    BY <1>1, <1>2, <1>3 DEF IInv, RowsInv
  <2> QED  BY <2>1, <2>2, <2>3, <2>4 DEF RowsInv
<1>6. /\ CallType' /\ at'[h] = "unpath" /\ item'[h] = slug[p] /\ left'[h] = {} /\ slug[p] \in Slugs
      /\ \A g \in Workers \ {h} : at'[g] = at[g] /\ item'[g] = item[g] /\ left'[g] = left[g]
  <2>1. "unpath" \in Points /\ slug[p] \in Slugs
    BY <1>0, <1>1 DEF Points, RowsType
  <2> QED  BY <1>0, <1>1, <2>1, ThenFacts
<1>7. PlaceInv(h)' /\ CopyInv(h)'
  <2>1. \A q \in Programs : slug'[q] # slug[p]
    BY <1>1, <1>2 DEF IInv, RowsInv
  <2> QED  BY <1>6, <2>1 DEF PlaceInv, CopyInv
<1>8. ASSUME NEW q \in Programs \ unsure, slug'[q] # None
      PROVE  slug[q] # None /\ (Settled(q) => Settled(q)')
  <2>1. q # p /\ slug'[q] = slug[q]
    BY <1>2, <1>8
  <2>2. \A d \in Destinations : bound'[<<q, d>>] = bound[<<q, d>>]
    BY <1>3, <2>1
  <2> QED  BY <1>1, <1>8, <2>1, <2>2, ViewFrame DEF Arrive, relays
<1> QED  BY <1>1, <1>4, <1>5, <1>6, <1>7, <1>8, RequestFrame

(* The second half of DeleteDestination.  Requests may have come in since  *)
(* it asked for the bindings, but then nothing is claimed.                 *)
LEMMA DestinationDeletedKeeps ==
    ASSUME IInv, NEW h \in Workers, DestinationDeleted(h)
    PROVE  IInv'
<1>0. RowsType /\ RelayType /\ CallType /\ SyncType /\ PathType /\ GhostType
  BY TypeParts DEF IInv
<1>1. /\ at[h] = "deleting" /\ item[h] \in Destinations /\ h \in Handlers
      /\ row' = [row EXCEPT ![item[h]] = None]
      /\ bound' = [k \in Keyed |-> IF k[2] = item[h] THEN "none" ELSE bound[k]]
      /\ Then(h, "syncing", None, left[h], MaxAttempts)
      /\ UNCHANGED <<slug, unused, path, relays, sync, ghost, requests>>
  BY DEF DestinationDeleted, SyncWithRetry, IInv, PlaceInv, Workers
<1>2. /\ \A d \in Destinations : row'[d] = IF d = item[h] THEN None ELSE row[d]
      /\ \A q \in Programs, d \in Destinations :
            bound'[<<q, d>>] = IF d = item[h] THEN "none" ELSE bound[<<q, d>>]
  BY <1>0, <1>1 DEF RowsType, Keyed
<1>3. RowsType'
  <2>1. \A k \in Keyed : bound'[k] \in {"none", "off", "on"}
    BY <1>0, <1>1 DEF RowsType
  <2>2. bound' = [k \in Keyed |-> bound'[k]]
    BY <1>1
  <2>3. bound' \in [Keyed -> {"none", "off", "on"}]
    BY <2>1, <2>2
  <2> QED  BY <1>0, <1>1, <2>3 DEF RowsType
<1>4. RowsInv'
  BY <1>1, <1>2 DEF IInv, RowsInv
<1>5. /\ CallType' /\ at'[h] = "syncing" /\ left'[h] = left[h]
      /\ \A g \in Workers \ {h} : at'[g] = at[g] /\ item'[g] = item[g] /\ left'[g] = left[g]
  <2>1. "syncing" \in Points /\ MaxAttempts \in Nat /\ left[h] \in SUBSET Programs
    BY <1>0, ForwardingAssumption DEF Points, CallType
  <2> QED  BY <1>0, <1>1, <2>1, ThenFacts
<1>6. TypeOK'
  BY <1>0, <1>1, <1>3, <1>5, TypePartsAfter
  DEF RelayType, SyncType, PathType, GhostType, relays, sync, ghost
<1>7. \A g \in Workers : PlaceInv(g)'
  BY <1>1, <1>5 DEF IInv, PlaceInv, sync
<1>8. RelayInv'
  BY <1>1 DEF IInv, RelayInv, RelayIsReachable, EntryIsLive, relays
<1>9. AloneInv'
  <2>1. ASSUME alone
        PROVE  /\ \A f, g \in Workers : ~Idle(f)' /\ ~Idle(g)' => f = g
               /\ \A g \in Workers : CopyInv(g)'
    <3>1. \A g \in Workers \ {h} : at'[g] = "idle"
      BY <1>1, <1>5, <2>1 DEF IInv, AloneInv, Idle
    <3>2. \A g \in Workers : at'[g] \in {"idle", "syncing"}
      BY <1>5, <3>1
    <3> QED  BY <3>1, <3>2 DEF CopyInv, Idle
  <2> QED  BY <1>1, <2>1 DEF IInv, AloneInv, ghost
<1>10. SettledInv'
  <2>1. SUFFICES ASSUME NEW q \in Programs \ unsure, slug[q] # None
                 PROVE  Settled(q)' \/ Pending(q)'
    BY <1>1 DEF SettledInv, ghost
  <2>2. alone
    BY <2>1 DEF IInv, AloneInv
  <2>3. left[h] = BoundTo(item[h])
    BY <1>1, <2>2 DEF IInv, AloneInv, CopyInv
  <2>4. CASE bound[<<q, item[h]>>] # "none"
    <3>1. q \in left'[h]
      BY <1>5, <2>3, <2>4 DEF BoundTo
    <3> QED  BY <1>1, <3>1 DEF Pending
  <2>5. CASE bound[<<q, item[h]>>] = "none"
    <3>1. ~Pending(q)
      <4>1. SUFFICES ASSUME NEW g \in Handlers,
                            q \in left[g] \/ (at[g] = "listing" /\ q \in BoundTo(item[g]))
                     PROVE  FALSE
        BY DEF Pending
      <4>2. g \in Workers /\ (left[g] # {} \/ at[g] = "listing")
        BY <4>1 DEF Workers
      <4>3. ~Idle(g) /\ g \in Workers
        BY <4>1, <4>2 DEF Idle, IInv, PlaceInv, Workers
      <4>4. g = h
        BY <1>1, <2>2, <4>3 DEF IInv, AloneInv, Idle
      <4> QED  BY <1>1, <2>3, <2>5, <4>1, <4>4 DEF BoundTo
    <3>2. Settled(q)
      BY <2>1, <3>1 DEF IInv, SettledInv
    <3>3. \A d \in Destinations : /\ bound'[<<q, d>>] = bound[<<q, d>>]
                                  /\ bound[<<q, d>>] = "on" => row'[d] = row[d]
      BY <1>2, <2>5
    <3> QED  BY <1>1, <3>2, <3>3, ViewFrame DEF relays
  <2> QED  BY <2>4, <2>5
<1> QED  BY <1>4, <1>6, <1>7, <1>8, <1>9, <1>10 DEF IInv

-----------------------------------------------------------------------------
LEMMA RestartKeeps ==
    ASSUME IInv, Restart
    PROVE  IInv'
<1> USE DEF Restart
<1>0. RowsType /\ PathType /\ GhostType
  BY TypeParts DEF IInv
<1>1. TypeOK'
  <2>1. RelayType'
    BY DEF RelayType
  <2>2. CallType'
    BY ForwardingAssumption DEF CallType, Points
  <2>3. SyncType'
    BY DEF SyncType
  <2>4. GhostType'
    BY <1>0 DEF GhostType
  <2> QED  BY <1>0, <2>1, <2>2, <2>3, <2>4, TypePartsAfter DEF RowsType, PathType, rows
<1>2. RowsInv'
  BY DEF IInv, RowsInv, rows
<1>3. \A h \in Workers : PlaceInv(h)'
  BY DEF PlaceInv
<1>4. RelayInv'
  BY DEF RelayInv, RelayIsReachable, EntryIsLive, NoRun
<1>5. AloneInv'
  BY DEF AloneInv, CopyInv, Idle
<1>6. SettledInv'
  BY DEF SettledInv
<1> QED  BY <1>1, <1>2, <1>3, <1>4, <1>5, <1>6 DEF IInv

LEMMA InitIsSound ==
    Init => IInv
<1> SUFFICES ASSUME Init PROVE IInv
  OBVIOUS
<1> USE DEF Init
<1>1. TypeOK
  <2>1. RowsType
    BY ForwardingAssumption DEF RowsType
  <2>2. RelayType
    BY DEF RelayType
  <2>3. CallType
    BY ForwardingAssumption DEF CallType, Points
  <2>4. SyncType
    BY DEF SyncType
  <2>5. PathType /\ GhostType
    BY ForwardingAssumption DEF PathType, GhostType, Contents
  <2> QED  BY <2>1, <2>2, <2>3, <2>4, <2>5, TypeParts
<1>2. RowsInv
  <2>1. \A p, q \in Programs : slug[p] = slug[q] /\ slug[p] # None => p = q
    BY ForwardingAssumption
  <2>2. \A p \in Programs, d \in Destinations :
            bound[<<p, d>>] # "none" => slug[p] # None /\ row[d] # None
    BY DEF Keyed
  <2>3. \A p \in Programs : p \in unused => slug[p] = None
    BY ForwardingAssumption
  <2>4. \A d \in Destinations : d \in unused => row[d] = None
    BY ForwardingAssumption
  <2> QED  BY <2>1, <2>2, <2>3, <2>4 DEF RowsInv
<1>3. \A h \in Workers : PlaceInv(h)
  BY DEF PlaceInv
<1>4. RelayInv
  BY DEF RelayInv, RelayIsReachable, EntryIsLive, NoRun
<1>5. AloneInv
  BY DEF AloneInv, CopyInv, Idle
<1>6. SettledInv
  BY DEF SettledInv
<1> QED  BY <1>1, <1>2, <1>3, <1>4, <1>5, <1>6 DEF IInv

-----------------------------------------------------------------------------
LEMMA StepKeeps ==
    IInv /\ [Next]_vars => IInv'
<1> SUFFICES ASSUME IInv, [Next]_vars PROVE IInv'
  OBVIOUS
<1>1. ASSUME NEW h \in Handlers, Request(h)
      PROVE  IInv'
  BY <1>1, BindKeeps, CreateDestinationKeeps, PatchDestinationKeeps, DeleteDestinationKeeps,
     CreateProgramKeeps, PatchProgramKeeps, DeleteProgramKeeps DEF Request
<1>2. ASSUME NEW h \in Handlers, HangUp(h)
      PROVE  IInv'
  BY <1>2, HangUpKeeps
<1>3. ASSUME NEW h \in Workers, Step(h)
      PROVE  IInv'
  BY <1>3, DestinationDeletedKeeps, FinishKeeps, ListKeeps, ReadKeeps, ReadKeysKeeps,
     UpsertKeeps, ReconcileKeeps DEF Step
<1>4. ASSUME NEW h \in Workers, UpsertLost(h)
      PROVE  IInv'
  BY <1>4, UpsertLostKeeps
<1>5. ASSUME NEW k \in Keyed, NEW n \in 1 .. MaxRuns, Resume(k, n) \/ Exit(k, n)
      PROVE  IInv'
  BY <1>5, RunKeeps
<1>6. CASE Restart
  BY <1>6, RestartKeeps
<1>7. CASE UNCHANGED vars
  <2> USE <1>7 DEF vars, rows, relays, sync, call, ghost
  <2>1. TypeOK' /\ RowsInv' /\ (\A h \in Workers : PlaceInv(h)')
    BY DEF IInv, TypeOK, RowsInv, PlaceInv
  <2>2. RelayInv'
    BY DEF IInv, RelayInv, RelayIsReachable, EntryIsLive
  <2>3. ASSUME NEW h \in Workers, CopyInv(h)
        PROVE  CopyInv(h)'
    BY <2>3 DEF CopyInv, Listed, Wanted, Address, BoundTo
  <2>4. AloneInv'
    BY <2>3 DEF IInv, AloneInv, Idle
  <2>5. \A p \in Programs : Settled(p) => Settled(p)'
    BY SettledFrame
  <2>6. \A p \in Programs : Pending(p) => Pending(p)'
    BY DEF Pending, BoundTo
  <2>7. SettledInv'
    BY <2>5, <2>6 DEF IInv, SettledInv
  <2> QED  BY <2>1, <2>2, <2>4, <2>7 DEF IInv
<1> QED  BY <1>1, <1>2, <1>3, <1>4, <1>5, <1>6, <1>7 DEF Next

LEMMA Invariance == Spec => []IInv
BY InitIsSound, StepKeeps, PTL DEF Spec

(* Every variable stays in its type, for any number of programs,           *)
(* destinations, handlers, requests and restarts.                          *)
THEOREM WellTyped == Spec => []TypeOK
<1>1. IInv => TypeOK
  BY DEF IInv
<1> QED  BY <1>1, Invariance, PTL

(* reconcileFFmpegRelays never loses the handle of a goroutine it did not  *)
(* cancel, whatever rows, stale copies and old goroutines come together.   *)
THEOREM EveryRelayIsReachable == Spec => []RelayIsReachable
<1>1. IInv => RelayIsReachable
  BY DEF IInv, RelayInv
<1> QED  BY <1>1, Invariance, PTL

(* Two goroutines that were not cancelled never push to one destination of *)
(* a program (the relays map under relayMu).                               *)
OneRelayEach ==
    \A k \in Keyed, m, n \in 1 .. MaxRuns : run[k][m].live /\ run[k][n].live => m = n

THEOREM NeverTwoRelays == Spec => []OneRelayEach
<1>1. IInv => OneRelayEach
  BY DEF IInv, RelayInv, RelayIsReachable, OneRelayEach
<1> QED  BY <1>1, Invariance, PTL

(* Every entry of the map relays stands for a goroutine at work, so that a *)
(* relay that is listed as started is one.                                 *)
THEOREM EntriesAreLive == Spec => []EntryIsLive
<1>1. IInv => EntryIsLive
  BY DEF IInv, RelayInv
<1> QED  BY <1>1, Invariance, PTL

(* When nobody is at work, MediaMTX and the relays forward a program whose *)
(* last synchronisation was alone and succeeded to what its rows say.      *)
THEOREM EditsAreApplied == Spec => []EditsTakeEffect
<1>1. IInv => EditsTakeEffect
  <2>1. SUFFICES ASSUME IInv, \A h \in Workers : Idle(h), NEW p \in Programs \ unsure,
                        slug[p] # None
                 PROVE  Settled(p)
    BY DEF EditsTakeEffect, Settled
  <2>2. ~Pending(p)
    BY <2>1 DEF Pending, Idle, IInv, PlaceInv, Workers
  <2> QED  BY <2>1, <2>2 DEF IInv, SettledInv
<1> QED  BY <1>1, Invariance, PTL

=============================================================================
