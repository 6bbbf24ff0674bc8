----------------------- MODULE RecordingControlProofs -----------------------
(* Proofs of the safety properties of RecordingControl, for any number of  *)
(* programs, schedules, rows and scanners and any budget of faults.        *)
EXTENDS RecordingControl, TLAPS

-----------------------------------------------------------------------------
(* Types.                                                                  *)

LEMMA OnwardsType ==
    ASSUME NEW t \in Ticks
    PROVE  Onwards(t) \in Ticks
BY DEF Onwards, Ticks, Idle, TickPoints

LEMMA DoneType ==
    ASSUME NEW b \in JobStates
    PROVE  Done(b) \in JobStates /\ Synced(b) \in JobStates
BY DEF Done, Synced, JobStates, JobPoints

LEMMA FailedType ==
    ASSUME TypeOK, NEW j \in Jobs
    PROVE  Failed(j) \in JobStates
<1>1. Done(job[j]) \in JobStates
  BY DoneType DEF TypeOK
<1> QED
  BY <1>1 DEF Failed, JobStates

LEMMA JobsAtBootType == JobsAtBoot \in [Jobs -> JobStates]
BY DEF JobsAtBoot, NoJob, JobStates, JobPoints

LEMMA LoseType ==
    ASSUME TypeOK, Lose
    PROVE  spent' \in [edits : Nat, lost : Nat, restarts : Nat, media : Nat, stale : Nat]
BY DEF TypeOK, Lose

(* Every variable keeps its type: control points, rows, flags, claims.     *)
LEMMA TypeInit == Init => TypeOK
BY JobsAtBootType
   DEF Init, TypeOK, Rows, NoRow, Statuses, Ticks, Idle, TickPoints

LEMMA TypeTick ==
    ASSUME TypeOK, TickInv, TickStep
    PROVE  TypeOK'
<1>1. CASE TickDesired
  BY <1>1 DEF TickDesired, TypeOK, Ticks, TickPoints, database, clock, memory
<1>2. CASE TickPrograms
  <2>1. [tick EXCEPT !.todo = {p \in Programs : enabled[p]}] \in Ticks
    BY DEF TypeOK, Ticks
  <2> QED
    BY <1>2, <2>1, OnwardsType DEF TickPrograms, TypeOK, database, clock, memory
<1>3. ASSUME NEW p \in Programs, TickDecide(p)
      PROVE  TypeOK'
  <2>1. /\ [tick EXCEPT !.todo = @ \ {p}] \in Ticks
        /\ [tick EXCEPT !.at = "patching", !.todo = @ \ {p}, !.p = p,
                        !.was = active[p], !.knew = known[p]] \in Ticks
    BY DEF TypeOK, Ticks, TickPoints
  <2> QED
    BY <1>3, <2>1, OnwardsType DEF TickDecide, TypeOK, database, clock, memory
<1>4. CASE TickPatched
  <2>1. tick' \in Ticks
    BY <1>4, OnwardsType DEF TickPatched, TypeOK, Ticks, TickPoints
  <2>2. path' \in [Programs -> {"absent", "off", "on"}]
    BY <1>4 DEF TickPatched, TypeOK, Flag
  <2> QED
    BY <1>4, <2>1, <2>2, LoseType DEF TickPatched, TypeOK, database, clock, memory
<1>5. CASE TickRefused
  BY <1>5, OnwardsType, LoseType DEF TickRefused, TypeOK, database, clock, memory
<1>6. CASE TickMark
  <2>1. tick' \in Ticks
    <3>1. Onwards(tick) \in Ticks
      BY OnwardsType DEF TypeOK
    <3>2. [tick EXCEPT !.at = "start"] \in Ticks /\ [tick EXCEPT !.at = "stop"] \in Ticks
      BY DEF TypeOK, Ticks, TickPoints
    <3> QED
      BY <1>6, <3>1, <3>2 DEF TickMark
  <2>2. Want \in BOOLEAN
    BY DEF Want
  <2> QED
    BY <1>6, <2>1, <2>2 DEF TickMark, TypeOK, database, clock
<1>7. ASSUME NEW e \in Executions, StartExecution(e)
      PROVE  TypeOK'
  <2> DEFINE s == tick.plan[tick.p]
  <2>1. tick' \in Ticks
    BY <1>7, OnwardsType DEF StartExecution, TypeOK
  <2>2. s \in Schedules
    BY <1>7 DEF StartExecution, TickInv, Want, TypeOK, Ticks
  <2>3. [status |-> "running", sched |-> s, occ |-> slot[s].occ] \in Rows
    BY <2>2 DEF TypeOK, Rows, Statuses
  <2>4. row' \in [Executions -> Rows] /\ opened' \in SUBSET Executions
    BY <1>7, <2>3 DEF StartExecution, NewRow, TypeOK
  <2> QED
    BY <1>7, <2>1, <2>4 DEF StartExecution, TypeOK, clock, memory
<1>8. CASE StopSelect
  <2> DEFINE pending == {e \in Executions : Running(e) /\ ProgramOf(e) = tick.p}
  <2>1. [tick EXCEPT !.at = "closing", !.closing = pending] \in Ticks
    BY DEF TypeOK, Ticks, TickPoints
  <2>2. tick' \in Ticks
    BY <1>8, <2>1, OnwardsType DEF StopSelect, TypeOK
  <2> QED
    BY <1>8, <2>2 DEF StopSelect, TypeOK, database, clock, memory
<1>9. ASSUME NEW e \in Executions, StopClose(e)
      PROVE  TypeOK'
  <2> DEFINE t == [tick EXCEPT !.closing = @ \ {e}]
  <2>1. t \in Ticks
    BY DEF TypeOK, Ticks
  <2>2. tick' \in Ticks
    BY <1>9, <2>1, OnwardsType DEF StopClose
  <2>3. row' \in [Executions -> Rows]
    <3>1. row[e] \in Rows
      BY DEF TypeOK
    <3>2. [row[e] EXCEPT !.status = "verifying"] \in Rows
      BY <3>1 DEF Rows, Statuses
    <3> QED
      BY <1>9, <3>2 DEF StopClose, TypeOK
  <2> QED
    BY <1>9, <2>2, <2>3 DEF StopClose, TypeOK, clock, memory
<1> QED
  BY <1>1, <1>2, <1>3, <1>4, <1>5, <1>6, <1>7, <1>8, <1>9 DEF TickStep

LEMMA TypeScan ==
    ASSUME TypeOK, ScanStep
    PROVE  TypeOK'
<1>1. ASSUME NEW s \in Schedules, IndexFile(s)
      PROVE  TypeOK'
  BY <1>1 DEF IndexFile, TypeOK, database, memory
<1>2. ASSUME NEW e \in Executions, NEW status \in Statuses, Settle(e, status),
             finalizers' \in SUBSET Executions
      PROVE  TypeOK'
  <2>1. row' \in [Executions -> Rows]
    <3>1. row[e] \in Rows
      BY DEF TypeOK
    <3>2. [row[e] EXCEPT !.status = status] \in Rows
      BY <1>2, <3>1 DEF Rows
    <3> QED
      BY <1>2, <3>2 DEF Settle, TypeOK
  <2> QED
    BY <1>2, <2>1 DEF Settle, TypeOK, clock, memory
<1>3. ASSUME NEW e \in Executions,
             FinalizerFound(e) \/ FinalizerExpired(e) \/ ReconcileExpire(e)
      PROVE  TypeOK'
  BY <1>2, <1>3
     DEF FinalizerFound, FinalizerExpired, ReconcileExpire, Statuses, TypeOK
<1>4. ASSUME NEW k \in Scanners, NEW s \in Schedules, ReconcileCount(k, s)
      PROVE  TypeOK'
  <2>1. [sched |-> s, occ |-> slot[s].occ,
         status |-> IF slot[s].open THEN "running" ELSE "completed"] \in Claims
    BY DEF TypeOK, Claims
  <2>2. claim' \in [Scanners -> Claims \cup {None}]
    BY <1>4, <2>1 DEF ReconcileCount, TypeOK
  <2> QED
    BY <1>4, <2>2 DEF ReconcileCount, TypeOK, database, clock, memory
<1>5. ASSUME NEW k \in Scanners, NEW e \in Executions, ReconcileInsert(k, e)
      PROVE  TypeOK'
  <2>1. claim[k] \in Claims
    BY <1>5 DEF ReconcileInsert, TypeOK
  <2>2. [status |-> claim[k].status, sched |-> claim[k].sched,
         occ |-> claim[k].occ] \in Rows
    BY <2>1 DEF Claims, Rows, Statuses
  <2>3. row' \in [Executions -> Rows]
    BY <1>5, <2>2 DEF ReconcileInsert, NewRow, TypeOK
  <2>4. claim' \in [Scanners -> Claims \cup {None}]
    BY <1>5 DEF ReconcileInsert, TypeOK
  <2> QED
    BY <1>5, <2>3, <2>4 DEF ReconcileInsert, TypeOK, clock, memory
<1> QED
  BY <1>1, <1>3, <1>4, <1>5 DEF ScanStep

LEMMA TypeSync ==
    ASSUME TypeOK, NEW j \in Jobs, SyncStep(j)
    PROVE  TypeOK'
<1>0. job[j] \in JobStates
  BY DEF TypeOK
<1>1. ASSUME NEW p \in Programs, SyncGet(j, p)
      PROVE  TypeOK'
  <2>1. PICK repairing \in BOOLEAN, found \in BOOLEAN :
          /\ IF found \/ path[p] = "absent" THEN UNCHANGED spent ELSE Lose
          /\ job' = [job EXCEPT ![j] =
                       [at |-> "write", repair |-> job[j].repair \ {p},
                        todo |-> IF repairing THEN job[j].todo ELSE job[j].todo \ {p},
                        p |-> p, repairing |-> repairing, found |-> found]]
    BY <1>1 DEF SyncGet
  <2>2. [at |-> "write", repair |-> job[j].repair \ {p},
         todo |-> IF repairing THEN job[j].todo ELSE job[j].todo \ {p},
         p |-> p, repairing |-> repairing, found |-> found] \in JobStates
    BY <1>0 DEF JobStates, JobPoints
  <2>3. job' \in [Jobs -> JobStates]
    BY <2>1, <2>2 DEF TypeOK
  <2>4. spent' \in [edits : Nat, lost : Nat, restarts : Nat, media : Nat, stale : Nat]
    BY <2>1, LoseType DEF TypeOK
  <2> QED
    BY <1>1, <2>3, <2>4 DEF SyncGet, TypeOK, database, clock, memory
<1>2. CASE SyncWrite(j)
  <2>1. job' \in [Jobs -> JobStates]
    BY <1>0, <1>2, DoneType, FailedType DEF SyncWrite, TypeOK
  <2>2. path' \in [Programs -> {"absent", "off", "on"}]
    BY <1>2 DEF SyncWrite, TypeOK
  <2>3. spent' \in [edits : Nat, lost : Nat, restarts : Nat, media : Nat, stale : Nat]
    BY <1>2, LoseType DEF SyncWrite, TypeOK
  <2> QED
    BY <1>2, <2>1, <2>2, <2>3 DEF SyncWrite, TypeOK, database, clock, memory
<1>3. CASE RestoreRead(j)
  <2>1. [job[j] EXCEPT !.at = "patch"] \in JobStates
    BY <1>0 DEF JobStates, JobPoints
  <2>2. job' \in [Jobs -> JobStates]
    BY <1>0, <1>3, <2>1, DoneType DEF RestoreRead, TypeOK
  <2> QED
    BY <1>3, <2>2 DEF RestoreRead, TypeOK, database, clock, memory
<1>4. CASE RestorePatch(j)
  <2>1. job' \in [Jobs -> JobStates]
    BY <1>0, <1>4, DoneType DEF RestorePatch, TypeOK
  <2>2. path' \in [Programs -> {"absent", "off", "on"}]
    BY <1>4 DEF RestorePatch, TypeOK
  <2>3. spent' \in [edits : Nat, lost : Nat, restarts : Nat, media : Nat, stale : Nat]
    BY <1>4, LoseType DEF RestorePatch, TypeOK
  <2> QED
    BY <1>4, <2>1, <2>2, <2>3 DEF RestorePatch, TypeOK, database, clock, memory
<1> QED
  BY <1>1, <1>2, <1>3, <1>4 DEF SyncStep

LEMMA TypeEnv ==
    ASSUME TypeOK, EnvStep
    PROVE  TypeOK'
<1> DEFINE Budgets == [edits : Nat, lost : Nat, restarts : Nat, media : Nat, stale : Nat]
<1>0. /\ [spent EXCEPT !.edits = @ + 1] \in Budgets
      /\ [spent EXCEPT !.restarts = @ + 1] \in Budgets
      /\ [spent EXCEPT !.media = @ + 1] \in Budgets
      /\ [spent EXCEPT !.stale = @ + 1] \in Budgets
  BY DEF TypeOK
<1>1. ASSUME NEW s \in Schedules, SlotOpens(s) \/ SlotCloses(s)
      PROVE  TypeOK'
  <2>1. slot' \in [Schedules -> [occ : Nat, open : BOOLEAN]]
    <3>0. slot[s] \in [occ : Nat, open : BOOLEAN]
      BY DEF TypeOK
    <3>1. [occ |-> slot[s].occ + 1, open |-> TRUE] \in [occ : Nat, open : BOOLEAN]
      BY <3>0
    <3>2. [slot[s] EXCEPT !.open = FALSE] \in [occ : Nat, open : BOOLEAN]
      BY <3>0
    <3>3. CASE SlotOpens(s)
      BY <3>1, <3>3 DEF SlotOpens, TypeOK
    <3>4. CASE SlotCloses(s)
      BY <3>2, <3>4 DEF SlotCloses, TypeOK
    <3> QED
      BY <1>1, <3>3, <3>4
  <2>2. filed' \in [Schedules -> BOOLEAN]
    BY <1>1 DEF SlotOpens, SlotCloses, TypeOK
  <2> QED
    BY <1>1, <2>1, <2>2 DEF SlotOpens, SlotCloses, TypeOK, database, memory
<1>2. ASSUME NEW s \in Schedules, EditSchedule(s)
      PROVE  TypeOK'
  BY <1>0, <1>2 DEF EditSchedule, TypeOK, clock, memory
<1>3. ASSUME NEW S \in {{p} : p \in Programs} \cup {Programs}, AdminSync(S)
      PROVE  TypeOK'
  <2>1. S \in SUBSET Programs
    OBVIOUS
  <2>2. job' \in [Jobs -> JobStates]
    <3>1. ASSUME "admin" \in Jobs
          PROVE  [job["admin"] EXCEPT !.todo = S] \in JobStates
      <4>1. job["admin"] \in JobStates
        BY <3>1 DEF TypeOK
      <4> QED
        BY <2>1, <4>1 DEF JobStates
    <3> QED
      BY <1>3, <3>1 DEF AdminSync, TypeOK
  <2>3. enabled' \in [Programs -> BOOLEAN]
    BY <1>3 DEF AdminSync, TypeOK
  <2> QED
    BY <1>0, <1>3, <2>2, <2>3 DEF AdminSync, TypeOK, clock, memory
<1>4. ASSUME NEW stale \in SUBSET Programs, MonitorTick(stale)
      PROVE  TypeOK'
  <2>1. job' \in [Jobs -> JobStates]
    <3>1. ASSUME "monitor" \in Jobs, NEW T \in SUBSET Programs
          PROVE  [job["monitor"] EXCEPT !.repair = stale, !.todo = T] \in JobStates
      <4>1. job["monitor"] \in JobStates
        BY <3>1 DEF TypeOK
      <4> QED
        BY <4>1 DEF JobStates
    <3> QED
      BY <1>4, <3>1 DEF MonitorTick, TypeOK
  <2> QED
    BY <1>0, <1>4, <2>1 DEF MonitorTick, TypeOK, database, clock, memory
<1>5. CASE MediaRestart
  BY <1>0, <1>5 DEF MediaRestart, TypeOK, database, clock, memory
<1>6. CASE ControlRestart
  <2>1. tick' \in Ticks
    BY <1>6 DEF ControlRestart, Ticks, Idle, TickPoints
  <2> QED
    BY <1>0, <1>6, <2>1, JobsAtBootType DEF ControlRestart, TypeOK, database, clock
<1> QED
  BY <1>1, <1>2, <1>3, <1>4, <1>5, <1>6 DEF EnvStep

LEMMA TypeStep ==
    ASSUME TypeOK, TickInv, [Next]_vars
    PROVE  TypeOK'
<1>1. CASE UNCHANGED vars
  BY <1>1 DEF vars, TypeOK
<1>2. CASE Next
  BY <1>2, TypeTick, TypeScan, TypeSync, TypeEnv DEF Next
<1> QED
  BY <1>1, <1>2

-----------------------------------------------------------------------------
(* The scheduler's bookkeeping.                                            *)

LEMMA OnwardsFacts ==
    ASSUME NEW t \in Ticks, t.closing = {}
    PROVE  /\ Onwards(t).at \in {"idle", "decide"}
           /\ Onwards(t).closing = {}
           /\ \A p \in Programs : Onwards(t).plan[p] \in {t.plan[p], None}
BY DEF Onwards, Ticks, Idle

(* Going on to the next program leaves no claim on the last one.           *)
LEMMA MovingOn ==
    ASSUME TypeOK, SchedulerInv, NEW t \in Ticks,
           t.closing = {}, t.plan = tick.plan, tick' = Onwards(t)
    PROVE  /\ tick'.at \notin {"start", "stop", "mark", "closing"}
           /\ tick'.closing = {}
           /\ TickInv' /\ PlanInv'
<1>1. /\ tick'.at \in {"idle", "decide"} /\ tick'.closing = {}
      /\ \A p \in Programs : tick'.plan[p] \in {tick.plan[p], None}
  BY OnwardsFacts
<1>2. TickInv'
  BY <1>1 DEF TickInv
<1>3. PlanInv'
  BY <1>1 DEF SchedulerInv, PlanInv
<1> QED
  BY <1>1, <1>2, <1>3

LEMMA SchedulerStutter ==
    ASSUME SchedulerInv, UNCHANGED <<tick, row, memory, opened>>
    PROVE  SchedulerInv'
BY DEF SchedulerInv, TickInv, PlanInv, KnownInv, OpenInv, OpenedExist,
       NoDoubleStart, Want, Running, ProgramOf, memory

(* The rows and the memory are left alone and the new position of the      *)
(* scheduler claims nothing.                                               *)
LEMMA SchedulerWalks ==
    ASSUME SchedulerInv, UNCHANGED <<row, memory, opened>>,
           TickInv', PlanInv',
           tick.at \notin {"start", "stop", "closing"},
           tick'.at \notin {"start", "stop", "closing"}
    PROVE  SchedulerInv'
<1>1. OpenInv'
  BY DEF SchedulerInv, TickInv, OpenInv, Running, ProgramOf, memory
<1> QED
  BY <1>1 DEF SchedulerInv, KnownInv, OpenedExist, NoDoubleStart, Running, ProgramOf, memory

LEMMA SchedulerTick ==
    ASSUME TypeOK, SchedulerInv, TickStep
    PROVE  SchedulerInv'
<1>0. tick \in Ticks
  BY DEF TypeOK
<1>1. CASE TickDesired
  <2>1. /\ tick.at = "idle" /\ tick'.at = "programs" /\ tick'.closing = tick.closing
        /\ \A p \in Programs : tick'.plan[p] = None \/ tick'.plan[p] \in Candidates(p)
    BY <1>0, <1>1 DEF TickDesired, Ticks
  <2>2. TickInv' /\ PlanInv'
    BY <2>1 DEF SchedulerInv, TickInv, PlanInv, Candidates
  <2> QED
    BY <1>1, <2>1, <2>2, SchedulerWalks DEF TickDesired, database
<1>2. CASE TickPrograms
  <2> DEFINE t == [tick EXCEPT !.todo = {p \in Programs : enabled[p]}]
  <2>1. t \in Ticks /\ t.closing = {} /\ t.plan = tick.plan /\ tick.at = "programs"
    BY <1>0, <1>2 DEF TickPrograms, Ticks, SchedulerInv, TickInv
  <2> QED
    BY <1>2, <2>1, MovingOn, SchedulerWalks DEF TickPrograms, database
<1>3. ASSUME NEW p \in Programs, TickDecide(p)
      PROVE  SchedulerInv'
  <2>1. tick.at = "decide" /\ tick.closing = {}
    BY <1>3 DEF TickDecide, SchedulerInv, TickInv
  <2>2. CASE NeedsPatch(p)
    <3>1. /\ tick'.at = "patching" /\ tick'.p = p /\ tick'.closing = {}
          /\ tick'.was = active[p] /\ tick'.knew = known[p] /\ tick'.plan = tick.plan
      BY <1>0, <1>3, <2>1, <2>2 DEF TickDecide, Ticks
    <3>2. active' = active /\ known' = known
      BY <1>3 DEF TickDecide, memory
    <3>3. Want' # tick'.was \/ ~tick'.knew
      BY <2>2, <3>1, <3>2 DEF NeedsPatch, Want, TypeOK
    <3>4. TickInv' /\ PlanInv'
      BY <3>1, <3>2, <3>3 DEF SchedulerInv, TickInv, PlanInv
    <3> QED
      BY <1>3, <2>1, <3>1, <3>4, SchedulerWalks DEF TickDecide, database
  <2>3. CASE ~NeedsPatch(p)
    <3> DEFINE t == [tick EXCEPT !.todo = @ \ {p}]
    <3>1. t \in Ticks /\ t.closing = {} /\ t.plan = tick.plan
      BY <1>0, <2>1 DEF Ticks
    <3> QED
      BY <1>3, <2>1, <2>3, <3>1, MovingOn, SchedulerWalks DEF TickDecide, database
  <2> QED
    BY <2>2, <2>3
<1>4. CASE TickPatched \/ TickRefused
  <2>1. tick.at = "patching" /\ tick.closing = {}
    BY <1>4 DEF TickPatched, TickRefused, SchedulerInv, TickInv
  <2>2. UNCHANGED <<row, memory, opened>>
    BY <1>4 DEF TickPatched, TickRefused, database
  <2>3. CASE tick' = Onwards(tick)
    BY <1>0, <2>1, <2>2, <2>3, MovingOn, SchedulerWalks
  <2>4. CASE tick' = [tick EXCEPT !.at = "mark"]
    <3>1. /\ tick'.at = "mark" /\ tick'.p = tick.p /\ tick'.closing = {}
          /\ tick'.was = tick.was /\ tick'.knew = tick.knew /\ tick'.plan = tick.plan
      BY <1>0, <2>1, <2>4 DEF Ticks
    <3>2. TickInv' /\ PlanInv'
      BY <2>1, <2>2, <3>1 DEF SchedulerInv, TickInv, PlanInv, Want, memory
    <3> QED
      BY <2>1, <2>2, <3>1, <3>2, SchedulerWalks
  <2> QED
    BY <1>4, <2>3, <2>4 DEF TickPatched, TickRefused
<1>5. CASE TickMark
  <2> DEFINE p == tick.p
  <2>1. /\ tick.at = "mark" /\ p \in Programs /\ tick.closing = {}
        /\ tick.was = active[p] /\ tick.knew = known[p]
        /\ tick.was # Want \/ ~tick.knew
        /\ active[p] => known[p]
    BY <1>5 DEF TickMark, SchedulerInv, TickInv, KnownInv
  <2>2. /\ active' = [active EXCEPT ![p] = Want]
        /\ known' = [known EXCEPT ![p] = TRUE]
        /\ UNCHANGED <<row, opened>>
    BY <1>5 DEF TickMark, database
  <2>3. KnownInv'
    BY <2>1, <2>2 DEF SchedulerInv, KnownInv, TypeOK
  <2>4. \A e \in opened : Running(e) => active[ProgramOf(e)]
    BY <2>1 DEF SchedulerInv, OpenInv
  <2>5. \A e \in opened : Running(e) /\ ProgramOf(e) # p => active'[ProgramOf(e)]
    BY <2>2, <2>4 DEF TypeOK
  <2>6. CASE Want
    <3>1. ~active[p]
      BY <2>1, <2>6 DEF TypeOK
    <3>2. tick' = [tick EXCEPT !.at = "start"]
      BY <1>5, <2>6 DEF TickMark
    <3>3. tick'.at = "start" /\ tick'.p = p /\ tick'.plan = tick.plan /\ tick'.closing = {}
      BY <1>0, <2>1, <3>2 DEF Ticks
    <3>4. active'[p]
      BY <2>1, <2>2, <2>6 DEF TypeOK
    <3>5. TickInv' /\ PlanInv'
      BY <2>1, <2>6, <3>3, <3>4 DEF SchedulerInv, TickInv, PlanInv, Want
    <3>6. OpenInv'
      BY <2>2, <2>4, <2>5, <3>1, <3>3 DEF OpenInv, Running, ProgramOf
    <3> QED
      BY <2>2, <2>3, <3>5, <3>6 DEF SchedulerInv, OpenedExist, NoDoubleStart, Running, ProgramOf
  <2>7. CASE ~Want /\ tick.knew /\ tick.was
    <3>1. tick' = [tick EXCEPT !.at = "stop"]
      BY <1>5, <2>7 DEF TickMark
    <3>2. tick'.at = "stop" /\ tick'.p = p /\ tick'.plan = tick.plan /\ tick'.closing = {}
      BY <1>0, <2>1, <3>1 DEF Ticks
    <3>3. ~active'[p]
      BY <2>1, <2>2, <2>7 DEF TypeOK
    <3>4. TickInv' /\ PlanInv'
      BY <2>1, <3>2, <3>3 DEF SchedulerInv, TickInv, PlanInv
    <3>5. OpenInv'
      BY <2>2, <2>5, <3>2 DEF OpenInv, Running, ProgramOf
    <3> QED
      BY <2>2, <2>3, <3>4, <3>5 DEF SchedulerInv, OpenedExist, NoDoubleStart, Running, ProgramOf
  <2>8. CASE ~Want /\ ~(tick.knew /\ tick.was)
    <3>1. ~active[p]
      BY <2>1, <2>8
    <3>2. tick' = Onwards(tick)
      BY <1>5, <2>8 DEF TickMark
    <3>3. TickInv' /\ PlanInv' /\ tick'.at \notin {"start", "stop", "closing"}
      BY <1>0, <2>1, <3>2, MovingOn
    <3>4. OpenInv'
      BY <2>2, <2>4, <2>5, <3>1, <3>3 DEF OpenInv, Running, ProgramOf
    <3> QED
      BY <2>2, <2>3, <3>3, <3>4 DEF SchedulerInv, OpenedExist, NoDoubleStart, Running, ProgramOf
  <2> QED
    BY <2>6, <2>7, <2>8
<1>6. ASSUME NEW e \in Executions, StartExecution(e)
      PROVE  SchedulerInv'
  <2> DEFINE p == tick.p
             s == tick.plan[p]
  <2>1. /\ tick.at = "start" /\ p \in Programs /\ tick.closing = {} /\ active[p]
        /\ s # None /\ program[s] = p
    BY <1>6 DEF StartExecution, SchedulerInv, TickInv, PlanInv, Want
  <2>2. active' = active /\ known' = known /\ tick' = Onwards(tick)
    BY <1>6 DEF StartExecution, memory
  <2>3. TickInv' /\ PlanInv' /\ tick'.at \notin {"start", "stop", "closing"}
    BY <1>0, <2>1, <2>2, MovingOn
  <2>4. \A f \in opened : Running(f) => active[ProgramOf(f)] /\ ProgramOf(f) # p
    BY <2>1 DEF SchedulerInv, OpenInv
  <2>5. KnownInv'
    BY <2>2 DEF SchedulerInv, KnownInv
  <2>6. CASE UNCHANGED <<row, opened>>
    <3>1. OpenInv'
      BY <2>2, <2>3, <2>4, <2>6 DEF OpenInv, Running, ProgramOf
    <3> QED
      BY <2>3, <2>5, <2>6, <3>1
         DEF SchedulerInv, OpenedExist, NoDoubleStart, Running, ProgramOf
  <2>7. CASE NewRow(e, s, slot[s].occ, "running") /\ opened' = opened \cup {e}
    <3>1. /\ row'[e].status = "running" /\ row'[e].sched = s
          /\ \A f \in Executions \ {e} : row'[f] = row[f]
      BY <2>7 DEF NewRow, TypeOK
    <3>2. \A f \in opened' : f # e => f \in opened /\ f \in Executions /\ row'[f] = row[f]
      BY <2>7, <3>1 DEF TypeOK
    <3>3. \A f \in opened' : Running(f)' => active'[ProgramOf(f)']
      BY <2>1, <2>2, <2>4, <3>1, <3>2 DEF Running, ProgramOf
    <3>4. OpenInv'
      BY <2>3, <3>3 DEF OpenInv
    <3>5. NoDoubleStart'
      BY <2>1, <2>4, <3>1, <3>2 DEF SchedulerInv, NoDoubleStart, Running, ProgramOf
    <3>6. OpenedExist'
      BY <3>1, <3>2 DEF SchedulerInv, OpenedExist, NoRow
    <3> QED
      BY <2>3, <2>5, <3>4, <3>5, <3>6 DEF SchedulerInv
  <2> QED
    BY <1>6, <2>6, <2>7 DEF StartExecution
<1>7. CASE StopSelect
  <2> DEFINE pending == {e \in Executions : Running(e) /\ ProgramOf(e) = tick.p}
  <2>1. tick.at = "stop" /\ tick.p \in Programs /\ ~active[tick.p] /\ tick.closing = {}
    BY <1>7 DEF StopSelect, SchedulerInv, TickInv
  <2>2. UNCHANGED <<row, opened>> /\ active' = active /\ known' = known
    BY <1>7 DEF StopSelect, database, memory
  <2>3. KnownInv' /\ OpenedExist' /\ NoDoubleStart'
    BY <2>2 DEF SchedulerInv, KnownInv, OpenedExist, NoDoubleStart, Running, ProgramOf
  <2>4. \A e \in opened : Running(e) => active[ProgramOf(e)] \/ e \in pending
    BY <2>1 DEF SchedulerInv, OpenInv, TypeOK
  <2>5. CASE pending = {}
    <3>1. tick' = Onwards(tick)
      BY <1>7, <2>5 DEF StopSelect
    <3>2. TickInv' /\ PlanInv' /\ tick'.at \notin {"start", "stop", "closing"}
      BY <1>0, <2>1, <3>1, MovingOn
    <3>3. OpenInv'
      BY <2>2, <2>4, <2>5, <3>2 DEF OpenInv, Running, ProgramOf
    <3> QED
      BY <2>3, <3>2, <3>3 DEF SchedulerInv
  <2>6. CASE pending # {}
    <3>1. tick' = [tick EXCEPT !.at = "closing", !.closing = pending]
      BY <1>7, <2>6 DEF StopSelect
    <3>2. /\ tick'.at = "closing" /\ tick'.p = tick.p /\ tick'.plan = tick.plan
          /\ tick'.closing = pending
      BY <1>0, <3>1 DEF Ticks
    <3>3. TickInv' /\ PlanInv'
      BY <2>1, <2>2, <3>2 DEF SchedulerInv, TickInv, PlanInv, Running, ProgramOf
    <3>4. OpenInv'
      BY <2>2, <2>4, <3>2 DEF OpenInv, Running, ProgramOf
    <3> QED
      BY <2>3, <3>3, <3>4 DEF SchedulerInv
  <2> QED
    BY <2>5, <2>6
<1>8. ASSUME NEW e \in Executions, StopClose(e)
      PROVE  SchedulerInv'
  <2> DEFINE t == [tick EXCEPT !.closing = @ \ {e}]
  <2>1. /\ tick.at = "closing" /\ tick.p \in Programs /\ ~active[tick.p]
        /\ e \in tick.closing
        /\ \A f \in tick.closing : Running(f) /\ ProgramOf(f) = tick.p
    BY <1>8 DEF StopClose, SchedulerInv, TickInv
  <2>2. /\ t \in Ticks /\ t.at = "closing" /\ t.p = tick.p /\ t.plan = tick.plan
        /\ t.closing = tick.closing \ {e}
    BY <1>0, <2>1 DEF Ticks
  <2>3. /\ tick' = IF t.closing = {} THEN Onwards(t) ELSE t
        /\ opened' = opened /\ active' = active /\ known' = known
    BY <1>8 DEF StopClose, memory
  <2>4. /\ ~Running(e)'
        /\ row'[e].sched = row[e].sched /\ row'[e] # NoRow
        /\ \A f \in Executions \ {e} : row'[f] = row[f]
    BY <1>8 DEF StopClose, TypeOK, Rows, Running, NoRow
  <2>5. \A f \in opened \cup tick.closing : f \in Executions
    BY <1>0 DEF TypeOK, Ticks
  <2>6. KnownInv' /\ OpenedExist' /\ NoDoubleStart'
    BY <2>3, <2>4, <2>5
       DEF SchedulerInv, KnownInv, OpenedExist, NoDoubleStart, Running, ProgramOf
  <2>7. \A f \in opened : Running(f)' =>
            active[ProgramOf(f)'] \/ f \in tick.closing \ {e}
    BY <2>1, <2>4, <2>5 DEF SchedulerInv, OpenInv, Running, ProgramOf
  <2>8. CASE t.closing = {}
    <3>1. TickInv' /\ PlanInv' /\ tick'.at \notin {"start", "stop", "closing"}
      BY <2>2, <2>3, <2>8, MovingOn
    <3>2. OpenInv'
      BY <2>2, <2>3, <2>7, <2>8, <3>1 DEF OpenInv
    <3> QED
      BY <2>6, <3>1, <3>2 DEF SchedulerInv
  <2>9. CASE t.closing # {}
    <3>1. TickInv' /\ PlanInv'
      BY <2>1, <2>2, <2>3, <2>4, <2>5, <2>9
         DEF SchedulerInv, TickInv, PlanInv, Running, ProgramOf
    <3>2. OpenInv'
      BY <2>2, <2>3, <2>7, <2>9 DEF OpenInv
    <3> QED
      BY <2>6, <3>1, <3>2 DEF SchedulerInv
  <2> QED
    BY <2>8, <2>9
<1> QED
  BY <1>1, <1>2, <1>3, <1>4, <1>5, <1>6, <1>7, <1>8 DEF TickStep

-----------------------------------------------------------------------------
(* Finalizers and scanners.                                                *)

(* They touch rows that ended, or add rows the scheduler did not open.     *)
LEMMA RowsThatEnded ==
    ASSUME TypeOK, FinalizerInv, NEW e \in Executions,
           FinalizerFound(e) \/ FinalizerExpired(e) \/ ReconcileExpire(e)
    PROVE  /\ row[e].status \in {"verifying", "failed"}
           /\ row'[e].status \in {"completed", "failed"}
           /\ row'[e].sched = row[e].sched
           /\ \A f \in Executions \ {e} : row'[f] = row[f]
           /\ finalizers' \subseteq finalizers
           /\ e \in finalizers' => row'[e].status = "failed"
           /\ UNCHANGED <<tick, memory, opened>>
BY DEF FinalizerFound, FinalizerExpired, ReconcileExpire, Settle, FinalizerInv,
       TypeOK, Rows

LEMMA RowAdded ==
    ASSUME TypeOK, NEW k \in Scanners, NEW e \in Executions, ReconcileInsert(k, e)
    PROVE  /\ row[e] = NoRow
           /\ \A f \in Executions \ {e} : row'[f] = row[f]
           /\ UNCHANGED <<finalizers, tick, memory, opened>>
BY DEF ReconcileInsert, NewRow, TypeOK

LEMMA SchedulerScan ==
    ASSUME TypeOK, SchedulerInv, FinalizerInv, ScanStep
    PROVE  SchedulerInv'
<1>0. tick.closing \subseteq Executions /\ opened \subseteq Executions
  BY DEF TypeOK, Ticks
<1>1. ASSUME NEW s \in Schedules,
             IndexFile(s) \/ \E k \in Scanners : ReconcileCount(k, s)
      PROVE  SchedulerInv'
  BY <1>1, SchedulerStutter DEF IndexFile, ReconcileCount, database
<1>2. ASSUME UNCHANGED <<tick, memory, opened>>,
             \A f \in opened \cup tick.closing :
                \/ row'[f] = row[f]
                \/ ~Running(f) /\ ~Running(f)' /\ row'[f] # NoRow
      PROVE  SchedulerInv'
  <2>1. TickInv' /\ PlanInv' /\ KnownInv'
    BY <1>2 DEF SchedulerInv, TickInv, PlanInv, KnownInv, Want, Running, ProgramOf, memory
  <2>2. OpenInv' /\ OpenedExist'
    BY <1>2 DEF SchedulerInv, OpenInv, OpenedExist, Running, ProgramOf, memory
  <2>3. NoDoubleStart'
    BY <1>2 DEF SchedulerInv, NoDoubleStart, Running, ProgramOf
  <2> QED
    BY <2>1, <2>2, <2>3 DEF SchedulerInv
<1>3. ASSUME NEW e \in Executions,
             FinalizerFound(e) \/ FinalizerExpired(e) \/ ReconcileExpire(e)
      PROVE  SchedulerInv'
  BY <1>0, <1>2, <1>3, RowsThatEnded DEF Running, NoRow
<1>4. ASSUME NEW k \in Scanners, NEW e \in Executions, ReconcileInsert(k, e)
      PROVE  SchedulerInv'
  <2>1. e \notin opened /\ e \notin tick.closing
    BY <1>4, RowAdded DEF SchedulerInv, OpenedExist, TickInv, Running, NoRow
  <2> QED
    BY <1>0, <1>2, <1>4, <2>1, RowAdded
<1> QED
  BY <1>1, <1>3, <1>4 DEF ScanStep

LEMMA SchedulerStep ==
    ASSUME TypeOK, SchedulerInv, FinalizerInv, [Next]_vars
    PROVE  SchedulerInv'
<1>1. CASE UNCHANGED vars
  BY <1>1, SchedulerStutter DEF vars, memory
<1>2. CASE \E j \in Jobs : SyncStep(j)
  BY <1>2, SchedulerStutter
     DEF SyncStep, SyncGet, SyncWrite, RestoreRead, RestorePatch, database
<1>3. CASE ControlRestart
  BY <1>3 DEF ControlRestart, Idle, SchedulerInv, TickInv, PlanInv, KnownInv,
              OpenInv, OpenedExist, NoDoubleStart
<1>4. CASE EnvStep /\ ~ControlRestart
  <2>1. UNCHANGED <<tick, row, memory, opened>>
    BY <1>4 DEF EnvStep, SlotOpens, SlotCloses, EditSchedule, AdminSync,
                MonitorTick, MediaRestart, database
  <2> QED
    BY <2>1, SchedulerStutter
<1> QED
  BY <1>1, <1>2, <1>3, <1>4, SchedulerTick, SchedulerScan DEF Next

(* What a step may do to a row that is in verification or settled, and to  *)
(* the set of finalizers.                                                  *)
LEMMA OutcomeStep ==
    ASSUME TypeOK, SchedulerInv, FinalizerInv, [Next]_vars, NEW e \in Executions
    PROVE  /\ row[e].status = "completed" => row'[e] = row[e]
           /\ row[e].status \in {"verifying", "failed"} =>
                row'[e].status \in {"verifying", "completed", "failed"}
           /\ row[e].status = "failed" => row'[e].status # "verifying"
           /\ e \in finalizers' => row'[e].status \in {"verifying", "failed"}
<1>0. e \in finalizers => row[e].status \in {"verifying", "failed"}
  BY DEF FinalizerInv
<1>1. CASE row' = row /\ finalizers' \subseteq finalizers
  BY <1>0, <1>1
<1>2. ASSUME NEW f \in Executions, StartExecution(f)
      PROVE  row[f] = NoRow \/ row' = row
  BY <1>2 DEF StartExecution, NewRow
<1>3. ASSUME NEW f \in Executions, row[f] = NoRow, finalizers' = finalizers,
             \A g \in Executions \ {f} : row'[g] = row[g]
      PROVE  /\ row[e].status \in {"completed", "verifying", "failed"} => row'[e] = row[e]
             /\ e \in finalizers' => row'[e].status \in {"verifying", "failed"}
  BY <1>0, <1>3 DEF NoRow
<1>4. ASSUME NEW f \in Executions, StartExecution(f), row' # row
      PROVE  /\ row[f] = NoRow /\ finalizers' = finalizers
             /\ \A g \in Executions \ {f} : row'[g] = row[g]
  BY <1>4 DEF StartExecution, NewRow, TypeOK
<1>5. ASSUME NEW f \in Executions, StopClose(f)
      PROVE  /\ row[f].status = "running" /\ row'[f].status = "verifying"
             /\ finalizers' = finalizers \cup {f}
             /\ \A g \in Executions \ {f} : row'[g] = row[g]
  BY <1>5 DEF StopClose, SchedulerInv, TickInv, Running, TypeOK, Rows
<1>6. CASE TickStep
  <2>1. CASE \E f \in Executions : StartExecution(f) \/ StopClose(f)
    BY <1>0, <1>1, <1>3, <1>4, <1>5, <2>1 DEF StartExecution
  <2>2. CASE ~\E f \in Executions : StartExecution(f) \/ StopClose(f)
    <3>1. row' = row /\ finalizers' = finalizers
      BY <1>6, <2>2 DEF TickStep, TickDesired, TickPrograms, TickDecide,
                        TickPatched, TickRefused, TickMark, StopSelect, database
    <3> QED
      BY <1>1, <3>1
  <2> QED
    BY <2>1, <2>2
<1>7. CASE ScanStep
  <2>1. CASE \E s \in Schedules :
                IndexFile(s) \/ \E k \in Scanners : ReconcileCount(k, s)
    BY <1>1, <2>1 DEF IndexFile, ReconcileCount, database
  <2>2. ASSUME NEW f \in Executions,
               FinalizerFound(f) \/ FinalizerExpired(f) \/ ReconcileExpire(f)
        PROVE  /\ row[e].status = "completed" => row'[e] = row[e]
               /\ row[e].status \in {"verifying", "failed"} =>
                    row'[e].status \in {"verifying", "completed", "failed"}
               /\ row[e].status = "failed" => row'[e].status # "verifying"
               /\ e \in finalizers' => row'[e].status \in {"verifying", "failed"}
    BY <1>0, <2>2, RowsThatEnded
  <2>3. CASE \E f \in Executions, k \in Scanners : ReconcileInsert(k, f)
    BY <1>3, <2>3, RowAdded
  <2> QED
    BY <1>7, <2>1, <2>2, <2>3 DEF ScanStep
<1>8. CASE UNCHANGED vars \/ EnvStep \/ \E j \in Jobs : SyncStep(j)
  <2>1. row' = row /\ finalizers' \subseteq finalizers
    BY <1>8 DEF vars, EnvStep, SlotOpens, SlotCloses, EditSchedule, AdminSync,
                MonitorTick, MediaRestart, ControlRestart, SyncStep, SyncGet,
                SyncWrite, RestoreRead, RestorePatch, database
  <2> QED
    BY <1>1, <2>1
<1> QED
  BY <1>6, <1>7, <1>8 DEF Next

LEMMA FinalizerStep ==
    ASSUME TypeOK, SchedulerInv, FinalizerInv, TypeOK', [Next]_vars
    PROVE  FinalizerInv'
BY OutcomeStep DEF FinalizerInv, TypeOK

-----------------------------------------------------------------------------
(* The record flag.                                                        *)

LEMMA SpentGrows ==
    ASSUME TypeOK, TypeOK', [Next]_vars
    PROVE  spent'.lost >= spent.lost /\ spent'.stale >= spent.stale
<1>0. spent \in [edits : Nat, lost : Nat, restarts : Nat, media : Nat, stale : Nat]
  BY DEF TypeOK
<1>1. spent.lost \in Nat /\ spent.stale \in Nat
  BY <1>0
<1>2. CASE UNCHANGED spent \/ Lose
  BY <1>1, <1>2 DEF Lose, TypeOK
<1>3. CASE TickStep \/ ScanStep \/ UNCHANGED vars
  BY <1>2, <1>3
     DEF TickStep, TickDesired, TickPrograms, TickDecide, TickPatched, TickRefused,
         TickMark, StartExecution, StopSelect, StopClose, ScanStep, IndexFile,
         Settle, FinalizerFound, FinalizerExpired, ReconcileExpire,
         ReconcileCount, ReconcileInsert, vars
<1>4. CASE \E j \in Jobs : SyncStep(j)
  BY <1>2, <1>4 DEF SyncStep, SyncGet, SyncWrite, RestoreRead, RestorePatch
<1>5. CASE \/ spent' = [spent EXCEPT !.edits = @ + 1]
           \/ spent' = [spent EXCEPT !.restarts = @ + 1]
           \/ spent' = [spent EXCEPT !.media = @ + 1]
           \/ spent' = [spent EXCEPT !.stale = @ + 1]
  BY <1>0, <1>1, <1>5
<1>6. CASE EnvStep
  BY <1>2, <1>5, <1>6 DEF EnvStep, SlotOpens, SlotCloses, EditSchedule, AdminSync,
                          MonitorTick, MediaRestart, ControlRestart
<1> QED
  BY <1>3, <1>4, <1>6 DEF Next

(* Steps that neither turn a flag on nor change the scheduler's memory.    *)
LEMMA FlagsKept ==
    ASSUME TypeOK, TypeOK', [Next]_vars, FlagInv, RepairInv', UNCHANGED memory,
           \A p \in Programs : path'[p] = "on" => path[p] = "on",
           \/ tick' = tick
           \/ tick.at # "mark" /\ tick'.at # "mark",
           tick'.at = "mark" => tick.p \in Programs
    PROVE  FlagInv'
<1>1. NoBlindRecording'
  BY SpentGrows DEF FlagInv, NoBlindRecording, TypeOK, memory
<1>2. TakenBack'
  BY SpentGrows DEF FlagInv, TakenBack, Want, TypeOK
<1> QED
  BY <1>1, <1>2 DEF FlagInv

LEMMA RepairKept ==
    ASSUME TypeOK, TypeOK', [Next]_vars, FlagInv
    PROVE  RepairInv'
<1>0. spent.stale \in Nat /\ spent'.stale \in Nat /\ spent'.stale >= spent.stale
  BY SpentGrows DEF TypeOK
<1>1. CASE job' = job
  BY <1>0, <1>1 DEF FlagInv, RepairInv
<1>2. CASE job' = JobsAtBoot
  BY <1>2 DEF RepairInv, JobsAtBoot, NoJob
<1>3. ASSUME NEW j \in Jobs, SyncStep(j)
      PROVE  RepairInv'
  <2>1. /\ job[j] \in JobStates
        /\ job[j].at \in {"restore", "patch"} => job[j].repairing
        /\ job[j].repairing \/ job[j].repair # {} => spent.stale > 0
    BY DEF TypeOK, FlagInv, RepairInv
  <2>2. /\ \A i \in Jobs \ {j} : job'[i] = job[i]
        /\ job'[j].at \in {"restore", "patch"} => job'[j].repairing
        /\ job'[j].repairing \/ job'[j].repair # {} =>
              job[j].repairing \/ job[j].repair # {}
    <3>1. CASE \E p \in Programs : SyncGet(j, p)
      <4>1. PICK p \in Programs, repairing \in BOOLEAN, found \in BOOLEAN :
              /\ repairing <=> job[j].repair # {}
              /\ job' = [job EXCEPT ![j] =
                   [at |-> "write", repair |-> job[j].repair \ {p},
                    todo |-> IF repairing THEN job[j].todo ELSE job[j].todo \ {p},
                    p |-> p, repairing |-> repairing, found |-> found]]
        BY <3>1 DEF SyncGet
      <4>2. /\ job'[j].at = "write" /\ job'[j].repairing = repairing
            /\ job'[j].repair = job[j].repair \ {p}
            /\ \A i \in Jobs \ {j} : job'[i] = job[i]
        BY <4>1 DEF TypeOK
      <4> QED
        BY <4>1, <4>2
    <3>2. CASE SyncWrite(j)
      <4>1. \/ job' = [job EXCEPT ![j] = Synced(job[j])]
            \/ job' = [job EXCEPT ![j] = Failed(j)]
        BY <3>2 DEF SyncWrite
      <4>2. /\ Synced(job[j]).at = "restore" => Synced(job[j]).repairing
            /\ Synced(job[j]).at \in {"next", "restore"}
            /\ Synced(job[j]).repairing => job[j].repairing
            /\ Synced(job[j]).repair = job[j].repair
        BY <2>1 DEF Synced, Done, JobStates
      <4>3. /\ Failed(j).at = "next" /\ Failed(j).repairing = FALSE
            /\ Failed(j).repair = job[j].repair
        BY <2>1 DEF Failed, Done, JobStates
      <4> QED
        BY <4>1, <4>2, <4>3 DEF TypeOK
    <3>3. CASE RestoreRead(j)
      BY <2>1, <3>3 DEF RestoreRead, Done, JobStates, TypeOK
    <3>4. CASE RestorePatch(j)
      BY <2>1, <3>4 DEF RestorePatch, Done, JobStates, TypeOK
    <3> QED
      BY <1>3, <3>1, <3>2, <3>3, <3>4 DEF SyncStep
  <2> QED
    BY <1>0, <2>1, <2>2 DEF FlagInv, RepairInv
<1>4. ASSUME NEW S \in SUBSET Programs, AdminSync(S)
      PROVE  RepairInv'
  <2>1. \A j \in Jobs : /\ job'[j].at = job[j].at
                        /\ job'[j].repairing = job[j].repairing
                        /\ job'[j].repair = job[j].repair
    BY <1>4 DEF AdminSync, TypeOK, JobStates
  <2> QED
    BY <1>0, <2>1 DEF FlagInv, RepairInv
<1>5. ASSUME NEW stale \in SUBSET Programs, MonitorTick(stale)
      PROVE  RepairInv'
  <2>1. /\ "monitor" \in Jobs
        /\ \A j \in Jobs : /\ job'[j].at = job[j].at
                           /\ job'[j].repairing = job[j].repairing
        /\ \A j \in Jobs \ {"monitor"} : job'[j].repair = job[j].repair
        /\ job'["monitor"].repair = stale
    <3>1. "monitor" \in Jobs /\ job["monitor"] \in JobStates
      BY <1>5 DEF MonitorTick, TypeOK
    <3>2. PICK T \in SUBSET Programs :
            job' = [job EXCEPT !["monitor"] = [@ EXCEPT !.repair = stale, !.todo = T]]
      BY <1>5 DEF MonitorTick
    <3>3. job'["monitor"] = [job["monitor"] EXCEPT !.repair = stale, !.todo = T]
      BY <3>1, <3>2 DEF TypeOK
    <3>4. /\ job'["monitor"].at = job["monitor"].at
          /\ job'["monitor"].repairing = job["monitor"].repairing
          /\ job'["monitor"].repair = stale
      BY <3>1, <3>3 DEF JobStates
    <3> QED
      BY <3>1, <3>2, <3>4 DEF TypeOK
  <2>2. stale # {} => spent'.stale > 0
    BY <1>0, <1>5 DEF MonitorTick, TypeOK
  <2> QED
    BY <1>0, <2>1, <2>2 DEF FlagInv, RepairInv
<1>6. CASE TickStep \/ ScanStep \/ UNCHANGED vars
  <2>1. job' = job
    BY <1>6
       DEF TickStep, TickDesired, TickPrograms, TickDecide, TickPatched, TickRefused,
           TickMark, StartExecution, StopSelect, StopClose, ScanStep, IndexFile,
           Settle, FinalizerFound, FinalizerExpired, ReconcileExpire,
           ReconcileCount, ReconcileInsert, vars
  <2> QED
    BY <1>1, <2>1
<1>7. CASE EnvStep
  <2>1. \A S \in {{p} : p \in Programs} \cup {Programs} : S \in SUBSET Programs
    OBVIOUS
  <2> QED
    BY <1>1, <1>2, <1>4, <1>5, <1>7, <2>1
       DEF EnvStep, SlotOpens, SlotCloses, EditSchedule, MediaRestart, ControlRestart
<1> QED
  BY <1>3, <1>6, <1>7 DEF Next

LEMMA FlagStep ==
    ASSUME TypeOK, TypeOK', SchedulerInv, FlagInv, [Next]_vars
    PROVE  FlagInv'
<1>0. /\ RepairInv' /\ tick \in Ticks
      /\ spent.lost \in Nat /\ spent'.lost \in Nat /\ spent'.lost >= spent.lost
      /\ spent.stale \in Nat /\ spent'.stale \in Nat /\ spent'.stale >= spent.stale
  BY RepairKept, SpentGrows DEF TypeOK
<1>1. CASE TickPatched
  <2>1. /\ tick.at = "patching" /\ tick.p \in Programs
        /\ path' = [path EXCEPT ![tick.p] = Flag(Want)]
        /\ active' = active /\ known' = known
    BY <1>1 DEF TickPatched, SchedulerInv, TickInv, memory
  <2>2. \/ tick' = [tick EXCEPT !.at = "mark"] /\ spent' = spent
        \/ Ambiguous /\ spent'.lost > 0 /\ tick' = Onwards(tick)
    BY <1>0, <1>1 DEF TickPatched, Lose, TypeOK
  <2>3. NoBlindRecording'
    BY <1>0, <2>1, <2>2 DEF FlagInv, NoBlindRecording, Ticks, TypeOK
  <2>4. TakenBack'
    <3>1. CASE tick' = [tick EXCEPT !.at = "mark"]
      <4>1. tick'.p = tick.p /\ tick'.plan = tick.plan
        BY <1>0, <3>1 DEF Ticks
      <4> QED
        BY <2>1, <4>1 DEF TakenBack, Want, Flag, TypeOK
    <3>2. CASE Ambiguous /\ spent'.lost > 0
      BY <3>2 DEF TakenBack
    <3> QED
      BY <2>2, <3>1, <3>2
  <2> QED
    BY <1>0, <2>3, <2>4 DEF FlagInv
<1>2. CASE TickMark
  <2>1. /\ tick.at = "mark" /\ tick.p \in Programs
        /\ active' = [active EXCEPT ![tick.p] = Want]
        /\ known' = [known EXCEPT ![tick.p] = TRUE]
        /\ path' = path /\ spent' = spent
    BY <1>2 DEF TickMark, SchedulerInv, TickInv
  <2>2. tick'.at # "mark"
    <3>1. Onwards(tick).at # "mark"
      BY <1>0, <2>1, OnwardsFacts DEF SchedulerInv, TickInv
    <3> QED
      BY <1>0, <1>2, <3>1 DEF TickMark, Ticks
  <2>3. TakenBack'
    BY <2>2 DEF TakenBack
  <2>4. NoBlindRecording'
    BY <2>1 DEF FlagInv, TakenBack, NoBlindRecording, TypeOK
  <2> QED
    BY <1>0, <2>3, <2>4 DEF FlagInv
<1>3. CASE TickStep /\ ~TickPatched /\ ~TickMark
  <2>1. path' = path /\ UNCHANGED memory /\ tick.at # "mark"
    BY <1>3 DEF TickStep, TickDesired, TickPrograms, TickDecide, TickRefused,
                StartExecution, StopSelect, StopClose
  <2>2. tick'.at # "mark"
    <3>1. ASSUME NEW t \in Ticks PROVE Onwards(t).at # "mark"
      BY DEF Onwards, Ticks, Idle
    <3>2. \A T \in SUBSET Programs : [tick EXCEPT !.todo = T] \in Ticks
      BY <1>0 DEF Ticks
    <3>3. \A C \in SUBSET Executions : [tick EXCEPT !.closing = C] \in Ticks
      BY <1>0 DEF Ticks
    <3>4. CASE TickDesired
      BY <1>0, <3>4 DEF TickDesired, Ticks
    <3>5. CASE TickPrograms
      BY <3>1, <3>2, <3>5 DEF TickPrograms
    <3>6. ASSUME NEW p \in Programs, TickDecide(p) PROVE tick'.at # "mark"
      <4>1. [tick EXCEPT !.todo = tick.todo \ {p}] \in Ticks
        BY <1>0 DEF Ticks
      <4> QED
        BY <1>0, <3>1, <3>6, <4>1 DEF TickDecide, Ticks
    <3>7. CASE TickRefused
      BY <1>0, <3>1, <3>7 DEF TickRefused
    <3>8. CASE \E e \in Executions : StartExecution(e)
      BY <1>0, <3>1, <3>8 DEF StartExecution
    <3>9. CASE StopSelect
      BY <1>0, <3>1, <3>9 DEF StopSelect, Ticks
    <3>10. ASSUME NEW e \in Executions, StopClose(e) PROVE tick'.at # "mark"
      <4>1. [tick EXCEPT !.closing = tick.closing \ {e}] \in Ticks
        BY <1>0 DEF Ticks
      <4> QED
        BY <1>0, <3>1, <3>10, <4>1 DEF StopClose, Ticks
    <3> QED
      BY <1>3, <3>4, <3>5, <3>6, <3>7, <3>8, <3>9, <3>10 DEF TickStep
  <2> QED
    BY <1>0, <2>1, <2>2, FlagsKept
<1>4. CASE ControlRestart
  BY <1>0, <1>4 DEF ControlRestart, Idle, FlagInv, TakenBack, NoBlindRecording
<1>5. ASSUME NEW j \in Jobs, RestorePatch(j)
      PROVE  FlagInv'
  <2>1. spent.stale > 0 /\ UNCHANGED <<tick, memory>>
    BY <1>5 DEF RestorePatch, FlagInv, RepairInv
  <2> QED
    BY <1>0, <2>1 DEF FlagInv, TakenBack, NoBlindRecording
<1>6. CASE /\ UNCHANGED <<tick, memory>>
           /\ \A p \in Programs : path'[p] = "on" => path[p] = "on"
  <2>1. tick'.at = "mark" => tick.p \in Programs
    BY <1>6 DEF SchedulerInv, TickInv
  <2>2. tick' = tick /\ UNCHANGED memory
    BY <1>6
  <2>3. \A p \in Programs : path'[p] = "on" => path[p] = "on"
    BY <1>6
  <2>4. RepairInv' /\ FlagInv
    BY <1>0
  <2> QED
    BY <2>1, <2>2, <2>3, <2>4, FlagsKept
<1>7. CASE ScanStep \/ UNCHANGED vars
  BY <1>6, <1>7
     DEF ScanStep, IndexFile, Settle, FinalizerFound, FinalizerExpired,
         ReconcileExpire, ReconcileCount, ReconcileInsert, vars, memory
<1>8. ASSUME NEW j \in Jobs, SyncStep(j), ~RestorePatch(j)
      PROVE  FlagInv'
  BY <1>6, <1>8 DEF SyncStep, SyncGet, SyncWrite, RestoreRead, TypeOK
<1>9. CASE EnvStep /\ ~ControlRestart
  BY <1>6, <1>9 DEF EnvStep, SlotOpens, SlotCloses, EditSchedule, AdminSync,
                    MonitorTick, MediaRestart, TypeOK
<1> QED
  BY <1>1, <1>2, <1>3, <1>4, <1>5, <1>7, <1>8, <1>9 DEF Next

-----------------------------------------------------------------------------
(* The theorems.                                                           *)

LEMMA InvInit == Init => IInv
<1>1. Init => TypeOK
  BY TypeInit
<1>2. Init => SchedulerInv /\ FinalizerInv
  BY DEF Init, Idle, SchedulerInv, TickInv, PlanInv, KnownInv, OpenInv,
         OpenedExist, NoDoubleStart, FinalizerInv
<1>3. Init => FlagInv
  BY DEF Init, Idle, JobsAtBoot, NoJob, FlagInv, RepairInv, TakenBack, NoBlindRecording
<1> QED
  BY <1>1, <1>2, <1>3 DEF IInv

LEMMA InvStep == IInv /\ [Next]_vars => IInv'
<1> SUFFICES ASSUME IInv, [Next]_vars
             PROVE  IInv'
  OBVIOUS
<1>1. TypeOK'
  BY TypeStep DEF IInv, SchedulerInv
<1>2. SchedulerInv'
  BY SchedulerStep DEF IInv
<1>3. FinalizerInv'
  BY <1>1, FinalizerStep DEF IInv
<1>4. FlagInv'
  BY <1>1, FlagStep DEF IInv
<1> QED
  BY <1>1, <1>2, <1>3, <1>4 DEF IInv

(* The strengthening holds of every reachable state.                       *)
THEOREM RecordingInvariant == Spec => []IInv
<1> QED
  BY InvInit, InvStep, PTL DEF Spec

(* Every variable keeps its type.                                          *)
THEOREM RecordingTypeCorrect == Spec => []TypeOK
<1>1. IInv => TypeOK
  BY DEF IInv
<1> QED
  BY RecordingInvariant, <1>1, PTL

(* Between two boots the scheduler never has two open rows of its own for  *)
(* one program.                                                            *)
THEOREM OneOpenRow == Spec => []NoDoubleStart
<1>1. IInv => NoDoubleStart
  BY DEF IInv, SchedulerInv
<1> QED
  BY RecordingInvariant, <1>1, PTL

(* MediaMTX records a program the scheduler believes to be off only after  *)
(* a timed-out request that was applied or a repair of a stale path.       *)
THEOREM RecordingIsKnown == Spec => []NoBlindRecording
<1>1. IInv => NoBlindRecording
  BY DEF IInv, FlagInv
<1> QED
  BY RecordingInvariant, <1>1, PTL

(* Completed executions stay completed, and no row that ended is reopened. *)
THEOREM OutcomesAreFinal == Spec => OutcomeIsFinal
<1> DEFINE Lasts ==
        \A e \in Executions :
          /\ row[e].status = "completed" => row'[e] = row[e]
          /\ row[e].status \in {"verifying", "failed"} =>
                row'[e].status \in {"verifying", "completed", "failed"}
          /\ row[e].status = "failed" => row'[e].status # "verifying"
<1>1. IInv /\ [Next]_vars => [Lasts]_row
  BY OutcomeStep DEF IInv
<1> QED
  BY RecordingInvariant, <1>1, PTL DEF Spec, OutcomeIsFinal

=============================================================================
