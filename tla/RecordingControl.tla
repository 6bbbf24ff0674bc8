-------------------------- MODULE RecordingControl --------------------------
(***************************************************************************)
(* control-api: who tells MediaMTX to record, and what the execution       *)
(* history says about it.  Four kinds of goroutines of one process write   *)
(* the record flag of a MediaMTX path without a common lock: the scheduler *)
(* (every 5 s), the boot synchronisation, the MediaMTX monitor and the     *)
(* admin handlers.  The scheduler trusts its memory of the last flag it    *)
(* wrote.  Execution rows are opened and closed by the scheduler, settled  *)
(* by finalizer goroutines, and expired or rebuilt by scanners.  Either    *)
(* process may restart; a request may be lost, or be applied and reported  *)
(* as failed when the 15 s client timeout strikes.                         *)
(***************************************************************************)
EXTENDS Integers, FiniteSets

CONSTANTS
    Programs, Schedules,
    program,       \* program[s]: the program schedule s belongs to
    Executions,    \* identifiers of execution rows
    Scanners,      \* concurrent runs of scanRecordings / reconcileRecordingExecutions
    Jobs,          \* synchronising goroutines, a subset of JobKinds
    None,
    Ambiguous,     \* may a request time out although MediaMTX applied it?
    MaxOccurrences, MaxEdits, MaxLost, MaxRestarts, MaxMediaRestarts, MaxStale

JobKinds == {"boot", "monitor", "admin"}

ASSUME RecordingAssumption ==
    /\ program \in [Schedules -> Programs]
    /\ None \notin Schedules \cup Programs
    /\ Jobs \subseteq JobKinds
    /\ Ambiguous \in BOOLEAN

VARIABLES
    enabled,       \* program.enabled
    armed,         \* armed[s]: schedule.enabled and program.record_enabled
    slot,          \* slot[s]: the latest occurrence, and is the clock inside it?
    filed,         \* filed[s]: a file of the latest occurrence is indexed
    row,           \* table recording_execution
    path,          \* MediaMTX: the dynamic path and its record flag
    active, known, \* app.active, app.activeKnown
    tick,          \* the scheduler goroutine
    job,           \* the synchronising goroutines
    finalizers,    \* rows with a live finalizeExecution goroutine
    claim,         \* claim[k]: the insert scanner k decided on
    opened,        \* history: rows startExecution inserted since the last boot
    spent          \* environment actions taken, against their bounds

vars == <<enabled, armed, slot, filed, row, path, active, known, tick, job,
          finalizers, claim, opened, spent>>
database == <<enabled, armed, row>>
clock == <<slot, filed>>
memory == <<active, known>>

Statuses == {"none", "running", "verifying", "completed", "failed"}
Rows == [status : Statuses, sched : Schedules \cup {None}, occ : Nat]
NoRow == [status |-> "none", sched |-> None, occ |-> 0]

TickPoints == {"idle", "programs", "decide", "patching", "mark",
               "start", "stop", "closing"}
Ticks == [at : TickPoints, plan : [Programs -> Schedules \cup {None}],
          todo : SUBSET Programs, p : Programs \cup {None},
          was : BOOLEAN, knew : BOOLEAN, closing : SUBSET Executions]
Idle == [at |-> "idle", plan |-> [p \in Programs |-> None], todo |-> {},
         p |-> None, was |-> FALSE, knew |-> FALSE, closing |-> {}]

JobPoints == {"next", "write", "restore", "patch"}
JobStates == [at : JobPoints, repair : SUBSET Programs, todo : SUBSET Programs,
              p : Programs \cup {None}, repairing : BOOLEAN, found : BOOLEAN]
NoJob == [at |-> "next", repair |-> {}, todo |-> {}, p |-> None,
          repairing |-> FALSE, found |-> FALSE]

Claims == [sched : Schedules, occ : Nat, status : {"running", "completed"}]

TypeOK ==
    /\ enabled \in [Programs -> BOOLEAN]
    /\ armed \in [Schedules -> BOOLEAN]
    /\ slot \in [Schedules -> [occ : Nat, open : BOOLEAN]]
    /\ filed \in [Schedules -> BOOLEAN]
    /\ row \in [Executions -> Rows]
    /\ path \in [Programs -> {"absent", "off", "on"}]
    /\ active \in [Programs -> BOOLEAN]
    /\ known \in [Programs -> BOOLEAN]
    /\ tick \in Ticks
    /\ job \in [Jobs -> JobStates]
    /\ finalizers \in SUBSET Executions
    /\ claim \in [Scanners -> Claims \cup {None}]
    /\ opened \in SUBSET Executions
    /\ spent \in [edits : Nat, lost : Nat, restarts : Nat, media : Nat, stale : Nat]

(* The boot synchronisation goes over all programs.                        *)
JobsAtBoot ==
    [j \in Jobs |-> IF j = "boot" THEN [NoJob EXCEPT !.todo = Programs]
                                  ELSE NoJob]

Init ==
    /\ enabled = [p \in Programs |-> TRUE]
    /\ armed = [s \in Schedules |-> TRUE]
    /\ slot = [s \in Schedules |-> [occ |-> 0, open |-> FALSE]]
    /\ filed = [s \in Schedules |-> FALSE]
    /\ row = [e \in Executions |-> NoRow]
    /\ IF "boot" \in Jobs
       THEN path \in [Programs -> {"absent", "off"}]
       ELSE path = [p \in Programs |-> "off"]   \* synchronised long ago
    /\ active = [p \in Programs |-> FALSE]
    /\ known = [p \in Programs |-> FALSE]
    /\ tick = Idle
    /\ job = JobsAtBoot
    /\ finalizers = {}
    /\ claim = [k \in Scanners |-> None]
    /\ opened = {}
    /\ spent = [edits |-> 0, lost |-> 0, restarts |-> 0, media |-> 0, stale |-> 0]

Flag(b) == IF b THEN "on" ELSE "off"

Running(e) == row[e].status = "running"

ProgramOf(e) == program[row[e].sched]

(* A request fails without effect, or is applied but times out.            *)
Lose == /\ spent.lost < MaxLost
        /\ spent' = [spent EXCEPT !.lost = @ + 1]

-----------------------------------------------------------------------------
(* tickSchedule.                                                           *)

Candidates(p) ==
    {s \in Schedules : /\ program[s] = p /\ enabled[p]
                       /\ armed[s] /\ slot[s].open}

(* First query: the schedule that wants each program, the first in an      *)
(* unspecified order.                                                      *)
TickDesired ==
    /\ tick.at = "idle"
    /\ \E plan \in [Programs -> Schedules \cup {None}] :
          /\ \A p \in Programs :
                IF Candidates(p) = {} THEN plan[p] = None ELSE plan[p] \in Candidates(p)
          /\ tick' = [tick EXCEPT !.at = "programs", !.plan = plan]
    /\ UNCHANGED <<database, clock, path, memory, job, finalizers, claim, opened, spent>>

Onwards(t) == IF t.todo = {} THEN Idle
              ELSE [t EXCEPT !.at = "decide", !.p = None, !.was = FALSE, !.knew = FALSE]

(* Second query: the enabled programs, read after the first.               *)
TickPrograms ==
    /\ tick.at = "programs"
    /\ tick' = Onwards([tick EXCEPT !.todo = {p \in Programs : enabled[p]}])
    /\ UNCHANGED <<database, clock, path, memory, job, finalizers, claim, opened, spent>>

Want == tick.plan[tick.p] # None

NeedsPatchWhenUnequal(p) == (tick.plan[p] # None) # active[p]  \* variant

(* Compare with memory under stateMu; nothing to do if they agree.         *)
NeedsPatch(p) == (tick.plan[p] # None) # active[p] \/ ~known[p]

TickDecide(p) ==
    /\ tick.at = "decide"
    /\ p \in tick.todo
    /\ tick' = IF NeedsPatch(p)
               THEN [tick EXCEPT !.at = "patching", !.todo = @ \ {p}, !.p = p,
                                 !.was = active[p], !.knew = known[p]]
               ELSE Onwards([tick EXCEPT !.todo = @ \ {p}])
    /\ UNCHANGED <<database, clock, path, memory, job, finalizers, claim, opened, spent>>

(* PATCH record=want.  An error leaves memory alone; the next tick retries.*)
TickPatched ==
    /\ tick.at = "patching"
    /\ path[tick.p] # "absent"
    /\ path' = [path EXCEPT ![tick.p] = Flag(Want)]
    /\ \/ tick' = [tick EXCEPT !.at = "mark"] /\ UNCHANGED spent
       \/ Ambiguous /\ Lose /\ tick' = Onwards(tick)
    /\ UNCHANGED <<database, clock, memory, job, finalizers, claim, opened>>

TickRefused ==
    /\ tick.at = "patching"
    /\ IF path[tick.p] = "absent" THEN UNCHANGED spent ELSE Lose
    /\ tick' = Onwards(tick)
    /\ UNCHANGED <<database, clock, path, memory, job, finalizers, claim, opened>>

ForgetToMark ==   \* variant: remember only that the state is known
    /\ tick.at = "mark"
    /\ known' = [known EXCEPT ![tick.p] = TRUE]
    /\ tick' = IF Want THEN [tick EXCEPT !.at = "start"] ELSE Onwards(tick)
    /\ UNCHANGED <<database, clock, path, active, job, finalizers, claim, opened, spent>>

TickMark ==
    /\ tick.at = "mark"
    /\ active' = [active EXCEPT ![tick.p] = Want]
    /\ known' = [known EXCEPT ![tick.p] = TRUE]
    /\ tick' = CASE Want                   -> [tick EXCEPT !.at = "start"]
                 [] ~Want /\ tick.knew /\ tick.was -> [tick EXCEPT !.at = "stop"]
                 [] OTHER                  -> Onwards(tick)
    /\ UNCHANGED <<database, clock, path, job, finalizers, claim, opened, spent>>

(* INSERT a row that names the chosen schedule; started_at is now, which   *)
(* falls into the latest occurrence.  An error of the INSERT is ignored.   *)
NewRow(e, s, occ, status) ==
    /\ row[e] = NoRow
    /\ row' = [row EXCEPT ![e] = [status |-> status, sched |-> s, occ |-> occ]]

StartExecution(e) ==
    /\ tick.at = "start"
    /\ LET s == tick.plan[tick.p]
       IN  \/ NewRow(e, s, slot[s].occ, "running") /\ opened' = opened \cup {e}
           \/ UNCHANGED <<row, opened>>
    /\ tick' = Onwards(tick)
    /\ UNCHANGED <<enabled, armed, clock, path, memory, job, finalizers, claim, spent>>

(* stopExecution: select the rows without ended_at (the running ones: every*)
(* statement that sets another status sets ended_at) ...                   *)
StopSelect ==
    /\ tick.at = "stop"
    /\ LET pending == {e \in Executions : Running(e) /\ ProgramOf(e) = tick.p}
       IN  tick' = IF pending = {} THEN Onwards(tick)
                   ELSE [tick EXCEPT !.at = "closing", !.closing = pending]
    /\ UNCHANGED <<database, clock, path, memory, job, finalizers, claim, opened, spent>>

(* ... then close them one by one, each with a finalizer of its own.       *)
StopClose(e) ==
    /\ tick.at = "closing"
    /\ e \in tick.closing
    /\ row' = [row EXCEPT ![e].status = "verifying"]
    /\ finalizers' = finalizers \cup {e}
    /\ LET t == [tick EXCEPT !.closing = @ \ {e}]
       IN  tick' = IF t.closing = {} THEN Onwards(t) ELSE t
    /\ UNCHANGED <<enabled, armed, clock, path, memory, job, claim, opened, spent>>

TickStep ==
    \/ TickDesired \/ TickPrograms \/ TickPatched \/ TickRefused \/ TickMark
    \/ StopSelect
    \/ \E p \in Programs : TickDecide(p)
    \/ \E e \in Executions : StartExecution(e) \/ StopClose(e)

-----------------------------------------------------------------------------
(* finalizeExecution and the scanners.                                     *)

(* The file being written is indexed as well as the closed ones.           *)
IndexFile(s) ==
    /\ path[program[s]] = "on"
    /\ slot[s].occ > 0 /\ ~filed[s]
    /\ filed' = [filed EXCEPT ![s] = TRUE]
    /\ UNCHANGED <<database, slot, path, memory, tick, job, finalizers, claim, opened, spent>>

Settle(e, status) ==
    /\ row' = [row EXCEPT ![e].status = status]
    /\ UNCHANGED <<enabled, armed, clock, path, memory, tick, job, claim, opened, spent>>

FinalizerFoundAndLingers(e) ==   \* variant: no return after the update
    /\ e \in finalizers
    /\ \E s \in Schedules : program[s] = ProgramOf(e) /\ filed[s]
    /\ Settle(e, "completed")
    /\ UNCHANGED finalizers

(* A file since started_at was found, or 90 s are over.  The updates name  *)
(* the row by id only: they may overwrite what ReconcileExpire wrote.      *)
FinalizerFound(e) ==
    /\ e \in finalizers
    /\ \E s \in Schedules : program[s] = ProgramOf(e) /\ filed[s]
    /\ Settle(e, "completed")
    /\ finalizers' = finalizers \ {e}

FinalizerTimesOut(e) ==   \* variant: a status of its own
    /\ e \in finalizers
    /\ Settle(e, "timeout")
    /\ finalizers' = finalizers \ {e}

FinalizerExpired(e) ==
    /\ e \in finalizers
    /\ Settle(e, "failed")
    /\ finalizers' = finalizers \ {e}

ReconcileExpireHandled(e) ==   \* variant: only what a finalizer works on
    /\ row[e].status = "verifying"
    /\ e \in finalizers
    /\ Settle(e, "failed")
    /\ UNCHANGED finalizers

(* Rows that have been verifying for two minutes fail, whether or not a    *)
(* finalizer still works on them.                                          *)
ReconcileExpire(e) ==
    /\ row[e].status = "verifying"
    /\ Settle(e, "failed")
    /\ UNCHANGED finalizers

(* No row but a file for the latest occurrence: decide to insert one.      *)
ReconcileCount(k, s) ==
    /\ claim[k] = None
    /\ slot[s].occ > 0 /\ filed[s]
    /\ ~\E e \in Executions : row[e].sched = s /\ row[e].occ = slot[s].occ
    /\ claim' = [claim EXCEPT ![k] =
                    [sched |-> s, occ |-> slot[s].occ,
                     status |-> IF slot[s].open THEN "running" ELSE "completed"]]
    /\ UNCHANGED <<database, clock, path, memory, tick, job, finalizers, opened, spent>>

ReconcileInsert(k, e) ==
    /\ claim[k] # None
    /\ NewRow(e, claim[k].sched, claim[k].occ, claim[k].status)
    /\ claim' = [claim EXCEPT ![k] = None]
    /\ UNCHANGED <<enabled, armed, clock, path, memory, tick, job, finalizers, opened, spent>>

ScanStep ==
    \/ \E s \in Schedules : IndexFile(s) \/ \E k \in Scanners : ReconcileCount(k, s)
    \/ \E e \in Executions :
          \/ FinalizerFound(e) \/ FinalizerExpired(e) \/ ReconcileExpire(e)
          \/ \E k \in Scanners : ReconcileInsert(k, e)

-----------------------------------------------------------------------------
(* The synchronising goroutines: syncProgram is a GET of the path and then *)
(* a PATCH or a POST that always says record=false.                        *)

Rest(j) == job[j].at = "next" /\ job[j].repair = {} /\ job[j].todo = {}

(* updateProgram and the destination handlers synchronise one program      *)
(* after their write, the settings handler all of them.                    *)
AdminSync(S) ==
    /\ "admin" \in Jobs
    /\ Rest("admin")
    /\ spent.edits < MaxEdits
    /\ spent' = [spent EXCEPT !.edits = @ + 1]
    /\ \/ UNCHANGED enabled
       \/ \E p \in Programs : /\ S = {p}
                              /\ enabled' = [enabled EXCEPT ![p] = ~@]
    /\ job' = [job EXCEPT !["admin"].todo = S]
    /\ UNCHANGED <<armed, row, clock, path, memory, tick, finalizers, claim, opened>>

MonitorIgnoresMissing(stale) ==   \* variant: repair stale paths only
    /\ "monitor" \in Jobs
    /\ Rest("monitor")
    /\ stale # {} /\ stale \subseteq {p \in Programs : enabled[p] /\ path[p] # "absent"}
    /\ job' = [job EXCEPT !["monitor"].repair = stale]
    /\ spent.stale < MaxStale
    /\ spent' = [spent EXCEPT !.stale = @ + 1]
    /\ UNCHANGED <<database, clock, path, memory, tick, finalizers, claim, opened>>

(* reconcileMediaMTX: of the enabled programs, the stale paths are         *)
(* rebuilt one by one; a missing path makes it synchronise everything.     *)
MonitorTick(stale) ==
    /\ "monitor" \in Jobs
    /\ Rest("monitor")
    /\ LET there == {p \in Programs : enabled[p] /\ path[p] # "absent"}
           missing == {p \in Programs : enabled[p] /\ path[p] = "absent"}
       IN  /\ stale \subseteq there
           /\ stale \cup missing # {}
           /\ job' = [job EXCEPT !["monitor"] =
                        [@ EXCEPT !.repair = stale,
                                  !.todo = IF missing = {} THEN {} ELSE Programs]]
    /\ IF stale = {} THEN UNCHANGED spent
       ELSE /\ spent.stale < MaxStale
            /\ spent' = [spent EXCEPT !.stale = @ + 1]
    /\ UNCHANGED <<database, clock, path, memory, tick, finalizers, claim, opened>>

(* upsertPath, GET: any error counts as "no such path".                    *)
SyncGet(j, p) ==
    /\ job[j].at = "next"
    /\ \E repairing, found \in BOOLEAN :
          /\ repairing <=> job[j].repair # {}
          /\ p \in IF repairing THEN job[j].repair ELSE job[j].todo
          /\ found => path[p] # "absent"
          /\ IF found \/ path[p] = "absent" THEN UNCHANGED spent ELSE Lose
          /\ job' = [job EXCEPT ![j] =
                       [at |-> "write", repair |-> job[j].repair \ {p},
                        todo |-> IF repairing THEN job[j].todo ELSE job[j].todo \ {p},
                        p |-> p, repairing |-> repairing, found |-> found]]
    /\ UNCHANGED <<database, clock, path, memory, tick, finalizers, claim, opened>>

Done(b) == [b EXCEPT !.at = "next", !.p = None, !.repairing = FALSE, !.found = FALSE]

Synced(b) == IF b.repairing THEN [b EXCEPT !.at = "restore"] ELSE Done(b)

(* An error in the monitor's repair skips that program; one in             *)
(* syncAllPrograms ends it, and the boot loop starts over after 5 s.       *)
Failed(j) ==
    IF job[j].repairing THEN Done(job[j])
    ELSE [Done(job[j]) EXCEPT !.todo = IF j = "boot" THEN Programs ELSE {}]

SyncWrite(j) ==
    /\ job[j].at = "write"
    /\ LET p == job[j].p
           accepted == job[j].found = (path[p] # "absent")
           failed == job' = [job EXCEPT ![j] = Failed(j)]
       IN  \/ /\ accepted
              /\ path' = [path EXCEPT ![p] = "off"]
              /\ \/ job' = [job EXCEPT ![j] = Synced(@)] /\ UNCHANGED spent
                 \/ Ambiguous /\ Lose /\ failed
           \/ /\ failed
              /\ IF accepted THEN Lose ELSE UNCHANGED spent
              /\ UNCHANGED path
    /\ UNCHANGED <<database, clock, memory, tick, finalizers, claim, opened>>

(* restoreRecordingState: read memory, then PATCH record=true.             *)
RestoreRead(j) ==
    /\ job[j].at = "restore"
    /\ job' = [job EXCEPT ![j] = IF active[job[j].p] THEN [@ EXCEPT !.at = "patch"]
                                                     ELSE Done(@)]
    /\ UNCHANGED <<database, clock, path, memory, tick, finalizers, claim, opened, spent>>

RestorePatch(j) ==
    /\ job[j].at = "patch"
    /\ LET p == job[j].p
       IN  \/ /\ path[p] # "absent"
              /\ path' = [path EXCEPT ![p] = "on"]
              /\ UNCHANGED spent
           \/ /\ IF path[p] = "absent" THEN UNCHANGED spent ELSE Lose
              /\ UNCHANGED path
    /\ job' = [job EXCEPT ![j] = Done(@)]
    /\ UNCHANGED <<database, clock, memory, tick, finalizers, claim, opened>>

SyncStep(j) ==
    \/ \E p \in Programs : SyncGet(j, p)
    \/ SyncWrite(j) \/ RestoreRead(j) \/ RestorePatch(j)

-----------------------------------------------------------------------------
(* The environment: the clock, schedule edits, restarts.                   *)

SlotOpens(s) ==
    /\ ~slot[s].open
    /\ slot[s].occ < MaxOccurrences
    /\ slot' = [slot EXCEPT ![s] = [occ |-> @.occ + 1, open |-> TRUE]]
    /\ filed' = [filed EXCEPT ![s] = FALSE]
    /\ UNCHANGED <<database, path, memory, tick, job, finalizers, claim, opened, spent>>

SlotCloses(s) ==
    /\ slot[s].open
    /\ slot' = [slot EXCEPT ![s].open = FALSE]
    /\ UNCHANGED <<database, filed, path, memory, tick, job, finalizers, claim, opened, spent>>

(* PATCH of a schedule: nothing else is told.                              *)
EditSchedule(s) ==
    /\ spent.edits < MaxEdits
    /\ spent' = [spent EXCEPT !.edits = @ + 1]
    /\ armed' = [armed EXCEPT ![s] = ~@]
    /\ UNCHANGED <<enabled, row, clock, path, memory, tick, job, finalizers, claim, opened>>

(* MediaMTX does not persist the paths made through its API.               *)
MediaRestart ==
    /\ spent.media < MaxMediaRestarts
    /\ spent' = [spent EXCEPT !.media = @ + 1]
    /\ path' = [p \in Programs |-> "absent"]
    /\ UNCHANGED <<database, clock, memory, tick, job, finalizers, claim, opened>>

RestartKeepsKnown ==   \* variant: activeKnown outlives the process
    /\ spent.restarts < MaxRestarts
    /\ spent' = [spent EXCEPT !.restarts = @ + 1]
    /\ active' = [p \in Programs |-> FALSE]
    /\ tick' = Idle
    /\ job' = JobsAtBoot
    /\ finalizers' = {}
    /\ claim' = [k \in Scanners |-> None]
    /\ opened' = {}
    /\ UNCHANGED <<database, clock, path, known>>

(* Only the database and MediaMTX survive a restart of control-api.        *)
ControlRestart ==
    /\ spent.restarts < MaxRestarts
    /\ spent' = [spent EXCEPT !.restarts = @ + 1]
    /\ active' = [p \in Programs |-> FALSE]
    /\ known' = [p \in Programs |-> FALSE]
    /\ tick' = Idle
    /\ job' = JobsAtBoot
    /\ finalizers' = {}
    /\ claim' = [k \in Scanners |-> None]
    /\ opened' = {}
    /\ UNCHANGED <<database, clock, path>>

EnvStep ==
    \/ \E s \in Schedules : SlotOpens(s) \/ SlotCloses(s) \/ EditSchedule(s)
    \/ \E S \in {{p} : p \in Programs} \cup {Programs} : AdminSync(S)
    \/ \E stale \in SUBSET Programs : MonitorTick(stale)
    \/ MediaRestart \/ ControlRestart

Next == TickStep \/ ScanStep \/ (\E j \in Jobs : SyncStep(j)) \/ EnvStep

Spec == Init /\ [][Next]_vars

(* Goroutines keep running, the monitor repeats every 30 s and the scan    *)
(* loop expires old rows.  Neither the clock nor anybody's edits are fair; *)
(* lost requests are bounded by MaxLost.                                   *)
Fairness ==
    /\ WF_vars(TickStep)
    /\ \A j \in Jobs : WF_vars(SyncStep(j))
    /\ WF_vars(MonitorTick({}))
    /\ \A e \in Executions : WF_vars(ReconcileExpire(e))

FairSpec == Spec /\ Fairness

-----------------------------------------------------------------------------
(* Properties.                                                             *)

(* Between two boots the scheduler never has two open rows of its own for  *)
(* one program: a start is recorded once, whatever edits, lost requests    *)
(* and other writers of the flag come in between.                          *)
NoDoubleStart ==
    \A e, f \in opened :
        Running(e) /\ Running(f) /\ ProgramOf(e) = ProgramOf(f) => e = f

(* MediaMTX does not record a program the scheduler believes to be off:    *)
(* besides a timed-out request that was applied and a repair that restores *)
(* the flag the scheduler just took back, no order of ticks, boot and      *)
(* monitor synchronisations, admin edits and restarts of either side gets  *)
(* there.                                                                  *)
NoBlindRecording ==
    \A p \in Programs :
        path[p] = "on" =>
            \/ active[p] \/ ~known[p]
            \/ tick.at = "mark" /\ tick.p = p
            \/ (Ambiguous /\ spent.lost > 0)
            \/ spent.stale > 0

(* The outcome of an execution is only ever corrected in one direction: a  *)
(* verified recording stays completed although finalizers and scanners     *)
(* update rows without looking, and no row that ended is opened again.     *)
OutcomeIsFinal ==
    [][\A e \in Executions :
          /\ row[e].status = "completed" => row'[e] = row[e]
          /\ row[e].status \in {"verifying", "failed"} =>
                row'[e].status \in {"verifying", "completed", "failed"}
          /\ row[e].status = "failed" => row'[e].status # "verifying"]_row

(* A row in verification is settled although a restart loses its           *)
(* finalizer ("Do not leave an execution stuck in verifying forever").     *)
VerificationEnds ==
    \A e \in Executions :
        (row[e].status = "verifying") ~> (row[e].status \in {"completed", "failed"})

Wanted(p) == Candidates(p) # {}

(* Nobody synchronises: every such write says record=false.                *)
Settled == \A j \in Jobs : Rest(j)

(* The scheduler has yet to send record=true for program p.                *)
Unaware(p) == ~active[p] /\ ~(tick.at = "mark" /\ tick.p = p)

(* MediaMTX comes to do what the schedules want, through lost requests,    *)
(* time-outs after the fact and restarts, under two conditions.  On: the   *)
(* scheduler sends the flag when the synchronisations (the one that every  *)
(* restart begins, those of admins) are over; a flag it sent earlier, one  *)
(* of them may have taken back without the scheduler noticing.  Off: the   *)
(* scheduler believes the program on, or has not known it since it was     *)
(* started; a PATCH that was applied but reported as failed, to a program  *)
(* known to be off, whose slot closes before the retry, is never undone.   *)
FollowsSchedule ==
    \A p \in Programs :
        /\ [](Unaware(p) /\ [](Wanted(p) /\ Settled) => <>[](path[p] = "on"))
        /\ []((active[p] \/ ~known[p]) /\ [](enabled[p] /\ ~Wanted(p)) => <>[](path[p] # "on"))

(* A path lost in a MediaMTX restart comes back while its program is       *)
(* enabled, although the boot synchronisation, the monitor and the admin   *)
(* handlers race to create it and one failure ends a synchronisation.      *)
PathsComeBack ==
    \A p \in Programs :
        (enabled[p] /\ path[p] = "absent") ~> (~enabled[p] \/ path[p] # "absent")

(* A recovery of the media path restores an active recording.              *)
RecoveryRestoresRecording ==
    \A p \in Programs : <>[](Wanted(p) /\ active[p]) => <>[](path[p] = "on")

(* A scanner rebuilds execution rows that are missing, and no others.      *)
RebuildsMissingRows ==
    [][\A k \in Scanners :
          claim[k] # None /\ claim'[k] = None /\ row' # row =>
             ~\E e \in Executions : /\ row[e].sched = claim[k].sched
                                    /\ row[e].occ = claim[k].occ]_vars

-----------------------------------------------------------------------------
(* The strengthening under which the safety properties are inductive.      *)

(* While the scheduler handles a program, nobody else touches what it      *)
(* remembers of it, and what it remembers calls for the change.            *)
TickInv ==
    /\ tick.at \in {"patching", "mark", "start", "stop", "closing"} => tick.p \in Programs
    /\ tick.at \in {"patching", "mark"} =>
          /\ tick.was = active[tick.p] /\ tick.knew = known[tick.p]
          /\ tick.was # Want \/ ~tick.knew
    /\ tick.at = "start" => Want /\ active[tick.p]
    /\ tick.at \in {"stop", "closing"} => ~active[tick.p]
    /\ \A e \in tick.closing : Running(e) /\ ProgramOf(e) = tick.p
    /\ tick.at # "closing" => tick.closing = {}

PlanInv == \A p \in Programs : tick.plan[p] # None => program[tick.plan[p]] = p

KnownInv == \A p \in Programs : active[p] => known[p]

(* A row of this boot that still runs belongs to a program the scheduler   *)
(* holds for active, or is about to be closed.                             *)
OpenInv ==
    \A e \in opened : Running(e) =>
        \/ active[ProgramOf(e)] /\ ~(tick.at = "start" /\ tick.p = ProgramOf(e))
        \/ tick.at = "stop" /\ tick.p = ProgramOf(e)
        \/ e \in tick.closing

OpenedExist == \A e \in opened : row[e] # NoRow

SchedulerInv ==
    TickInv /\ PlanInv /\ KnownInv /\ OpenInv /\ OpenedExist /\ NoDoubleStart

FinalizerInv == \A e \in finalizers : row[e].status \in {"verifying", "failed"}

(* Repairs, and so restored flags, come from stale paths only.             *)
RepairInv ==
    \A j \in Jobs :
        /\ job[j].at \in {"restore", "patch"} => job[j].repairing
        /\ job[j].repairing \/ job[j].repair # {} => spent.stale > 0

(* A flag just taken back is off when the scheduler notes it.              *)
TakenBack ==
    tick.at = "mark" /\ ~Want =>
        path[tick.p] # "on" \/ (Ambiguous /\ spent.lost > 0) \/ spent.stale > 0

FlagInv == RepairInv /\ TakenBack /\ NoBlindRecording

IInv == TypeOK /\ SchedulerInv /\ FinalizerInv /\ FlagInv

=============================================================================
