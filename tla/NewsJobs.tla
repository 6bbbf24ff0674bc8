------------------------------ MODULE NewsJobs ------------------------------
(***************************************************************************)
(* control-api: the jobs that cut news out of a recording.  Every job is a *)
(* directory with a state.json and an encrypted recovery record; the map   *)
(* newsWork.active says which of them this process works on, two slots say *)
(* how many at a time.  A create request reserves its entry of the map and *)
(* gives up the lock for everything slow: cleaning up the owner's expired  *)
(* directories, checking the recording, writing the recovery record.  A    *)
(* runner goroutine follows it.  After a restart recoverNewsJobs registers *)
(* the unfinished jobs before the server listens; afterwards a reader that *)
(* finds an unfinished job nobody works on writes it off as interrupted.   *)
(***************************************************************************)
EXTENDS Integers, FiniteSets

CONSTANTS
    Jobs,          \* job directories: an owner and a key each
    owner,         \* owner[j]
    parts,         \* parts[j]: clips of the job, 0 for a smart one
    MaxActive,     \* 8 in the code
    Slots,         \* 2 in the code
    None,
    MaxRestarts, MaxFaults

ASSUME NewsAssumption ==
    /\ IsFiniteSet(Jobs)
    /\ parts \in [Jobs -> Nat]
    /\ MaxActive \in Nat \ {0} /\ Slots \in Nat \ {0}
    /\ None \notin Jobs

VARIABLES
    disk,      \* disk[j]: state and files of state.json, state "none" without one
    recovery,  \* recovery[j]: recovery.enc was written
    changed,   \* changed[j]: the recording no longer is what recovery.enc describes
    expired,   \* expired[j]: expiresAt is over
    active,    \* newsWork.active
    slots,     \* jobs in a slot of newsSlots
    call,      \* call[j]: the create request for the job
    runner,    \* runner[j]: the goroutine runNewsJob, its clips done and files listed
    todo,      \* jobs recoverNewsJobs has still to look at
    serving,   \* the server listens
    spent      \* environment actions taken, against their bounds

vars == <<disk, recovery, changed, expired, active, slots, call, runner, todo,
          serving, spent>>
files == <<disk, recovery, changed, expired>>

States == {"none", "queued", "running", "completed", "failed"}
JobFiles == [state : States, files : Nat]
NoJob == [state |-> "none", files |-> 0]

CallPoints == {"none", "cleaning", "removing", "checking", "accepting"}
Calls == [at : CallPoints, others : SUBSET Jobs, other : Jobs \cup {None}]
NoCall == [at |-> "none", others |-> {}, other |-> None]

RunnerPoints == {"none", "waiting", "started", "opened", "working", "leaving",
                 "unslotted"}
Runners == [at : RunnerPoints, done : Nat, files : Nat]
NoRunner == [at |-> "none", done |-> 0, files |-> 0]

Spendings == [restarts : Nat, writes : Nat, changes : Nat, expired : Nat]

TypeOK ==
    /\ disk \in [Jobs -> JobFiles]
    /\ recovery \in [Jobs -> BOOLEAN]
    /\ changed \in [Jobs -> BOOLEAN]
    /\ expired \in [Jobs -> BOOLEAN]
    /\ active \in SUBSET Jobs
    /\ slots \in SUBSET Jobs
    /\ call \in [Jobs -> Calls]
    /\ runner \in [Jobs -> Runners]
    /\ todo \in SUBSET Jobs
    /\ serving \in BOOLEAN
    /\ spent \in Spendings

Init ==
    /\ disk = [j \in Jobs |-> NoJob]
    /\ recovery = [j \in Jobs |-> FALSE]
    /\ changed = [j \in Jobs |-> FALSE]
    /\ expired = [j \in Jobs |-> FALSE]
    /\ active = {}
    /\ slots = {}
    /\ call = [j \in Jobs |-> NoCall]
    /\ runner = [j \in Jobs |-> NoRunner]
    /\ todo = {}
    /\ serving = TRUE
    /\ spent = [restarts |-> 0, writes |-> 0, changes |-> 0, expired |-> 0]

NewRunner == [NoRunner EXCEPT !.at = "waiting"]

Stored(j) == disk[j].state # "none"

Unfinished(j) == disk[j].state \in {"queued", "running"}

(* Bound: what the environment does to the disk besides restarts.          *)
MayHappen == spent.writes + spent.changes + spent.expired < MaxFaults

(* writeNewsJob replaces state.json as a whole.  Most callers ignore that  *)
(* it may fail, and then the old one stays.                                *)
WriteFails == /\ MayHappen
              /\ spent' = [spent EXCEPT !.writes = @ + 1]

Write(j, job) ==
    \/ disk' = [disk EXCEPT ![j] = job] /\ UNCHANGED spent
    \/ WriteFails /\ UNCHANGED disk

-----------------------------------------------------------------------------
(* createNewsJob.                                                          *)

(* Under the lock: a key that exists is answered from its state.json; too  *)
(* many jobs, or one of the same owner, are refused; else take the entry.  *)
Submit(j) ==
    /\ serving
    /\ ~Stored(j)
    /\ Cardinality(active) < MaxActive
    /\ \A i \in active : owner[i] # owner[j]
    /\ active' = active \cup {j}
    /\ call' = [call EXCEPT ![j] =
                  [at |-> "cleaning", other |-> None,
                   others |-> {i \in Jobs : owner[i] = owner[j] /\ Stored(i)}]]
    /\ UNCHANGED <<files, slots, runner, todo, serving, spent>>

(* Without the lock: every directory of the owner that is expired, and not *)
(* active when looked up under the lock, is removed after the lookup.      *)
Removable(i) == Stored(i) /\ expired[i] /\ i \notin active

CleanUp(j, i) ==
    /\ call[j].at = "cleaning"
    /\ i \in call[j].others
    /\ call' = [call EXCEPT ![j] =
                  [at |-> IF Removable(i) THEN "removing" ELSE "cleaning",
                   other |-> IF Removable(i) THEN i ELSE None,
                   others |-> @.others \ {i}]]
    /\ UNCHANGED <<files, active, slots, runner, todo, serving, spent>>

RemoveAll(j) ==
    /\ call[j].at = "removing"
    /\ LET i == call[j].other
       IN  /\ disk' = [disk EXCEPT ![i] = NoJob]
           /\ recovery' = [recovery EXCEPT ![i] = FALSE]
           /\ changed' = [changed EXCEPT ![i] = FALSE]
           /\ expired' = [expired EXCEPT ![i] = FALSE]
    /\ call' = [call EXCEPT ![j] = [@ EXCEPT !.at = "cleaning", !.other = None]]
    /\ UNCHANGED <<active, slots, runner, todo, serving, spent>>

CleanedUp(j) ==
    /\ call[j].at = "cleaning"
    /\ call[j].others = {}
    /\ call' = [call EXCEPT ![j].at = "checking"]
    /\ UNCHANGED <<files, active, slots, runner, todo, serving, spent>>

(* The deferred delete of a request that was not accepted.                 *)
GiveUp(j) ==
    /\ active' = active \ {j}
    /\ call' = [call EXCEPT ![j] = NoCall]

(* Daily limit, recording, duration, parts, configuration, free space, or  *)
(* the recovery record could not be written.                               *)
Refuse(j) ==
    /\ call[j].at = "checking"
    /\ GiveUp(j)
    /\ UNCHANGED <<files, slots, runner, todo, serving, spent>>

(* The recovery record fingerprints the recording as it is now; it is on   *)
(* disk before the job is.                                                 *)
SaveRecovery(j) ==
    /\ call[j].at = "checking"
    /\ recovery' = [recovery EXCEPT ![j] = TRUE]
    /\ changed' = [changed EXCEPT ![j] = FALSE]
    /\ call' = [call EXCEPT ![j].at = "accepting"]
    /\ UNCHANGED <<disk, expired, active, slots, runner, todo, serving, spent>>

AcceptAndGiveUp(j) ==   \* variant: the deferred delete runs in any case
    /\ call[j].at = "accepting"
    /\ disk' = [disk EXCEPT ![j] = [state |-> "queued", files |-> 0]]
    /\ runner' = [runner EXCEPT ![j] = NewRunner]
    /\ GiveUp(j)
    /\ UNCHANGED <<recovery, changed, expired, slots, todo, serving, spent>>

Accept(j) ==
    /\ call[j].at = "accepting"
    /\ disk' = [disk EXCEPT ![j] = [state |-> "queued", files |-> 0]]
    /\ runner' = [runner EXCEPT ![j] = NewRunner]
    /\ call' = [call EXCEPT ![j] = NoCall]
    /\ UNCHANGED <<recovery, changed, expired, active, slots, todo, serving, spent>>

RefuseUnwritten(j) ==
    /\ call[j].at = "accepting"
    /\ WriteFails
    /\ GiveUp(j)
    /\ UNCHANGED <<files, slots, runner, todo, serving>>

CallStep(j) ==
    \/ CleanedUp(j) \/ RemoveAll(j) \/ Refuse(j) \/ SaveRecovery(j)
    \/ Accept(j) \/ RefuseUnwritten(j)
    \/ \E i \in Jobs : CleanUp(j, i)

-----------------------------------------------------------------------------
(* runNewsJob.                                                             *)

(* Blocked senders of a channel get their turn in the order of arrival.    *)
TakeSlot(j) ==
    /\ runner[j].at = "waiting"
    /\ Cardinality(slots) < Slots
    /\ slots' = slots \cup {j}
    /\ runner' = [runner EXCEPT ![j].at = "started"]
    /\ UNCHANGED <<files, active, call, todo, serving, spent>>

Start(j) ==
    /\ runner[j].at = "started"
    /\ Write(j, [state |-> "running", files |-> runner[j].files])
    /\ runner' = [runner EXCEPT ![j].at = "opened"]
    /\ UNCHANGED <<recovery, changed, expired, active, slots, call, todo, serving>>

(* The recording still is the one the job was accepted for.                *)
CheckSource(j) ==
    /\ runner[j].at = "opened"
    /\ ~changed[j]
    /\ runner' = [runner EXCEPT ![j].at = "working"]
    /\ UNCHANGED <<files, active, slots, call, todo, serving, spent>>

(* One more clip was encoded or fetched; save the list.                    *)
NextClip(j) ==
    /\ runner[j].at = "working"
    /\ runner[j].done < parts[j]
    /\ LET n == runner[j].files + 1
       IN  /\ runner' = [runner EXCEPT ![j] =
                            [at |-> "working", done |-> runner[j].done + 1, files |-> n]]
           /\ Write(j, [state |-> "running", files |-> n])
    /\ UNCHANGED <<recovery, changed, expired, active, slots, call, todo, serving>>

(* All clips are there, the ZIP is written (or the analysis is done).      *)
Complete(j) ==
    /\ runner[j].at = "working"
    /\ runner[j].done >= parts[j]
    /\ Write(j, [state |-> "completed", files |-> runner[j].files])
    /\ runner' = [runner EXCEPT ![j].at = "leaving"]
    /\ UNCHANGED <<recovery, changed, expired, active, slots, call, todo, serving>>

(* The recording changed, a service failed or two hours are over.          *)
Fail(j) ==
    /\ runner[j].at \in {"opened", "working"}
    /\ Write(j, [state |-> "failed", files |-> runner[j].files])
    /\ runner' = [runner EXCEPT ![j].at = "leaving"]
    /\ UNCHANGED <<recovery, changed, expired, active, slots, call, todo, serving>>

(* The deferred calls, last in first out.                                  *)
LeaveWithSlot(j) ==   \* variant: the slot is never returned
    /\ runner[j].at = "leaving"
    /\ runner' = [runner EXCEPT ![j].at = "unslotted"]
    /\ UNCHANGED <<files, active, slots, call, todo, serving, spent>>

LeaveSlot(j) ==
    /\ runner[j].at = "leaving"
    /\ slots' = slots \ {j}
    /\ runner' = [runner EXCEPT ![j].at = "unslotted"]
    /\ UNCHANGED <<files, active, call, todo, serving, spent>>

Unregister(j) ==
    /\ runner[j].at = "unslotted"
    /\ active' = active \ {j}
    /\ runner' = [runner EXCEPT ![j] = NoRunner]
    /\ UNCHANGED <<files, slots, call, todo, serving, spent>>

RunnerStep(j) ==
    \/ Start(j) \/ CheckSource(j) \/ NextClip(j) \/ Complete(j) \/ Fail(j)
    \/ LeaveSlot(j) \/ Unregister(j)

-----------------------------------------------------------------------------
(* recordingJobs and listNewsJobs: a job that claims to be in progress and *)
(* is not active was interrupted by a restart.                             *)
ReadInterruptedJob(j) ==   \* variant: a state of its own
    /\ serving
    /\ Unfinished(j) /\ j \notin active
    /\ Write(j, [disk[j] EXCEPT !.state = "interrupted"])
    /\ UNCHANGED <<recovery, changed, expired, active, slots, call, runner, todo, serving>>

ReadJob(j) ==
    /\ serving
    /\ Unfinished(j) /\ j \notin active
    /\ Write(j, [disk[j] EXCEPT !.state = "failed"])
    /\ UNCHANGED <<recovery, changed, expired, active, slots, call, runner, todo, serving>>

-----------------------------------------------------------------------------
(* A restart and recoverNewsJobs.                                          *)

Restart ==
    /\ spent.restarts < MaxRestarts
    /\ spent' = [spent EXCEPT !.restarts = @ + 1]
    /\ active' = {}
    /\ slots' = {}
    /\ call' = [j \in Jobs |-> NoCall]
    /\ runner' = [j \in Jobs |-> NoRunner]
    /\ todo' = {j \in Jobs : Stored(j)}
    /\ serving' = FALSE
    /\ UNCHANGED files

Recoverable(j) == recovery[j] /\ ~changed[j]

(* Finished and expired jobs stay as they are.                             *)
SkipJob(j) ==
    /\ j \in todo
    /\ ~Unfinished(j) \/ expired[j]
    /\ todo' = todo \ {j}
    /\ UNCHANGED <<files, active, slots, call, runner, serving, spent>>

RecoverFails(j) ==
    /\ j \in todo
    /\ Unfinished(j) /\ ~expired[j]
    /\ ~Recoverable(j) \/ Cardinality(active) >= MaxActive
    /\ Write(j, [disk[j] EXCEPT !.state = "failed"])
    /\ todo' = todo \ {j}
    /\ UNCHANGED <<recovery, changed, expired, active, slots, call, runner, serving>>

RecoverRunning(j) ==   \* variant: a recovered job does not queue for a slot
    /\ j \in todo
    /\ Unfinished(j) /\ ~expired[j]
    /\ Recoverable(j) /\ Cardinality(active) < MaxActive
    /\ active' = active \cup {j}
    /\ Write(j, [state |-> "queued", files |-> 0])
    /\ runner' = [runner EXCEPT ![j] = [NoRunner EXCEPT !.at = "started"]]
    /\ todo' = todo \ {j}
    /\ UNCHANGED <<recovery, changed, expired, slots, call, serving>>

RecoverWithFiles(j) ==   \* variant: go on with the list of the earlier run
    /\ j \in todo
    /\ Unfinished(j) /\ ~expired[j]
    /\ Recoverable(j) /\ Cardinality(active) < MaxActive
    /\ active' = active \cup {j}
    /\ Write(j, [disk[j] EXCEPT !.state = "queued"])
    /\ runner' = [runner EXCEPT ![j] = [NewRunner EXCEPT !.files = disk[j].files]]
    /\ todo' = todo \ {j}
    /\ UNCHANGED <<recovery, changed, expired, slots, call, serving>>

RecoverFinished(j) ==   \* variant: the state of the job is not looked at
    /\ j \in todo
    /\ ~expired[j]
    /\ Recoverable(j) /\ Cardinality(active) < MaxActive
    /\ active' = active \cup {j}
    /\ Write(j, [state |-> "queued", files |-> 0])
    /\ runner' = [runner EXCEPT ![j] = NewRunner]
    /\ todo' = todo \ {j}
    /\ UNCHANGED <<recovery, changed, expired, slots, call, serving>>

(* Register, rewrite as queued without files, start a runner.              *)
Recover(j) ==
    /\ j \in todo
    /\ Unfinished(j) /\ ~expired[j]
    /\ Recoverable(j) /\ Cardinality(active) < MaxActive
    /\ active' = active \cup {j}
    /\ Write(j, [state |-> "queued", files |-> 0])
    /\ runner' = [runner EXCEPT ![j] = NewRunner]
    /\ todo' = todo \ {j}
    /\ UNCHANGED <<recovery, changed, expired, slots, call, serving>>

ServeAtOnce ==   \* variant: listen while the recovery is under way
    /\ ~serving
    /\ serving' = TRUE
    /\ UNCHANGED <<files, active, slots, call, runner, todo, spent>>

Serve ==
    /\ ~serving
    /\ todo = {}
    /\ serving' = TRUE
    /\ UNCHANGED <<files, active, slots, call, runner, todo, spent>>

BootStep == Serve \/ \E j \in Jobs : SkipJob(j) \/ RecoverFails(j) \/ Recover(j)

-----------------------------------------------------------------------------
(* Time passes; recordings are deleted or rewritten.                       *)

Expire(j) ==
    /\ Stored(j) /\ ~expired[j]
    /\ MayHappen
    /\ spent' = [spent EXCEPT !.expired = @ + 1]
    /\ expired' = [expired EXCEPT ![j] = TRUE]
    /\ UNCHANGED <<disk, recovery, changed, active, slots, call, runner, todo, serving>>

RecordingChanges(j) ==
    /\ recovery[j] /\ ~changed[j]
    /\ MayHappen
    /\ spent' = [spent EXCEPT !.changes = @ + 1]
    /\ changed' = [changed EXCEPT ![j] = TRUE]
    /\ UNCHANGED <<disk, recovery, expired, active, slots, call, runner, todo, serving>>

Next ==
    \/ Restart \/ BootStep
    \/ \E j \in Jobs :
          \/ Submit(j) \/ CallStep(j) \/ TakeSlot(j) \/ RunnerStep(j) \/ ReadJob(j)
          \/ Expire(j) \/ RecordingChanges(j)

Spec == Init /\ [][Next]_vars

(* Requests, runners and the boot go on; work ends within two hours.       *)
Fairness ==
    /\ WF_vars(BootStep)
    /\ \A j \in Jobs : /\ WF_vars(CallStep(j))
                       /\ SF_vars(TakeSlot(j))
                       /\ WF_vars(RunnerStep(j))

FairSpec == Spec /\ Fairness

-----------------------------------------------------------------------------
(* Properties.                                                             *)

Working(j) == runner[j].at \in {"started", "opened", "working", "leaving"}

(* The limits hold in every order of requests, runners and restarts: two   *)
(* jobs work, eight are registered, and unless a write of a state.json was *)
(* lost an owner has one job in progress, although a restart forgets the   *)
(* map and rebuilds it from the disk.                                      *)
WorkIsBounded ==
    /\ Cardinality({j \in Jobs : Working(j)}) <= Slots
    /\ Cardinality(active) <= MaxActive
    /\ spent.writes = 0 =>
          \A i, j \in active : owner[i] = owner[j] => i = j

(* The directory of a job somebody works on is not removed under him, and  *)
(* its state.json does not say it is over: the cleanup of another request  *)
(* removes after it looked, and a reader fails what nobody works on.       *)
NotOverWhileWorking ==
    \A j \in Jobs :
        runner[j].at \in {"waiting", "started", "opened", "working"} => Unfinished(j)

(* What a download offers is whole: a completed job lists each clip once,  *)
(* whatever an earlier run before a restart had listed.                    *)
CompletedIsWhole ==
    \A j \in Jobs : disk[j].state = "completed" => disk[j].files = parts[j]

(* A finished job stays what it is until it is removed as expired.         *)
OutcomeIsFinal ==
    [][\A j \in Jobs :
          disk[j].state \in {"completed", "failed"} /\ disk'[j] # disk[j]
             => expired[j] /\ disk'[j] = NoJob]_disk

(* A restart loses no work: a job whose recording is unchanged and that is *)
(* not expired fails by the hand of its own runner only; neither recovery, *)
(* its limit of eight included, nor a reader writes it off.                *)
RestartLosesNoWork ==
    [][\A j \in Jobs :
          Unfinished(j) /\ disk'[j].state = "failed" =>
             \/ runner[j].at \in {"opened", "working"}
             \/ changed[j] \/ expired[j] \/ spent.writes > 0]_disk

(* Every accepted job is settled, through restarts and waiting for a slot, *)
(* while no write of a state.json is lost.                                 *)
JobsSettle ==
    \A j \in Jobs :
        Unfinished(j) ~> (~Unfinished(j) \/ expired[j] \/ spent.writes > 0)

-----------------------------------------------------------------------------
(* The strengthening under which the safety properties are inductive.      *)

(* A request holds its entry and works for an owner nobody else works for; *)
(* what it removes is expired and stays out of everybody's hands.          *)
CallInv(j) ==
    call[j].at # "none" =>
        /\ serving
        /\ j \in active /\ runner[j].at = "none" /\ ~Stored(j)
        /\ \A i \in active : owner[i] = owner[j] => i = j
        /\ \A i \in call[j].others : owner[i] = owner[j]
        /\ call[j].at = "accepting" => recovery[j]
        /\ call[j].at = "removing" =>
              LET i == call[j].other
              IN  i \in Jobs \ active /\ owner[i] = owner[j] /\ Stored(i) /\ expired[i]

(* A runner is registered, holds a slot while it works, counts its files.  *)
RunnerInv(j) ==
    /\ runner[j].at # "none" => j \in active
    /\ Working(j) => j \in slots
    /\ runner[j].files = runner[j].done /\ runner[j].done <= parts[j]
    /\ runner[j].at \in {"leaving", "unslotted"} /\ spent.writes = 0 => ~Unfinished(j)

BootInv == (serving => todo = {}) /\ todo \cap active = {}

Recorded == \A j \in Jobs : Unfinished(j) => recovery[j]

(* What is worked on, and what the recovery will still take up.            *)
Pending == active \cup {j \in todo : Unfinished(j) /\ ~expired[j]}

NothingForgotten ==
    spent.writes = 0 =>
        \A j \in Jobs : Unfinished(j) /\ ~expired[j] => j \in Pending

PendingIsBounded ==
    /\ Cardinality(slots) <= Slots
    /\ Cardinality(active) <= MaxActive
    /\ spent.writes = 0 =>
          /\ Cardinality(Pending) <= MaxActive
          /\ \A i, j \in Pending : owner[i] = owner[j] => i = j

IInv ==
    /\ TypeOK
    /\ \A j \in Jobs : CallInv(j) /\ RunnerInv(j)
    /\ BootInv
    /\ Recorded
    /\ NothingForgotten
    /\ PendingIsBounded
    /\ NotOverWhileWorking
    /\ CompletedIsWhole

=============================================================================
