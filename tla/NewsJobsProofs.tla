--------------------------- MODULE NewsJobsProofs ---------------------------
(***************************************************************************)
(* Safety of the news jobs for any set of jobs and owners, any numbers of  *)
(* clips, any limits, and any number of restarts, lost writes, expirations *)
(* and changed recordings.                                                 *)
(***************************************************************************)
EXTENDS NewsJobs, FiniteSetTheorems, TLAPS

-----------------------------------------------------------------------------
(* The types.                                                              *)

LEMMA FaultType ==
    ASSUME TypeOK, WriteFails
    PROVE  spent' \in Spendings /\ spent'.writes > 0
BY DEF TypeOK, WriteFails, Spendings

LEMMA WriteType ==
    ASSUME TypeOK, NEW j \in Jobs, NEW job \in JobFiles, Write(j, job)
    PROVE  disk' \in [Jobs -> JobFiles] /\ spent' \in Spendings
BY FaultType DEF TypeOK, Write

(* A write changes its job only, or is lost and counted.                   *)
LEMMA WriteEffect ==
    ASSUME TypeOK, NEW j \in Jobs, NEW job, Write(j, job)
    PROVE  /\ disk'[j] \in {job, disk[j]}
           /\ spent'.writes = 0 => disk'[j] = job /\ spent.writes = 0
           /\ \A x \in Jobs \ {j} : disk'[x] = disk[x]
<1>1. CASE disk' = [disk EXCEPT ![j] = job] /\ UNCHANGED spent
  BY <1>1 DEF TypeOK
<1>2. CASE WriteFails /\ UNCHANGED disk
  BY <1>2, FaultType
<1> QED
  BY <1>1, <1>2 DEF Write

LEMMA StateType ==
    ASSUME TypeOK, NEW j \in Jobs, NEW state \in States
    PROVE  /\ [disk[j] EXCEPT !.state = state] \in JobFiles
           /\ [state |-> state, files |-> 0] \in JobFiles
           /\ [state |-> state, files |-> runner[j].files] \in JobFiles
BY DEF TypeOK, JobFiles, Runners

LEMMA CallType ==
    ASSUME TypeOK, NEW j \in Jobs, NEW at \in CallPoints
    PROVE  [call EXCEPT ![j].at = at] \in [Jobs -> Calls]
<1>1. [call[j] EXCEPT !.at = at] \in Calls
  BY DEF TypeOK, Calls
<1> QED
  BY <1>1 DEF TypeOK

LEMMA RunnerType ==
    ASSUME TypeOK, NEW j \in Jobs, NEW at \in RunnerPoints
    PROVE  [runner EXCEPT ![j].at = at] \in [Jobs -> Runners]
<1>1. [runner[j] EXCEPT !.at = at] \in Runners
  BY DEF TypeOK, Runners
<1> QED
  BY <1>1 DEF TypeOK

LEMMA ConstantTypes ==
    NoJob \in JobFiles /\ NoCall \in Calls /\ NoRunner \in Runners /\ NewRunner \in Runners
BY DEF NoJob, NoCall, NoRunner, NewRunner, JobFiles, Calls, Runners, States,
       CallPoints, RunnerPoints

LEMMA TypeStep == TypeOK /\ [Next]_vars => TypeOK'
<1> SUFFICES ASSUME TypeOK, [Next]_vars
             PROVE  TypeOK'
  OBVIOUS
<1> USE ConstantTypes DEF files
<1>0. /\ {"checking", "cleaning", "removing", "accepting"} \subseteq CallPoints
      /\ {"started", "opened", "working", "leaving", "unslotted"} \subseteq RunnerPoints
      /\ {"queued", "running", "completed", "failed"} \subseteq States
  BY DEF CallPoints, RunnerPoints, States
<1>1. CASE Restart
  <2>1. spent' \in Spendings
    BY <1>1 DEF TypeOK, Spendings, Restart
  <2> QED
    BY <1>1, <2>1 DEF TypeOK, Restart
<1>2. CASE Serve
  BY <1>2 DEF TypeOK, Serve
<1>3. ASSUME NEW j \in Jobs, SkipJob(j) PROVE TypeOK'
  BY <1>3 DEF TypeOK, SkipJob
<1>4. ASSUME NEW j \in Jobs, RecoverFails(j) PROVE TypeOK'
  <2>1. disk' \in [Jobs -> JobFiles] /\ spent' \in Spendings
    BY <1>0, <1>4, StateType, WriteType DEF RecoverFails
  <2> QED
    BY <1>4, <2>1 DEF TypeOK, RecoverFails
<1>5. ASSUME NEW j \in Jobs, Recover(j) PROVE TypeOK'
  <2>1. disk' \in [Jobs -> JobFiles] /\ spent' \in Spendings
    BY <1>0, <1>5, StateType, WriteType DEF Recover
  <2> QED
    BY <1>5, <2>1 DEF TypeOK, Recover
<1>6. ASSUME NEW j \in Jobs, Submit(j) PROVE TypeOK'
  <2>1. [at |-> "cleaning", other |-> None,
         others |-> {i \in Jobs : owner[i] = owner[j] /\ Stored(i)}] \in Calls
    BY <1>0 DEF Calls
  <2> QED
    BY <1>6, <2>1 DEF TypeOK, Submit
<1>7. ASSUME NEW j \in Jobs, CleanedUp(j) PROVE TypeOK'
  <2>1. call' \in [Jobs -> Calls]
    BY <1>0, <1>7, CallType DEF CleanedUp
  <2> QED
    BY <1>7, <2>1 DEF TypeOK, CleanedUp
<1>8. ASSUME NEW j \in Jobs, RemoveAll(j) PROVE TypeOK'
  <2>1. [call[j] EXCEPT !.at = "cleaning", !.other = None] \in Calls
    BY <1>0 DEF TypeOK, Calls
  <2>2. call' \in [Jobs -> Calls]
    BY <1>8, <2>1 DEF TypeOK, RemoveAll
  <2> QED
    BY <1>8, <2>2 DEF TypeOK, RemoveAll
<1>9. ASSUME NEW j \in Jobs, Refuse(j) PROVE TypeOK'
  BY <1>9 DEF TypeOK, Refuse, GiveUp
<1>10. ASSUME NEW j \in Jobs, SaveRecovery(j) PROVE TypeOK'
  <2>1. call' \in [Jobs -> Calls]
    BY <1>0, <1>10, CallType DEF SaveRecovery
  <2> QED
    BY <1>10, <2>1 DEF TypeOK, SaveRecovery
<1>11. ASSUME NEW j \in Jobs, Accept(j) PROVE TypeOK'
  BY <1>0, <1>11, StateType DEF TypeOK, Accept
<1>12. ASSUME NEW j \in Jobs, RefuseUnwritten(j) PROVE TypeOK'
  BY <1>12, FaultType DEF TypeOK, RefuseUnwritten, GiveUp
<1>13. ASSUME NEW j \in Jobs, NEW i \in Jobs, CleanUp(j, i) PROVE TypeOK'
  <2>1. [at |-> IF Removable(i) THEN "removing" ELSE "cleaning",
         other |-> IF Removable(i) THEN i ELSE None,
         others |-> call[j].others \ {i}] \in Calls
    BY <1>0 DEF TypeOK, Calls
  <2> QED
    BY <1>13, <2>1 DEF TypeOK, CleanUp
<1>14. ASSUME NEW j \in Jobs, TakeSlot(j) PROVE TypeOK'
  <2>1. runner' \in [Jobs -> Runners]
    BY <1>0, <1>14, RunnerType DEF TakeSlot
  <2> QED
    BY <1>14, <2>1 DEF TypeOK, TakeSlot
<1>15. ASSUME NEW j \in Jobs, Start(j) PROVE TypeOK'
  <2>1. disk' \in [Jobs -> JobFiles] /\ spent' \in Spendings
    BY <1>0, <1>15, StateType, WriteType DEF Start
  <2> QED
    BY <1>0, <1>15, <2>1, RunnerType DEF TypeOK, Start
<1>16. ASSUME NEW j \in Jobs, CheckSource(j) PROVE TypeOK'
  <2>1. runner' \in [Jobs -> Runners]
    BY <1>0, <1>16, RunnerType DEF CheckSource
  <2> QED
    BY <1>16, <2>1 DEF TypeOK, CheckSource
<1>17. ASSUME NEW j \in Jobs, NextClip(j) PROVE TypeOK'
  <2>0. runner[j] \in Runners /\ runner[j].files + 1 \in Nat /\ runner[j].done + 1 \in Nat
    BY DEF TypeOK, Runners
  <2>1. /\ [state |-> "running", files |-> runner[j].files + 1] \in JobFiles
        /\ [at |-> "working", done |-> runner[j].done + 1, files |-> runner[j].files + 1]
              \in Runners
    BY <1>0, <2>0 DEF JobFiles, Runners
  <2>2. disk' \in [Jobs -> JobFiles] /\ spent' \in Spendings
    BY <1>17, <2>1, WriteType DEF NextClip
  <2>3. runner' \in [Jobs -> Runners]
    BY <1>17, <2>1 DEF TypeOK, NextClip
  <2> QED
    BY <1>17, <2>2, <2>3 DEF TypeOK, NextClip
<1>18. ASSUME NEW j \in Jobs, Complete(j) PROVE TypeOK'
  <2>1. disk' \in [Jobs -> JobFiles] /\ spent' \in Spendings
    BY <1>0, <1>18, StateType, WriteType DEF Complete
  <2> QED
    BY <1>0, <1>18, <2>1, RunnerType DEF TypeOK, Complete
<1>19. ASSUME NEW j \in Jobs, Fail(j) PROVE TypeOK'
  <2>1. disk' \in [Jobs -> JobFiles] /\ spent' \in Spendings
    BY <1>0, <1>19, StateType, WriteType DEF Fail
  <2> QED
    BY <1>0, <1>19, <2>1, RunnerType DEF TypeOK, Fail
<1>20. ASSUME NEW j \in Jobs, LeaveSlot(j) PROVE TypeOK'
  BY <1>0, <1>20, RunnerType DEF TypeOK, LeaveSlot
<1>21. ASSUME NEW j \in Jobs, Unregister(j) PROVE TypeOK'
  BY <1>21 DEF TypeOK, Unregister
<1>22. ASSUME NEW j \in Jobs, ReadJob(j) PROVE TypeOK'
  <2>1. disk' \in [Jobs -> JobFiles] /\ spent' \in Spendings
    BY <1>0, <1>22, StateType, WriteType DEF ReadJob
  <2> QED
    BY <1>22, <2>1 DEF TypeOK, ReadJob
<1>23. ASSUME NEW j \in Jobs, Expire(j) PROVE TypeOK'
  <2>1. spent' \in Spendings
    BY <1>23 DEF TypeOK, Spendings, Expire
  <2> QED
    BY <1>23, <2>1 DEF TypeOK, Expire
<1>24. ASSUME NEW j \in Jobs, RecordingChanges(j) PROVE TypeOK'
  <2>1. spent' \in Spendings
    BY <1>24 DEF TypeOK, Spendings, RecordingChanges
  <2> QED
    BY <1>24, <2>1 DEF TypeOK, RecordingChanges
<1>25. CASE UNCHANGED vars
  BY <1>25 DEF TypeOK, vars
<1> QED
  BY <1>1, <1>2, <1>3, <1>4, <1>5, <1>6, <1>7, <1>8, <1>9, <1>10, <1>11, <1>12, <1>13,
     <1>14, <1>15, <1>16, <1>17, <1>18, <1>19, <1>20, <1>21, <1>22, <1>23, <1>24, <1>25
     DEF Next, BootStep, CallStep, RunnerStep

-----------------------------------------------------------------------------
(* What the actions that write a state.json do to it.                      *)

LEMMA RecoverFailsEffect ==
    ASSUME TypeOK, NEW j \in Jobs, RecoverFails(j)
    PROVE  /\ disk'[j].state \in {disk[j].state, "failed"}
           /\ disk'[j].files = disk[j].files
           /\ spent'.writes = 0 => disk'[j].state = "failed" /\ spent.writes = 0
           /\ \A x \in Jobs \ {j} : disk'[x] = disk[x]
<1>1. Write(j, [disk[j] EXCEPT !.state = "failed"])
  BY DEF RecoverFails
<1> QED
  BY <1>1, WriteEffect DEF TypeOK, JobFiles

LEMMA RecoverEffect ==
    ASSUME TypeOK, NEW j \in Jobs, Recover(j)
    PROVE  /\ disk'[j] # disk[j] => disk'[j].state = "queued" /\ disk'[j].files = 0
           /\ spent'.writes = 0 => disk'[j].state = "queued" /\ spent.writes = 0
           /\ \A x \in Jobs \ {j} : disk'[x] = disk[x]
<1>1. Write(j, [state |-> "queued", files |-> 0])
  BY DEF Recover
<1> QED
  BY <1>1, WriteEffect DEF TypeOK

LEMMA StartEffect ==
    ASSUME TypeOK, NEW j \in Jobs, Start(j)
    PROVE  /\ disk'[j] # disk[j] => disk'[j].state = "running" /\ disk'[j].files = runner[j].files
           /\ spent'.writes = 0 => disk'[j].state = "running" /\ spent.writes = 0
           /\ \A x \in Jobs \ {j} : disk'[x] = disk[x]
<1>1. Write(j, [state |-> "running", files |-> runner[j].files])
  BY DEF Start
<1> QED
  BY <1>1, WriteEffect DEF TypeOK

LEMMA NextClipEffect ==
    ASSUME TypeOK, NEW j \in Jobs, NextClip(j)
    PROVE  /\ disk'[j] # disk[j] => disk'[j].state = "running" /\ disk'[j].files = runner[j].files + 1
           /\ spent'.writes = 0 => disk'[j].state = "running" /\ spent.writes = 0
           /\ \A x \in Jobs \ {j} : disk'[x] = disk[x]
<1>1. Write(j, [state |-> "running", files |-> runner[j].files + 1])
  BY DEF NextClip
<1> QED
  BY <1>1, WriteEffect DEF TypeOK

LEMMA CompleteEffect ==
    ASSUME TypeOK, NEW j \in Jobs, Complete(j)
    PROVE  /\ disk'[j] # disk[j] => disk'[j].state = "completed" /\ disk'[j].files = runner[j].files
           /\ spent'.writes = 0 => disk'[j].state = "completed" /\ spent.writes = 0
           /\ \A x \in Jobs \ {j} : disk'[x] = disk[x]
<1>1. Write(j, [state |-> "completed", files |-> runner[j].files])
  BY DEF Complete
<1> QED
  BY <1>1, WriteEffect DEF TypeOK

LEMMA FailEffect ==
    ASSUME TypeOK, NEW j \in Jobs, Fail(j)
    PROVE  /\ disk'[j] # disk[j] => disk'[j].state = "failed" /\ disk'[j].files = runner[j].files
           /\ spent'.writes = 0 => disk'[j].state = "failed" /\ spent.writes = 0
           /\ \A x \in Jobs \ {j} : disk'[x] = disk[x]
<1>1. Write(j, [state |-> "failed", files |-> runner[j].files])
  BY DEF Fail
<1> QED
  BY <1>1, WriteEffect DEF TypeOK

LEMMA ReadJobEffect ==
    ASSUME TypeOK, NEW j \in Jobs, ReadJob(j)
    PROVE  /\ disk'[j].state \in {disk[j].state, "failed"}
           /\ disk'[j].files = disk[j].files
           /\ spent'.writes = 0 => disk'[j].state = "failed" /\ spent.writes = 0
           /\ \A x \in Jobs \ {j} : disk'[x] = disk[x]
<1>1. Write(j, [disk[j] EXCEPT !.state = "failed"])
  BY DEF ReadJob
<1> QED
  BY <1>1, WriteEffect DEF TypeOK, JobFiles

LEMMA DiskStep ==
    ASSUME [Next]_vars
    PROVE  \/ UNCHANGED <<disk, recovery>>
           \/ \E j \in Jobs : \/ RecoverFails(j) \/ Recover(j) \/ RemoveAll(j)
                              \/ SaveRecovery(j) \/ Accept(j) \/ Start(j) \/ NextClip(j)
                              \/ Complete(j) \/ Fail(j) \/ ReadJob(j)
<1> USE DEF files
<1>1. CASE UNCHANGED vars
  BY <1>1 DEF vars
<1>2. CASE Restart \/ Serve
  BY <1>2 DEF Restart, Serve
<1>3. ASSUME NEW j \in Jobs,
             \/ SkipJob(j) \/ Submit(j) \/ TakeSlot(j) \/ CheckSource(j) \/ LeaveSlot(j) \/ Unregister(j)
             \/ Expire(j) \/ RecordingChanges(j)
      PROVE  UNCHANGED <<disk, recovery>>
  BY <1>3 DEF SkipJob, Submit, TakeSlot, CheckSource, LeaveSlot, Unregister, Expire,
              RecordingChanges
<1>4. ASSUME NEW j \in Jobs,
             \/ CleanedUp(j) \/ Refuse(j) \/ RefuseUnwritten(j)
             \/ \E i \in Jobs : CleanUp(j, i)
      PROVE  UNCHANGED <<disk, recovery>>
  BY <1>4 DEF CleanedUp, Refuse, RefuseUnwritten, CleanUp
<1> QED
  BY <1>1, <1>2, <1>3, <1>4 DEF Next, BootStep, CallStep, RunnerStep

-----------------------------------------------------------------------------
(* Requests.                                                               *)
LEMMA CallStepInv ==
    ASSUME IInv, [Next]_vars, NEW k \in Jobs
    PROVE  CallInv(k)'
<1> USE DEF files
<1>0. TypeOK /\ BootInv /\ \A x \in Jobs : CallInv(x) /\ RunnerInv(x)
  BY NewsAssumption DEF IInv
<1>1. CASE Restart
  BY <1>0, <1>1 DEF Restart, NoCall, NoRunner, CallInv, BootInv, RunnerInv,
     Stored, Unfinished, TypeOK, Calls, Runners, JobFiles, States
<1>2. CASE Serve
  BY <1>0, <1>2 DEF Serve, CallInv, BootInv, RunnerInv, Stored, Unfinished,
     TypeOK, Calls, Runners, JobFiles, States
<1>3. ASSUME NEW j \in Jobs, SkipJob(j) PROVE CallInv(k)'
  BY <1>0, <1>3 DEF SkipJob, CallInv, BootInv, RunnerInv, Stored, Unfinished,
     TypeOK, Calls, Runners, JobFiles, States
<1>4. ASSUME NEW j \in Jobs, RecoverFails(j) PROVE CallInv(k)'
  <2>1. CASE k = j
    BY <1>0, <1>4, <2>1, RecoverFailsEffect DEF RecoverFails, CallInv,
       BootInv, RunnerInv, Stored, Unfinished, TypeOK, Calls, Runners,
       JobFiles, States
  <2>2. CASE k # j
    <3>1. \A x \in Jobs : Stored(x) => Stored(x)'
      BY <1>0, <1>4, RecoverFailsEffect DEF RecoverFails, Stored, Unfinished
    <3>2. Stored(k)' = Stored(k) /\ runner'[k] = runner[k]
      BY <1>0, <1>4, <2>2, RecoverFailsEffect DEF RecoverFails, Stored, TypeOK
    <3> QED
      BY <1>0, <1>4, <3>1, <3>2 DEF RecoverFails, CallInv, TypeOK, Calls
  <2> QED
    BY <2>1, <2>2
<1>5. ASSUME NEW j \in Jobs, Recover(j) PROVE CallInv(k)'
  BY <1>0, <1>5, RecoverEffect DEF Recover, NewRunner, NoRunner, CallInv,
     BootInv, RunnerInv, Stored, Unfinished, TypeOK, Calls, Runners, JobFiles,
     States
<1>6. ASSUME NEW j \in Jobs, Submit(j) PROVE CallInv(k)'
  BY <1>0, <1>6 DEF Submit, CallInv, BootInv, RunnerInv, Stored, Unfinished,
     TypeOK, Calls, Runners, JobFiles, States
<1>7. ASSUME NEW j \in Jobs, CleanedUp(j) PROVE CallInv(k)'
  BY <1>0, <1>7 DEF CleanedUp, CallInv, BootInv, RunnerInv, Stored,
     Unfinished, TypeOK, Calls, Runners, JobFiles, States
<1>8. ASSUME NEW j \in Jobs, RemoveAll(j) PROVE CallInv(k)'
  BY <1>0, <1>8 DEF RemoveAll, NoJob, CallInv, BootInv, RunnerInv, Stored,
     Unfinished, TypeOK, Calls, Runners, JobFiles, States
<1>9. ASSUME NEW j \in Jobs, Refuse(j) PROVE CallInv(k)'
  BY <1>0, <1>9 DEF Refuse, GiveUp, NoCall, CallInv, BootInv, RunnerInv,
     Stored, Unfinished, TypeOK, Calls, Runners, JobFiles, States
<1>10. ASSUME NEW j \in Jobs, SaveRecovery(j) PROVE CallInv(k)'
  BY <1>0, <1>10 DEF SaveRecovery, CallInv, BootInv, RunnerInv, Stored,
     Unfinished, TypeOK, Calls, Runners, JobFiles, States
<1>11. ASSUME NEW j \in Jobs, Accept(j) PROVE CallInv(k)'
  BY <1>0, <1>11 DEF Accept, NewRunner, NoRunner, NoCall, CallInv, BootInv,
     RunnerInv, Stored, Unfinished, TypeOK, Calls, Runners, JobFiles, States
<1>12. ASSUME NEW j \in Jobs, RefuseUnwritten(j) PROVE CallInv(k)'
  BY <1>0, <1>12 DEF RefuseUnwritten, GiveUp, NoCall, WriteFails, CallInv,
     BootInv, RunnerInv, Stored, Unfinished, TypeOK, Calls, Runners, JobFiles,
     States
<1>13. ASSUME NEW j \in Jobs, NEW i \in Jobs, CleanUp(j, i) PROVE CallInv(k)'
  BY <1>0, <1>13 DEF CleanUp, Removable, CallInv, BootInv, RunnerInv, Stored,
     Unfinished, TypeOK, Calls, Runners, JobFiles, States
<1>14. ASSUME NEW j \in Jobs, TakeSlot(j) PROVE CallInv(k)'
  BY <1>0, <1>14 DEF TakeSlot, CallInv, BootInv, RunnerInv, Stored,
     Unfinished, TypeOK, Calls, Runners, JobFiles, States
<1>15. ASSUME NEW j \in Jobs, Start(j) PROVE CallInv(k)'
  <2>1. CASE k = j
    BY <1>0, <1>15, <2>1, StartEffect DEF Start, CallInv, BootInv, RunnerInv,
       Stored, Unfinished, TypeOK, Calls, Runners, JobFiles, States
  <2>2. CASE k # j
    <3>1. \A x \in Jobs : Stored(x) => Stored(x)'
      BY <1>0, <1>15, StartEffect DEF Start, Stored, Unfinished
    <3>2. Stored(k)' = Stored(k) /\ runner'[k] = runner[k]
      BY <1>0, <1>15, <2>2, StartEffect DEF Start, Stored, TypeOK
    <3> QED
      BY <1>0, <1>15, <3>1, <3>2 DEF Start, CallInv, TypeOK, Calls
  <2> QED
    BY <2>1, <2>2
<1>16. ASSUME NEW j \in Jobs, CheckSource(j) PROVE CallInv(k)'
  BY <1>0, <1>16 DEF CheckSource, CallInv, BootInv, RunnerInv, Stored,
     Unfinished, TypeOK, Calls, Runners, JobFiles, States
<1>17. ASSUME NEW j \in Jobs, NextClip(j) PROVE CallInv(k)'
  <2>1. CASE k = j
    BY <1>0, <1>17, <2>1, NextClipEffect DEF NextClip, CallInv, BootInv,
       RunnerInv, Stored, Unfinished, TypeOK, Calls, Runners, JobFiles, States
  <2>2. CASE k # j
    <3>1. \A x \in Jobs : Stored(x) => Stored(x)'
      BY <1>0, <1>17, NextClipEffect DEF NextClip, Stored, Unfinished
    <3>2. Stored(k)' = Stored(k) /\ runner'[k] = runner[k]
      BY <1>0, <1>17, <2>2, NextClipEffect DEF NextClip, Stored, TypeOK
    <3> QED
      BY <1>0, <1>17, <3>1, <3>2 DEF NextClip, CallInv, TypeOK, Calls
  <2> QED
    BY <2>1, <2>2
<1>18. ASSUME NEW j \in Jobs, Complete(j) PROVE CallInv(k)'
  <2>1. CASE k = j
    BY <1>0, <1>18, <2>1, CompleteEffect DEF Complete, CallInv, BootInv,
       RunnerInv, Stored, Unfinished, TypeOK, Calls, Runners, JobFiles, States
  <2>2. CASE k # j
    <3>1. \A x \in Jobs : Stored(x) => Stored(x)'
      BY <1>0, <1>18, CompleteEffect DEF Complete, Stored, Unfinished
    <3>2. Stored(k)' = Stored(k) /\ runner'[k] = runner[k]
      BY <1>0, <1>18, <2>2, CompleteEffect DEF Complete, Stored, TypeOK
    <3> QED
      BY <1>0, <1>18, <3>1, <3>2 DEF Complete, CallInv, TypeOK, Calls
  <2> QED
    BY <2>1, <2>2
<1>19. ASSUME NEW j \in Jobs, Fail(j) PROVE CallInv(k)'
  <2>1. CASE k = j
    BY <1>0, <1>19, <2>1, FailEffect DEF Fail, CallInv, BootInv, RunnerInv,
       Stored, Unfinished, TypeOK, Calls, Runners, JobFiles, States
  <2>2. CASE k # j
    <3>1. \A x \in Jobs : Stored(x) => Stored(x)'
      BY <1>0, <1>19, FailEffect DEF Fail, Stored, Unfinished
    <3>2. Stored(k)' = Stored(k) /\ runner'[k] = runner[k]
      BY <1>0, <1>19, <2>2, FailEffect DEF Fail, Stored, TypeOK
    <3> QED
      BY <1>0, <1>19, <3>1, <3>2 DEF Fail, CallInv, TypeOK, Calls
  <2> QED
    BY <2>1, <2>2
<1>20. ASSUME NEW j \in Jobs, LeaveSlot(j) PROVE CallInv(k)'
  BY <1>0, <1>20 DEF LeaveSlot, CallInv, BootInv, RunnerInv, Stored,
     Unfinished, TypeOK, Calls, Runners, JobFiles, States
<1>21. ASSUME NEW j \in Jobs, Unregister(j) PROVE CallInv(k)'
  BY <1>0, <1>21 DEF Unregister, NoRunner, CallInv, BootInv, RunnerInv,
     Stored, Unfinished, TypeOK, Calls, Runners, JobFiles, States
<1>22. ASSUME NEW j \in Jobs, ReadJob(j) PROVE CallInv(k)'
  <2>1. CASE k = j
    BY <1>0, <1>22, <2>1, ReadJobEffect DEF ReadJob, CallInv, BootInv,
       RunnerInv, Stored, Unfinished, TypeOK, Calls, Runners, JobFiles, States
  <2>2. CASE k # j
    <3>1. \A x \in Jobs : Stored(x) => Stored(x)'
      BY <1>0, <1>22, ReadJobEffect DEF ReadJob, Stored, Unfinished
    <3>2. Stored(k)' = Stored(k) /\ runner'[k] = runner[k]
      BY <1>0, <1>22, <2>2, ReadJobEffect DEF ReadJob, Stored, TypeOK
    <3> QED
      BY <1>0, <1>22, <3>1, <3>2 DEF ReadJob, CallInv, TypeOK, Calls
  <2> QED
    BY <2>1, <2>2
<1>23. ASSUME NEW j \in Jobs, Expire(j) PROVE CallInv(k)'
  BY <1>0, <1>23 DEF Expire, CallInv, BootInv, RunnerInv, Stored, Unfinished,
     TypeOK, Calls, Runners, JobFiles, States
<1>24. ASSUME NEW j \in Jobs, RecordingChanges(j) PROVE CallInv(k)'
  BY <1>0, <1>24 DEF RecordingChanges, CallInv, BootInv, RunnerInv, Stored,
     Unfinished, TypeOK, Calls, Runners, JobFiles, States
<1>25. CASE UNCHANGED vars
  BY <1>0, <1>25 DEF vars, CallInv, BootInv, RunnerInv, Stored, Unfinished,
     TypeOK, Calls, Runners, JobFiles, States
<1> QED
  BY <1>1, <1>2, <1>3, <1>4, <1>5, <1>6, <1>7, <1>8, <1>9, <1>10, <1>11,
     <1>12, <1>13, <1>14, <1>15, <1>16, <1>17, <1>18, <1>19, <1>20, <1>21,
     <1>22, <1>23, <1>24, <1>25 DEF Next, BootStep, CallStep, RunnerStep

(* Runners.                                                                *)
LEMMA RunnerStepInv ==
    ASSUME IInv, [Next]_vars, NEW k \in Jobs
    PROVE  RunnerInv(k)'
<1> USE DEF files
<1>0. parts[k] \in Nat /\ TypeOK /\ BootInv /\ \A x \in Jobs : CallInv(x) /\ RunnerInv(x)
  BY NewsAssumption DEF IInv
<1>1. CASE Restart
  BY <1>0, <1>1 DEF Restart, NoCall, NoRunner, CallInv, BootInv, RunnerInv,
     Working, Stored, Unfinished, TypeOK, Calls, Runners, JobFiles, States,
     Spendings
<1>2. CASE Serve
  BY <1>0, <1>2 DEF Serve, CallInv, BootInv, RunnerInv, Working, Stored,
     Unfinished, TypeOK, Calls, Runners, JobFiles, States, Spendings
<1>3. ASSUME NEW j \in Jobs, SkipJob(j) PROVE RunnerInv(k)'
  BY <1>0, <1>3 DEF SkipJob, CallInv, BootInv, RunnerInv, Working, Stored,
     Unfinished, TypeOK, Calls, Runners, JobFiles, States, Spendings
<1>4. ASSUME NEW j \in Jobs, RecoverFails(j) PROVE RunnerInv(k)'
  BY <1>0, <1>4, RecoverFailsEffect DEF RecoverFails, CallInv, BootInv,
     RunnerInv, Working, Stored, Unfinished, TypeOK, Calls, Runners, JobFiles,
     States, Spendings
<1>5. ASSUME NEW j \in Jobs, Recover(j) PROVE RunnerInv(k)'
  <2>1. /\ disk'[j] # disk[j] => disk'[j].state = "queued" /\ disk'[j].files = 0
        /\ spent'.writes = 0 => disk'[j].state = "queued" /\ spent.writes = 0
        /\ \A x \in Jobs \ {j} : disk'[x] = disk[x]
    BY <1>0, <1>5, RecoverEffect
  <2>2. CASE k = j
    BY <1>0, <1>5, <2>1, <2>2 DEF Recover, NewRunner, NoRunner, CallInv,
       BootInv, RunnerInv, Working, Stored, Unfinished, TypeOK, Calls,
       Runners, JobFiles, States, Spendings
  <2>3. CASE k # j
    BY <1>0, <1>5, <2>1, <2>3 DEF Recover, NewRunner, NoRunner, CallInv,
       BootInv, RunnerInv, Working, Stored, Unfinished, TypeOK, Calls,
       Runners, JobFiles, States, Spendings
  <2> QED
    BY <2>2, <2>3
<1>6. ASSUME NEW j \in Jobs, Submit(j) PROVE RunnerInv(k)'
  BY <1>0, <1>6 DEF Submit, CallInv, BootInv, RunnerInv, Working, Stored,
     Unfinished, TypeOK, Calls, Runners, JobFiles, States, Spendings
<1>7. ASSUME NEW j \in Jobs, CleanedUp(j) PROVE RunnerInv(k)'
  BY <1>0, <1>7 DEF CleanedUp, CallInv, BootInv, RunnerInv, Working, Stored,
     Unfinished, TypeOK, Calls, Runners, JobFiles, States, Spendings
<1>8. ASSUME NEW j \in Jobs, RemoveAll(j) PROVE RunnerInv(k)'
  BY <1>0, <1>8 DEF RemoveAll, NoJob, CallInv, BootInv, RunnerInv, Working,
     Stored, Unfinished, TypeOK, Calls, Runners, JobFiles, States, Spendings
<1>9. ASSUME NEW j \in Jobs, Refuse(j) PROVE RunnerInv(k)'
  BY <1>0, <1>9 DEF Refuse, GiveUp, NoCall, CallInv, BootInv, RunnerInv,
     Working, Stored, Unfinished, TypeOK, Calls, Runners, JobFiles, States,
     Spendings
<1>10. ASSUME NEW j \in Jobs, SaveRecovery(j) PROVE RunnerInv(k)'
  BY <1>0, <1>10 DEF SaveRecovery, CallInv, BootInv, RunnerInv, Working,
     Stored, Unfinished, TypeOK, Calls, Runners, JobFiles, States, Spendings
<1>11. ASSUME NEW j \in Jobs, Accept(j) PROVE RunnerInv(k)'
  BY <1>0, <1>11 DEF Accept, NewRunner, NoRunner, NoCall, CallInv, BootInv,
     RunnerInv, Working, Stored, Unfinished, TypeOK, Calls, Runners, JobFiles,
     States, Spendings
<1>12. ASSUME NEW j \in Jobs, RefuseUnwritten(j) PROVE RunnerInv(k)'
  BY <1>0, <1>12 DEF RefuseUnwritten, GiveUp, NoCall, WriteFails, CallInv,
     BootInv, RunnerInv, Working, Stored, Unfinished, TypeOK, Calls, Runners,
     JobFiles, States, Spendings
<1>13. ASSUME NEW j \in Jobs, NEW i \in Jobs, CleanUp(j, i) PROVE RunnerInv(k)'
  BY <1>0, <1>13 DEF CleanUp, Removable, CallInv, BootInv, RunnerInv, Working,
     Stored, Unfinished, TypeOK, Calls, Runners, JobFiles, States, Spendings
<1>14. ASSUME NEW j \in Jobs, TakeSlot(j) PROVE RunnerInv(k)'
  BY <1>0, <1>14 DEF TakeSlot, CallInv, BootInv, RunnerInv, Working, Stored,
     Unfinished, TypeOK, Calls, Runners, JobFiles, States, Spendings
<1>15. ASSUME NEW j \in Jobs, Start(j) PROVE RunnerInv(k)'
  <2>1. /\ disk'[j] # disk[j] => disk'[j].state = "running" /\ disk'[j].files = runner[j].files
        /\ spent'.writes = 0 => disk'[j].state = "running" /\ spent.writes = 0
        /\ \A x \in Jobs \ {j} : disk'[x] = disk[x]
    BY <1>0, <1>15, StartEffect
  <2>2. CASE k = j
    BY <1>0, <1>15, <2>1, <2>2 DEF Start, CallInv, BootInv, RunnerInv,
       Working, Stored, Unfinished, TypeOK, Calls, Runners, JobFiles, States,
       Spendings
  <2>3. CASE k # j
    BY <1>0, <1>15, <2>1, <2>3 DEF Start, CallInv, BootInv, RunnerInv,
       Working, Stored, Unfinished, TypeOK, Calls, Runners, JobFiles, States,
       Spendings
  <2> QED
    BY <2>2, <2>3
<1>16. ASSUME NEW j \in Jobs, CheckSource(j) PROVE RunnerInv(k)'
  BY <1>0, <1>16 DEF CheckSource, CallInv, BootInv, RunnerInv, Working,
     Stored, Unfinished, TypeOK, Calls, Runners, JobFiles, States, Spendings
<1>17. ASSUME NEW j \in Jobs, NextClip(j) PROVE RunnerInv(k)'
  <2>2. runner[j].done \in Nat /\ runner[j].done < parts[j] /\ runner[j].files = runner[j].done
    BY <1>0, <1>17 DEF NextClip, TypeOK, Runners, RunnerInv
  <2>3. /\ runner'[j].at = "working" /\ runner'[j].done = runner[j].done + 1
        /\ runner'[j].files = runner[j].files + 1
        /\ \A x \in Jobs \ {j} : runner'[x] = runner[x]
    BY <1>0, <1>17 DEF NextClip, TypeOK, Runners
  <2>4. /\ \A x \in Jobs \ {j} : disk'[x] = disk[x]
        /\ spent'.writes = 0 => spent.writes = 0
    BY <1>0, <1>17, NextClipEffect
  <2>5. active' = active /\ slots' = slots
    BY <1>17 DEF NextClip
  <2>6. CASE k = j
    BY <1>0, <1>17, <2>2, <2>3, <2>5, <2>6 DEF NextClip, RunnerInv, Working
  <2>7. CASE k # j
    BY <1>0, <2>3, <2>4, <2>5, <2>7 DEF RunnerInv, Working, Unfinished
  <2> QED
    BY <2>6, <2>7
<1>18. ASSUME NEW j \in Jobs, Complete(j) PROVE RunnerInv(k)'
  <2>1. /\ disk'[j] # disk[j] => disk'[j].state = "completed" /\ disk'[j].files = runner[j].files
        /\ spent'.writes = 0 => disk'[j].state = "completed" /\ spent.writes = 0
        /\ \A x \in Jobs \ {j} : disk'[x] = disk[x]
    BY <1>0, <1>18, CompleteEffect
  <2>2. CASE k = j
    BY <1>0, <1>18, <2>1, <2>2 DEF Complete, CallInv, BootInv, RunnerInv,
       Working, Stored, Unfinished, TypeOK, Calls, Runners, JobFiles, States,
       Spendings
  <2>3. CASE k # j
    BY <1>0, <1>18, <2>1, <2>3 DEF Complete, CallInv, BootInv, RunnerInv,
       Working, Stored, Unfinished, TypeOK, Calls, Runners, JobFiles, States,
       Spendings
  <2> QED
    BY <2>2, <2>3
<1>19. ASSUME NEW j \in Jobs, Fail(j) PROVE RunnerInv(k)'
  <2>1. /\ disk'[j] # disk[j] => disk'[j].state = "failed" /\ disk'[j].files = runner[j].files
        /\ spent'.writes = 0 => disk'[j].state = "failed" /\ spent.writes = 0
        /\ \A x \in Jobs \ {j} : disk'[x] = disk[x]
    BY <1>0, <1>19, FailEffect
  <2>2. CASE k = j
    BY <1>0, <1>19, <2>1, <2>2 DEF Fail, CallInv, BootInv, RunnerInv, Working,
       Stored, Unfinished, TypeOK, Calls, Runners, JobFiles, States, Spendings
  <2>3. CASE k # j
    BY <1>0, <1>19, <2>1, <2>3 DEF Fail, CallInv, BootInv, RunnerInv, Working,
       Stored, Unfinished, TypeOK, Calls, Runners, JobFiles, States, Spendings
  <2> QED
    BY <2>2, <2>3
<1>20. ASSUME NEW j \in Jobs, LeaveSlot(j) PROVE RunnerInv(k)'
  BY <1>0, <1>20 DEF LeaveSlot, CallInv, BootInv, RunnerInv, Working, Stored,
     Unfinished, TypeOK, Calls, Runners, JobFiles, States, Spendings
<1>21. ASSUME NEW j \in Jobs, Unregister(j) PROVE RunnerInv(k)'
  BY <1>0, <1>21 DEF Unregister, NoRunner, CallInv, BootInv, RunnerInv,
     Working, Stored, Unfinished, TypeOK, Calls, Runners, JobFiles, States,
     Spendings
<1>22. ASSUME NEW j \in Jobs, ReadJob(j) PROVE RunnerInv(k)'
  <2>1. /\ disk'[j].state \in {disk[j].state, "failed"}
        /\ disk'[j].files = disk[j].files
        /\ spent'.writes = 0 => disk'[j].state = "failed" /\ spent.writes = 0
        /\ \A x \in Jobs \ {j} : disk'[x] = disk[x]
    BY <1>0, <1>22, ReadJobEffect
  <2>2. CASE k = j
    BY <1>0, <1>22, <2>1, <2>2 DEF ReadJob, CallInv, BootInv, RunnerInv,
       Working, Stored, Unfinished, TypeOK, Calls, Runners, JobFiles, States,
       Spendings
  <2>3. CASE k # j
    BY <1>0, <1>22, <2>1, <2>3 DEF ReadJob, CallInv, BootInv, RunnerInv,
       Working, Stored, Unfinished, TypeOK, Calls, Runners, JobFiles, States,
       Spendings
  <2> QED
    BY <2>2, <2>3
<1>23. ASSUME NEW j \in Jobs, Expire(j) PROVE RunnerInv(k)'
  BY <1>0, <1>23 DEF Expire, CallInv, BootInv, RunnerInv, Working, Stored,
     Unfinished, TypeOK, Calls, Runners, JobFiles, States, Spendings
<1>24. ASSUME NEW j \in Jobs, RecordingChanges(j) PROVE RunnerInv(k)'
  BY <1>0, <1>24 DEF RecordingChanges, CallInv, BootInv, RunnerInv, Working,
     Stored, Unfinished, TypeOK, Calls, Runners, JobFiles, States, Spendings
<1>25. CASE UNCHANGED vars
  BY <1>0, <1>25 DEF vars, CallInv, BootInv, RunnerInv, Working, Stored,
     Unfinished, TypeOK, Calls, Runners, JobFiles, States, Spendings
<1> QED
  BY <1>1, <1>2, <1>3, <1>4, <1>5, <1>6, <1>7, <1>8, <1>9, <1>10, <1>11,
     <1>12, <1>13, <1>14, <1>15, <1>16, <1>17, <1>18, <1>19, <1>20, <1>21,
     <1>22, <1>23, <1>24, <1>25 DEF Next, BootStep, CallStep, RunnerStep

(* The boot.                                                               *)
LEMMA BootStepInv ==
    ASSUME IInv, [Next]_vars
    PROVE  BootInv'
<1> USE DEF files
<1>0. TypeOK /\ BootInv /\ \A x \in Jobs : CallInv(x) /\ RunnerInv(x)
  BY NewsAssumption DEF IInv
<1>1. CASE Restart
  BY <1>0, <1>1 DEF Restart, NoCall, NoRunner, CallInv, BootInv, RunnerInv,
     TypeOK
<1>2. CASE Serve
  BY <1>0, <1>2 DEF Serve, CallInv, BootInv, RunnerInv, TypeOK
<1>3. ASSUME NEW j \in Jobs, SkipJob(j) PROVE BootInv'
  BY <1>0, <1>3 DEF SkipJob, CallInv, BootInv, RunnerInv, TypeOK
<1>4. ASSUME NEW j \in Jobs, RecoverFails(j) PROVE BootInv'
  BY <1>0, <1>4, RecoverFailsEffect DEF RecoverFails, CallInv, BootInv,
     RunnerInv, TypeOK
<1>5. ASSUME NEW j \in Jobs, Recover(j) PROVE BootInv'
  BY <1>0, <1>5, RecoverEffect DEF Recover, NewRunner, NoRunner, CallInv,
     BootInv, RunnerInv, TypeOK
<1>6. ASSUME NEW j \in Jobs, Submit(j) PROVE BootInv'
  BY <1>0, <1>6 DEF Submit, CallInv, BootInv, RunnerInv, TypeOK
<1>7. ASSUME NEW j \in Jobs, CleanedUp(j) PROVE BootInv'
  BY <1>0, <1>7 DEF CleanedUp, CallInv, BootInv, RunnerInv, TypeOK
<1>8. ASSUME NEW j \in Jobs, RemoveAll(j) PROVE BootInv'
  BY <1>0, <1>8 DEF RemoveAll, NoJob, CallInv, BootInv, RunnerInv, TypeOK
<1>9. ASSUME NEW j \in Jobs, Refuse(j) PROVE BootInv'
  BY <1>0, <1>9 DEF Refuse, GiveUp, NoCall, CallInv, BootInv, RunnerInv,
     TypeOK
<1>10. ASSUME NEW j \in Jobs, SaveRecovery(j) PROVE BootInv'
  BY <1>0, <1>10 DEF SaveRecovery, CallInv, BootInv, RunnerInv, TypeOK
<1>11. ASSUME NEW j \in Jobs, Accept(j) PROVE BootInv'
  BY <1>0, <1>11 DEF Accept, NewRunner, NoRunner, NoCall, CallInv, BootInv,
     RunnerInv, TypeOK
<1>12. ASSUME NEW j \in Jobs, RefuseUnwritten(j) PROVE BootInv'
  BY <1>0, <1>12 DEF RefuseUnwritten, GiveUp, NoCall, WriteFails, CallInv,
     BootInv, RunnerInv, TypeOK
<1>13. ASSUME NEW j \in Jobs, NEW i \in Jobs, CleanUp(j, i) PROVE BootInv'
  BY <1>0, <1>13 DEF CleanUp, Removable, CallInv, BootInv, RunnerInv, TypeOK
<1>14. ASSUME NEW j \in Jobs, TakeSlot(j) PROVE BootInv'
  BY <1>0, <1>14 DEF TakeSlot, CallInv, BootInv, RunnerInv, TypeOK
<1>15. ASSUME NEW j \in Jobs, Start(j) PROVE BootInv'
  BY <1>0, <1>15, StartEffect DEF Start, CallInv, BootInv, RunnerInv, TypeOK
<1>16. ASSUME NEW j \in Jobs, CheckSource(j) PROVE BootInv'
  BY <1>0, <1>16 DEF CheckSource, CallInv, BootInv, RunnerInv, TypeOK
<1>17. ASSUME NEW j \in Jobs, NextClip(j) PROVE BootInv'
  BY <1>0, <1>17, NextClipEffect DEF NextClip, CallInv, BootInv, RunnerInv,
     TypeOK
<1>18. ASSUME NEW j \in Jobs, Complete(j) PROVE BootInv'
  BY <1>0, <1>18, CompleteEffect DEF Complete, CallInv, BootInv, RunnerInv,
     TypeOK
<1>19. ASSUME NEW j \in Jobs, Fail(j) PROVE BootInv'
  BY <1>0, <1>19, FailEffect DEF Fail, CallInv, BootInv, RunnerInv, TypeOK
<1>20. ASSUME NEW j \in Jobs, LeaveSlot(j) PROVE BootInv'
  BY <1>0, <1>20 DEF LeaveSlot, CallInv, BootInv, RunnerInv, TypeOK
<1>21. ASSUME NEW j \in Jobs, Unregister(j) PROVE BootInv'
  BY <1>0, <1>21 DEF Unregister, NoRunner, CallInv, BootInv, RunnerInv, TypeOK
<1>22. ASSUME NEW j \in Jobs, ReadJob(j) PROVE BootInv'
  BY <1>0, <1>22, ReadJobEffect DEF ReadJob, CallInv, BootInv, RunnerInv,
     TypeOK
<1>23. ASSUME NEW j \in Jobs, Expire(j) PROVE BootInv'
  BY <1>0, <1>23 DEF Expire, CallInv, BootInv, RunnerInv, TypeOK
<1>24. ASSUME NEW j \in Jobs, RecordingChanges(j) PROVE BootInv'
  BY <1>0, <1>24 DEF RecordingChanges, CallInv, BootInv, RunnerInv, TypeOK
<1>25. CASE UNCHANGED vars
  BY <1>0, <1>25 DEF vars, CallInv, BootInv, RunnerInv, TypeOK
<1> QED
  BY <1>1, <1>2, <1>3, <1>4, <1>5, <1>6, <1>7, <1>8, <1>9, <1>10, <1>11,
     <1>12, <1>13, <1>14, <1>15, <1>16, <1>17, <1>18, <1>19, <1>20, <1>21,
     <1>22, <1>23, <1>24, <1>25 DEF Next, BootStep, CallStep, RunnerStep

(* The recovery record is there before the job and as long.                *)
LEMMA RecordedStep ==
    ASSUME IInv, [Next]_vars, NEW k \in Jobs
    PROVE  Unfinished(k)' => recovery'[k]
<1> USE DEF files
<1>0. TypeOK /\ Recorded /\ NotOverWhileWorking /\ \A x \in Jobs : CallInv(x) /\ RunnerInv(x)
  BY NewsAssumption DEF IInv
<1>1. ASSUME NEW j \in Jobs, RecoverFails(j) PROVE Unfinished(k)' => recovery'[k]
  BY <1>0, <1>1, RecoverFailsEffect DEF RecoverFails, CallInv, RunnerInv,
     Recorded, NotOverWhileWorking, Stored, Unfinished, TypeOK, Calls,
     Runners, JobFiles, States
<1>2. ASSUME NEW j \in Jobs, Recover(j) PROVE Unfinished(k)' => recovery'[k]
  BY <1>0, <1>2, RecoverEffect DEF Recover, NewRunner, NoRunner, CallInv,
     RunnerInv, Recorded, NotOverWhileWorking, Stored, Unfinished, TypeOK,
     Calls, Runners, JobFiles, States
<1>3. ASSUME NEW j \in Jobs, RemoveAll(j) PROVE Unfinished(k)' => recovery'[k]
  BY <1>0, <1>3 DEF RemoveAll, NoJob, CallInv, RunnerInv, Recorded,
     NotOverWhileWorking, Stored, Unfinished, TypeOK, Calls, Runners,
     JobFiles, States
<1>4. ASSUME NEW j \in Jobs, SaveRecovery(j) PROVE Unfinished(k)' => recovery'[k]
  BY <1>0, <1>4 DEF SaveRecovery, CallInv, RunnerInv, Recorded,
     NotOverWhileWorking, Stored, Unfinished, TypeOK, Calls, Runners,
     JobFiles, States
<1>5. ASSUME NEW j \in Jobs, Accept(j) PROVE Unfinished(k)' => recovery'[k]
  BY <1>0, <1>5 DEF Accept, NewRunner, NoRunner, NoCall, CallInv, RunnerInv,
     Recorded, NotOverWhileWorking, Stored, Unfinished, TypeOK, Calls,
     Runners, JobFiles, States
<1>6. ASSUME NEW j \in Jobs, Start(j) PROVE Unfinished(k)' => recovery'[k]
  <2>1. /\ disk'[j] # disk[j] => disk'[j].state = "running" /\ disk'[j].files = runner[j].files
        /\ spent'.writes = 0 => disk'[j].state = "running" /\ spent.writes = 0
        /\ \A x \in Jobs \ {j} : disk'[x] = disk[x]
    BY <1>0, <1>6, StartEffect
  <2>2. CASE k = j
    BY <1>0, <1>6, <2>1, <2>2 DEF Start, CallInv, RunnerInv, Recorded,
       NotOverWhileWorking, Stored, Unfinished, TypeOK, Calls, Runners,
       JobFiles, States
  <2>3. CASE k # j
    BY <1>0, <1>6, <2>1, <2>3 DEF Start, CallInv, RunnerInv, Recorded,
       NotOverWhileWorking, Stored, Unfinished, TypeOK, Calls, Runners,
       JobFiles, States
  <2> QED
    BY <2>2, <2>3
<1>7. ASSUME NEW j \in Jobs, NextClip(j) PROVE Unfinished(k)' => recovery'[k]
  <2>1. /\ disk'[j] # disk[j] => disk'[j].state = "running" /\ disk'[j].files = runner[j].files + 1
        /\ spent'.writes = 0 => disk'[j].state = "running" /\ spent.writes = 0
        /\ \A x \in Jobs \ {j} : disk'[x] = disk[x]
    BY <1>0, <1>7, NextClipEffect
  <2>2. CASE k = j
    BY <1>0, <1>7, <2>1, <2>2 DEF NextClip, CallInv, RunnerInv, Recorded,
       NotOverWhileWorking, Stored, Unfinished, TypeOK, Calls, Runners,
       JobFiles, States
  <2>3. CASE k # j
    BY <1>0, <1>7, <2>1, <2>3 DEF NextClip, CallInv, RunnerInv, Recorded,
       NotOverWhileWorking, Stored, Unfinished, TypeOK, Calls, Runners,
       JobFiles, States
  <2> QED
    BY <2>2, <2>3
<1>8. ASSUME NEW j \in Jobs, Complete(j) PROVE Unfinished(k)' => recovery'[k]
  <2>1. recovery' = recovery /\ \A x \in Jobs : Unfinished(x)' => Unfinished(x)
    BY <1>0, <1>8, CompleteEffect DEF Complete, Unfinished
  <2> QED
    BY <1>0, <2>1 DEF Recorded
<1>9. ASSUME NEW j \in Jobs, Fail(j) PROVE Unfinished(k)' => recovery'[k]
  <2>1. recovery' = recovery /\ \A x \in Jobs : Unfinished(x)' => Unfinished(x)
    BY <1>0, <1>9, FailEffect DEF Fail, Unfinished
  <2> QED
    BY <1>0, <2>1 DEF Recorded
<1>10. ASSUME NEW j \in Jobs, ReadJob(j) PROVE Unfinished(k)' => recovery'[k]
  <2>1. /\ disk'[j].state \in {disk[j].state, "failed"}
        /\ disk'[j].files = disk[j].files
        /\ spent'.writes = 0 => disk'[j].state = "failed" /\ spent.writes = 0
        /\ \A x \in Jobs \ {j} : disk'[x] = disk[x]
    BY <1>0, <1>10, ReadJobEffect
  <2>2. CASE k = j
    BY <1>0, <1>10, <2>1, <2>2 DEF ReadJob, CallInv, RunnerInv, Recorded,
       NotOverWhileWorking, Stored, Unfinished, TypeOK, Calls, Runners,
       JobFiles, States
  <2>3. CASE k # j
    BY <1>0, <1>10, <2>1, <2>3 DEF ReadJob, CallInv, RunnerInv, Recorded,
       NotOverWhileWorking, Stored, Unfinished, TypeOK, Calls, Runners,
       JobFiles, States
  <2> QED
    BY <2>2, <2>3
<1>11. CASE UNCHANGED <<disk, recovery>>
  BY <1>0, <1>11 DEF CallInv, RunnerInv, Recorded, NotOverWhileWorking,
     Stored, Unfinished, TypeOK, Calls, Runners, JobFiles, States
<1> QED
  BY <1>1, <1>2, <1>3, <1>4, <1>5, <1>6, <1>7, <1>8, <1>9, <1>10, <1>11,
     DiskStep

(* Nobody ends the job of a runner.                                        *)
LEMMA WorkingStep ==
    ASSUME IInv, [Next]_vars, NEW k \in Jobs
    PROVE  (runner[k].at \in {"waiting", "started", "opened", "working"} => Unfinished(k))'
<1> USE DEF files
<1>0. TypeOK /\ NotOverWhileWorking /\ BootInv /\ \A x \in Jobs : CallInv(x) /\ RunnerInv(x)
  BY NewsAssumption DEF IInv
<1>1. CASE Restart
  BY <1>0, <1>1 DEF Restart, NoCall, NoRunner, CallInv, RunnerInv, BootInv,
     NotOverWhileWorking, Stored, Unfinished, TypeOK, Calls, Runners,
     JobFiles, States
<1>2. CASE Serve
  BY <1>0, <1>2 DEF Serve, CallInv, RunnerInv, BootInv, NotOverWhileWorking,
     Stored, Unfinished, TypeOK, Calls, Runners, JobFiles, States
<1>3. ASSUME NEW j \in Jobs, SkipJob(j)
      PROVE  (runner[k].at \in {"waiting", "started", "opened", "working"} => Unfinished(k))'
  BY <1>0, <1>3 DEF SkipJob, CallInv, RunnerInv, BootInv, NotOverWhileWorking,
     Stored, Unfinished, TypeOK, Calls, Runners, JobFiles, States
<1>4. ASSUME NEW j \in Jobs, RecoverFails(j)
      PROVE  (runner[k].at \in {"waiting", "started", "opened", "working"} => Unfinished(k))'
  <2>1. runner[j].at = "none" /\ runner' = runner
    BY <1>0, <1>4 DEF RecoverFails, BootInv, RunnerInv
  <2>2. \A x \in Jobs \ {j} : disk'[x] = disk[x]
    BY <1>0, <1>4, RecoverFailsEffect
  <2> QED
    BY <1>0, <2>1, <2>2 DEF NotOverWhileWorking, Unfinished
<1>5. ASSUME NEW j \in Jobs, Recover(j)
      PROVE  (runner[k].at \in {"waiting", "started", "opened", "working"} => Unfinished(k))'
  <2>1. /\ disk'[j] # disk[j] => disk'[j].state = "queued" /\ disk'[j].files = 0
        /\ spent'.writes = 0 => disk'[j].state = "queued" /\ spent.writes = 0
        /\ \A x \in Jobs \ {j} : disk'[x] = disk[x]
    BY <1>0, <1>5, RecoverEffect
  <2>2. CASE k = j
    BY <1>0, <1>5, <2>1, <2>2 DEF Recover, NewRunner, NoRunner, CallInv,
       RunnerInv, BootInv, NotOverWhileWorking, Stored, Unfinished, TypeOK,
       Calls, Runners, JobFiles, States
  <2>3. CASE k # j
    BY <1>0, <1>5, <2>1, <2>3 DEF Recover, NewRunner, NoRunner, CallInv,
       RunnerInv, BootInv, NotOverWhileWorking, Stored, Unfinished, TypeOK,
       Calls, Runners, JobFiles, States
  <2> QED
    BY <2>2, <2>3
<1>6. ASSUME NEW j \in Jobs, Submit(j)
      PROVE  (runner[k].at \in {"waiting", "started", "opened", "working"} => Unfinished(k))'
  BY <1>0, <1>6 DEF Submit, CallInv, RunnerInv, BootInv, NotOverWhileWorking,
     Stored, Unfinished, TypeOK, Calls, Runners, JobFiles, States
<1>7. ASSUME NEW j \in Jobs, CleanedUp(j)
      PROVE  (runner[k].at \in {"waiting", "started", "opened", "working"} => Unfinished(k))'
  BY <1>0, <1>7 DEF CleanedUp, CallInv, RunnerInv, BootInv,
     NotOverWhileWorking, Stored, Unfinished, TypeOK, Calls, Runners,
     JobFiles, States
<1>8. ASSUME NEW j \in Jobs, RemoveAll(j)
      PROVE  (runner[k].at \in {"waiting", "started", "opened", "working"} => Unfinished(k))'
  BY <1>0, <1>8 DEF RemoveAll, NoJob, CallInv, RunnerInv, BootInv,
     NotOverWhileWorking, Stored, Unfinished, TypeOK, Calls, Runners,
     JobFiles, States
<1>9. ASSUME NEW j \in Jobs, Refuse(j)
      PROVE  (runner[k].at \in {"waiting", "started", "opened", "working"} => Unfinished(k))'
  BY <1>0, <1>9 DEF Refuse, GiveUp, NoCall, CallInv, RunnerInv, BootInv,
     NotOverWhileWorking, Stored, Unfinished, TypeOK, Calls, Runners,
     JobFiles, States
<1>10. ASSUME NEW j \in Jobs, SaveRecovery(j)
      PROVE  (runner[k].at \in {"waiting", "started", "opened", "working"} => Unfinished(k))'
  BY <1>0, <1>10 DEF SaveRecovery, CallInv, RunnerInv, BootInv,
     NotOverWhileWorking, Stored, Unfinished, TypeOK, Calls, Runners,
     JobFiles, States
<1>11. ASSUME NEW j \in Jobs, Accept(j)
      PROVE  (runner[k].at \in {"waiting", "started", "opened", "working"} => Unfinished(k))'
  BY <1>0, <1>11 DEF Accept, NewRunner, NoRunner, NoCall, CallInv, RunnerInv,
     BootInv, NotOverWhileWorking, Stored, Unfinished, TypeOK, Calls, Runners,
     JobFiles, States
<1>12. ASSUME NEW j \in Jobs, RefuseUnwritten(j)
      PROVE  (runner[k].at \in {"waiting", "started", "opened", "working"} => Unfinished(k))'
  BY <1>0, <1>12 DEF RefuseUnwritten, GiveUp, NoCall, WriteFails, CallInv,
     RunnerInv, BootInv, NotOverWhileWorking, Stored, Unfinished, TypeOK,
     Calls, Runners, JobFiles, States
<1>13. ASSUME NEW j \in Jobs, NEW i \in Jobs, CleanUp(j, i)
      PROVE  (runner[k].at \in {"waiting", "started", "opened", "working"} => Unfinished(k))'
  BY <1>0, <1>13 DEF CleanUp, Removable, CallInv, RunnerInv, BootInv,
     NotOverWhileWorking, Stored, Unfinished, TypeOK, Calls, Runners,
     JobFiles, States
<1>14. ASSUME NEW j \in Jobs, TakeSlot(j)
      PROVE  (runner[k].at \in {"waiting", "started", "opened", "working"} => Unfinished(k))'
  BY <1>0, <1>14 DEF TakeSlot, CallInv, RunnerInv, BootInv,
     NotOverWhileWorking, Stored, Unfinished, TypeOK, Calls, Runners,
     JobFiles, States
<1>15. ASSUME NEW j \in Jobs, Start(j)
      PROVE  (runner[k].at \in {"waiting", "started", "opened", "working"} => Unfinished(k))'
  <2>1. /\ disk'[j] # disk[j] => disk'[j].state = "running"
        /\ \A x \in Jobs \ {j} : disk'[x] = disk[x]
        /\ runner[j].at = "started"
        /\ \A x \in Jobs \ {j} : runner'[x] = runner[x]
    BY <1>0, <1>15, StartEffect DEF Start, TypeOK
  <2>2. CASE k = j
    BY <1>0, <2>1, <2>2 DEF NotOverWhileWorking, Unfinished
  <2>3. CASE k # j
    BY <1>0, <2>1, <2>3 DEF NotOverWhileWorking, Unfinished
  <2> QED
    BY <2>2, <2>3
<1>16. ASSUME NEW j \in Jobs, CheckSource(j)
      PROVE  (runner[k].at \in {"waiting", "started", "opened", "working"} => Unfinished(k))'
  BY <1>0, <1>16 DEF CheckSource, CallInv, RunnerInv, BootInv,
     NotOverWhileWorking, Stored, Unfinished, TypeOK, Calls, Runners,
     JobFiles, States
<1>17. ASSUME NEW j \in Jobs, NextClip(j)
      PROVE  (runner[k].at \in {"waiting", "started", "opened", "working"} => Unfinished(k))'
  BY <1>0, <1>17, NextClipEffect DEF NextClip, CallInv, RunnerInv, BootInv,
     NotOverWhileWorking, Stored, Unfinished, TypeOK, Calls, Runners,
     JobFiles, States
<1>18. ASSUME NEW j \in Jobs, Complete(j)
      PROVE  (runner[k].at \in {"waiting", "started", "opened", "working"} => Unfinished(k))'
  <2>1. /\ disk'[j] # disk[j] => disk'[j].state = "completed" /\ disk'[j].files = runner[j].files
        /\ spent'.writes = 0 => disk'[j].state = "completed" /\ spent.writes = 0
        /\ \A x \in Jobs \ {j} : disk'[x] = disk[x]
    BY <1>0, <1>18, CompleteEffect
  <2>2. CASE k = j
    BY <1>0, <1>18, <2>1, <2>2 DEF Complete, CallInv, RunnerInv, BootInv,
       NotOverWhileWorking, Stored, Unfinished, TypeOK, Calls, Runners,
       JobFiles, States
  <2>3. CASE k # j
    BY <1>0, <1>18, <2>1, <2>3 DEF Complete, CallInv, RunnerInv, BootInv,
       NotOverWhileWorking, Stored, Unfinished, TypeOK, Calls, Runners,
       JobFiles, States
  <2> QED
    BY <2>2, <2>3
<1>19. ASSUME NEW j \in Jobs, Fail(j)
      PROVE  (runner[k].at \in {"waiting", "started", "opened", "working"} => Unfinished(k))'
  <2>1. /\ disk'[j] # disk[j] => disk'[j].state = "failed" /\ disk'[j].files = runner[j].files
        /\ spent'.writes = 0 => disk'[j].state = "failed" /\ spent.writes = 0
        /\ \A x \in Jobs \ {j} : disk'[x] = disk[x]
    BY <1>0, <1>19, FailEffect
  <2>2. CASE k = j
    BY <1>0, <1>19, <2>1, <2>2 DEF Fail, CallInv, RunnerInv, BootInv,
       NotOverWhileWorking, Stored, Unfinished, TypeOK, Calls, Runners,
       JobFiles, States
  <2>3. CASE k # j
    BY <1>0, <1>19, <2>1, <2>3 DEF Fail, CallInv, RunnerInv, BootInv,
       NotOverWhileWorking, Stored, Unfinished, TypeOK, Calls, Runners,
       JobFiles, States
  <2> QED
    BY <2>2, <2>3
<1>20. ASSUME NEW j \in Jobs, LeaveSlot(j)
      PROVE  (runner[k].at \in {"waiting", "started", "opened", "working"} => Unfinished(k))'
  BY <1>0, <1>20 DEF LeaveSlot, CallInv, RunnerInv, BootInv,
     NotOverWhileWorking, Stored, Unfinished, TypeOK, Calls, Runners,
     JobFiles, States
<1>21. ASSUME NEW j \in Jobs, Unregister(j)
      PROVE  (runner[k].at \in {"waiting", "started", "opened", "working"} => Unfinished(k))'
  BY <1>0, <1>21 DEF Unregister, NoRunner, CallInv, RunnerInv, BootInv,
     NotOverWhileWorking, Stored, Unfinished, TypeOK, Calls, Runners,
     JobFiles, States
<1>22. ASSUME NEW j \in Jobs, ReadJob(j)
      PROVE  (runner[k].at \in {"waiting", "started", "opened", "working"} => Unfinished(k))'
  <2>1. /\ disk'[j].state \in {disk[j].state, "failed"}
        /\ disk'[j].files = disk[j].files
        /\ spent'.writes = 0 => disk'[j].state = "failed" /\ spent.writes = 0
        /\ \A x \in Jobs \ {j} : disk'[x] = disk[x]
    BY <1>0, <1>22, ReadJobEffect
  <2>2. CASE k = j
    BY <1>0, <1>22, <2>1, <2>2 DEF ReadJob, CallInv, RunnerInv, BootInv,
       NotOverWhileWorking, Stored, Unfinished, TypeOK, Calls, Runners,
       JobFiles, States
  <2>3. CASE k # j
    BY <1>0, <1>22, <2>1, <2>3 DEF ReadJob, CallInv, RunnerInv, BootInv,
       NotOverWhileWorking, Stored, Unfinished, TypeOK, Calls, Runners,
       JobFiles, States
  <2> QED
    BY <2>2, <2>3
<1>23. ASSUME NEW j \in Jobs, Expire(j)
      PROVE  (runner[k].at \in {"waiting", "started", "opened", "working"} => Unfinished(k))'
  BY <1>0, <1>23 DEF Expire, CallInv, RunnerInv, BootInv, NotOverWhileWorking,
     Stored, Unfinished, TypeOK, Calls, Runners, JobFiles, States
<1>24. ASSUME NEW j \in Jobs, RecordingChanges(j)
      PROVE  (runner[k].at \in {"waiting", "started", "opened", "working"} => Unfinished(k))'
  BY <1>0, <1>24 DEF RecordingChanges, CallInv, RunnerInv, BootInv,
     NotOverWhileWorking, Stored, Unfinished, TypeOK, Calls, Runners,
     JobFiles, States
<1>25. CASE UNCHANGED vars
  BY <1>0, <1>25 DEF vars, CallInv, RunnerInv, BootInv, NotOverWhileWorking,
     Stored, Unfinished, TypeOK, Calls, Runners, JobFiles, States
<1> QED
  BY <1>1, <1>2, <1>3, <1>4, <1>5, <1>6, <1>7, <1>8, <1>9, <1>10, <1>11,
     <1>12, <1>13, <1>14, <1>15, <1>16, <1>17, <1>18, <1>19, <1>20, <1>21,
     <1>22, <1>23, <1>24, <1>25 DEF Next, BootStep, CallStep, RunnerStep

(* Completed jobs are whole.                                               *)
LEMMA WholeStep ==
    ASSUME IInv, [Next]_vars, NEW k \in Jobs
    PROVE  (disk[k].state = "completed" => disk[k].files = parts[k])'
<1> USE DEF files
<1>0. parts[k] \in Nat /\ TypeOK /\ CompletedIsWhole /\ \A x \in Jobs : RunnerInv(x)
  BY NewsAssumption DEF IInv
<1>1. ASSUME NEW j \in Jobs, RecoverFails(j)
      PROVE  (disk[k].state = "completed" => disk[k].files = parts[k])'
  <2>1. disk'[k].state = "completed" =>
           disk[k].state = "completed" /\ disk'[k].files = disk[k].files
    BY <1>0, <1>1, RecoverFailsEffect
  <2> QED
    BY <1>0, <2>1 DEF CompletedIsWhole
<1>2. ASSUME NEW j \in Jobs, Recover(j)
      PROVE  (disk[k].state = "completed" => disk[k].files = parts[k])'
  <2>1. disk'[k].state = "completed" => disk'[k] = disk[k]
    BY <1>0, <1>2, RecoverEffect
  <2> QED
    BY <1>0, <2>1 DEF CompletedIsWhole
<1>3. ASSUME NEW j \in Jobs, RemoveAll(j)
      PROVE  (disk[k].state = "completed" => disk[k].files = parts[k])'
  BY <1>0, <1>3 DEF RemoveAll, NoJob, RunnerInv, CompletedIsWhole, Stored,
     Unfinished, TypeOK, Calls, Runners, JobFiles, States
<1>4. ASSUME NEW j \in Jobs, SaveRecovery(j)
      PROVE  (disk[k].state = "completed" => disk[k].files = parts[k])'
  BY <1>0, <1>4 DEF SaveRecovery, RunnerInv, CompletedIsWhole, Stored,
     Unfinished, TypeOK, Calls, Runners, JobFiles, States
<1>5. ASSUME NEW j \in Jobs, Accept(j)
      PROVE  (disk[k].state = "completed" => disk[k].files = parts[k])'
  BY <1>0, <1>5 DEF Accept, NewRunner, NoRunner, NoCall, RunnerInv,
     CompletedIsWhole, Stored, Unfinished, TypeOK, Calls, Runners, JobFiles,
     States
<1>6. ASSUME NEW j \in Jobs, Start(j)
      PROVE  (disk[k].state = "completed" => disk[k].files = parts[k])'
  <2>1. /\ disk'[j] # disk[j] => disk'[j].state = "running" /\ disk'[j].files = runner[j].files
        /\ spent'.writes = 0 => disk'[j].state = "running" /\ spent.writes = 0
        /\ \A x \in Jobs \ {j} : disk'[x] = disk[x]
    BY <1>0, <1>6, StartEffect
  <2>2. CASE k = j
    BY <1>0, <1>6, <2>1, <2>2 DEF Start, RunnerInv, CompletedIsWhole, Stored,
       Unfinished, TypeOK, Calls, Runners, JobFiles, States
  <2>3. CASE k # j
    BY <1>0, <1>6, <2>1, <2>3 DEF Start, RunnerInv, CompletedIsWhole, Stored,
       Unfinished, TypeOK, Calls, Runners, JobFiles, States
  <2> QED
    BY <2>2, <2>3
<1>7. ASSUME NEW j \in Jobs, NextClip(j)
      PROVE  (disk[k].state = "completed" => disk[k].files = parts[k])'
  <2>1. /\ disk'[j] # disk[j] => disk'[j].state = "running" /\ disk'[j].files = runner[j].files + 1
        /\ spent'.writes = 0 => disk'[j].state = "running" /\ spent.writes = 0
        /\ \A x \in Jobs \ {j} : disk'[x] = disk[x]
    BY <1>0, <1>7, NextClipEffect
  <2>2. CASE k = j
    BY <1>0, <1>7, <2>1, <2>2 DEF NextClip, RunnerInv, CompletedIsWhole,
       Stored, Unfinished, TypeOK, Calls, Runners, JobFiles, States
  <2>3. CASE k # j
    BY <1>0, <1>7, <2>1, <2>3 DEF NextClip, RunnerInv, CompletedIsWhole,
       Stored, Unfinished, TypeOK, Calls, Runners, JobFiles, States
  <2> QED
    BY <2>2, <2>3
<1>8. ASSUME NEW j \in Jobs, Complete(j)
      PROVE  (disk[k].state = "completed" => disk[k].files = parts[k])'
  <2>2. \A x \in Jobs : runner[x].done \in Nat /\ parts[x] \in Nat
    BY <1>0, NewsAssumption DEF TypeOK, Runners
  <2>3. runner[j].files = parts[j]
    BY <1>0, <1>8, <2>2 DEF Complete, RunnerInv
  <2> QED
    BY <1>0, <1>8, <2>3, CompleteEffect DEF CompletedIsWhole
<1>9. ASSUME NEW j \in Jobs, Fail(j)
      PROVE  (disk[k].state = "completed" => disk[k].files = parts[k])'
  <2>1. /\ disk'[j] # disk[j] => disk'[j].state = "failed" /\ disk'[j].files = runner[j].files
        /\ spent'.writes = 0 => disk'[j].state = "failed" /\ spent.writes = 0
        /\ \A x \in Jobs \ {j} : disk'[x] = disk[x]
    BY <1>0, <1>9, FailEffect
  <2>2. CASE k = j
    BY <1>0, <1>9, <2>1, <2>2 DEF Fail, RunnerInv, CompletedIsWhole, Stored,
       Unfinished, TypeOK, Calls, Runners, JobFiles, States
  <2>3. CASE k # j
    BY <1>0, <1>9, <2>1, <2>3 DEF Fail, RunnerInv, CompletedIsWhole, Stored,
       Unfinished, TypeOK, Calls, Runners, JobFiles, States
  <2> QED
    BY <2>2, <2>3
<1>10. ASSUME NEW j \in Jobs, ReadJob(j)
      PROVE  (disk[k].state = "completed" => disk[k].files = parts[k])'
  BY <1>0, <1>10, ReadJobEffect DEF ReadJob, RunnerInv, CompletedIsWhole,
     Stored, Unfinished, TypeOK, Calls, Runners, JobFiles, States
<1>11. CASE UNCHANGED <<disk, recovery>>
  BY <1>0, <1>11 DEF RunnerInv, CompletedIsWhole, Stored, Unfinished, TypeOK,
     Calls, Runners, JobFiles, States
<1> QED
  BY <1>1, <1>2, <1>3, <1>4, <1>5, <1>6, <1>7, <1>8, <1>9, <1>10, <1>11,
     DiskStep

(* Nothing unfinished is forgotten.                                        *)
LEMMA ForgottenStep ==
    ASSUME IInv, [Next]_vars, NEW k \in Jobs
    PROVE  (spent.writes = 0 /\ Unfinished(k) /\ ~expired[k] => k \in Pending)'
<1> USE DEF files
<1>0. TypeOK /\ NothingForgotten /\ BootInv /\ NotOverWhileWorking /\ \A x \in Jobs : CallInv(x) /\ RunnerInv(x)
  BY NewsAssumption DEF IInv
<1>1. CASE Restart
  BY <1>0, <1>1 DEF Restart, NoCall, NoRunner, CallInv, RunnerInv, BootInv,
     NothingForgotten, Pending, NotOverWhileWorking, Stored, Unfinished,
     TypeOK, Calls, Runners, JobFiles, States, Spendings
<1>2. CASE Serve
  BY <1>0, <1>2 DEF Serve, CallInv, RunnerInv, BootInv, NothingForgotten,
     Pending, NotOverWhileWorking, Stored, Unfinished, TypeOK, Calls, Runners,
     JobFiles, States, Spendings
<1>3. ASSUME NEW j \in Jobs, SkipJob(j)
      PROVE  (spent.writes = 0 /\ Unfinished(k) /\ ~expired[k] => k \in Pending)'
  BY <1>0, <1>3 DEF SkipJob, CallInv, RunnerInv, BootInv, NothingForgotten,
     Pending, NotOverWhileWorking, Stored, Unfinished, TypeOK, Calls, Runners,
     JobFiles, States, Spendings
<1>4. ASSUME NEW j \in Jobs, RecoverFails(j)
      PROVE  (spent.writes = 0 /\ Unfinished(k) /\ ~expired[k] => k \in Pending)'
  BY <1>0, <1>4, RecoverFailsEffect DEF RecoverFails, CallInv, RunnerInv,
     BootInv, NothingForgotten, Pending, NotOverWhileWorking, Stored,
     Unfinished, TypeOK, Calls, Runners, JobFiles, States, Spendings
<1>5. ASSUME NEW j \in Jobs, Recover(j)
      PROVE  (spent.writes = 0 /\ Unfinished(k) /\ ~expired[k] => k \in Pending)'
  BY <1>0, <1>5, RecoverEffect DEF Recover, NewRunner, NoRunner, CallInv,
     RunnerInv, BootInv, NothingForgotten, Pending, NotOverWhileWorking,
     Stored, Unfinished, TypeOK, Calls, Runners, JobFiles, States, Spendings
<1>6. ASSUME NEW j \in Jobs, Submit(j)
      PROVE  (spent.writes = 0 /\ Unfinished(k) /\ ~expired[k] => k \in Pending)'
  BY <1>0, <1>6 DEF Submit, CallInv, RunnerInv, BootInv, NothingForgotten,
     Pending, NotOverWhileWorking, Stored, Unfinished, TypeOK, Calls, Runners,
     JobFiles, States, Spendings
<1>7. ASSUME NEW j \in Jobs, CleanedUp(j)
      PROVE  (spent.writes = 0 /\ Unfinished(k) /\ ~expired[k] => k \in Pending)'
  BY <1>0, <1>7 DEF CleanedUp, CallInv, RunnerInv, BootInv, NothingForgotten,
     Pending, NotOverWhileWorking, Stored, Unfinished, TypeOK, Calls, Runners,
     JobFiles, States, Spendings
<1>8. ASSUME NEW j \in Jobs, RemoveAll(j)
      PROVE  (spent.writes = 0 /\ Unfinished(k) /\ ~expired[k] => k \in Pending)'
  BY <1>0, <1>8 DEF RemoveAll, NoJob, CallInv, RunnerInv, BootInv,
     NothingForgotten, Pending, NotOverWhileWorking, Stored, Unfinished,
     TypeOK, Calls, Runners, JobFiles, States, Spendings
<1>9. ASSUME NEW j \in Jobs, Refuse(j)
      PROVE  (spent.writes = 0 /\ Unfinished(k) /\ ~expired[k] => k \in Pending)'
  BY <1>0, <1>9 DEF Refuse, GiveUp, NoCall, CallInv, RunnerInv, BootInv,
     NothingForgotten, Pending, NotOverWhileWorking, Stored, Unfinished,
     TypeOK, Calls, Runners, JobFiles, States, Spendings
<1>10. ASSUME NEW j \in Jobs, SaveRecovery(j)
      PROVE  (spent.writes = 0 /\ Unfinished(k) /\ ~expired[k] => k \in Pending)'
  BY <1>0, <1>10 DEF SaveRecovery, CallInv, RunnerInv, BootInv,
     NothingForgotten, Pending, NotOverWhileWorking, Stored, Unfinished,
     TypeOK, Calls, Runners, JobFiles, States, Spendings
<1>11. ASSUME NEW j \in Jobs, Accept(j)
      PROVE  (spent.writes = 0 /\ Unfinished(k) /\ ~expired[k] => k \in Pending)'
  BY <1>0, <1>11 DEF Accept, NewRunner, NoRunner, NoCall, CallInv, RunnerInv,
     BootInv, NothingForgotten, Pending, NotOverWhileWorking, Stored,
     Unfinished, TypeOK, Calls, Runners, JobFiles, States, Spendings
<1>12. ASSUME NEW j \in Jobs, RefuseUnwritten(j)
      PROVE  (spent.writes = 0 /\ Unfinished(k) /\ ~expired[k] => k \in Pending)'
  BY <1>0, <1>12 DEF RefuseUnwritten, GiveUp, NoCall, WriteFails, CallInv,
     RunnerInv, BootInv, NothingForgotten, Pending, NotOverWhileWorking,
     Stored, Unfinished, TypeOK, Calls, Runners, JobFiles, States, Spendings
<1>13. ASSUME NEW j \in Jobs, NEW i \in Jobs, CleanUp(j, i)
      PROVE  (spent.writes = 0 /\ Unfinished(k) /\ ~expired[k] => k \in Pending)'
  BY <1>0, <1>13 DEF CleanUp, Removable, CallInv, RunnerInv, BootInv,
     NothingForgotten, Pending, NotOverWhileWorking, Stored, Unfinished,
     TypeOK, Calls, Runners, JobFiles, States, Spendings
<1>14. ASSUME NEW j \in Jobs, TakeSlot(j)
      PROVE  (spent.writes = 0 /\ Unfinished(k) /\ ~expired[k] => k \in Pending)'
  BY <1>0, <1>14 DEF TakeSlot, CallInv, RunnerInv, BootInv, NothingForgotten,
     Pending, NotOverWhileWorking, Stored, Unfinished, TypeOK, Calls, Runners,
     JobFiles, States, Spendings
<1>15. ASSUME NEW j \in Jobs, Start(j)
      PROVE  (spent.writes = 0 /\ Unfinished(k) /\ ~expired[k] => k \in Pending)'
  <2>1. /\ disk'[j] # disk[j] => disk'[j].state = "running" /\ disk'[j].files = runner[j].files
        /\ spent'.writes = 0 => disk'[j].state = "running" /\ spent.writes = 0
        /\ \A x \in Jobs \ {j} : disk'[x] = disk[x]
    BY <1>0, <1>15, StartEffect
  <2>2. CASE k = j
    BY <1>0, <1>15, <2>1, <2>2 DEF Start, CallInv, RunnerInv, BootInv,
       NothingForgotten, Pending, NotOverWhileWorking, Stored, Unfinished,
       TypeOK, Calls, Runners, JobFiles, States, Spendings
  <2>3. CASE k # j
    BY <1>0, <1>15, <2>1, <2>3 DEF Start, CallInv, RunnerInv, BootInv,
       NothingForgotten, Pending, NotOverWhileWorking, Stored, Unfinished,
       TypeOK, Calls, Runners, JobFiles, States, Spendings
  <2> QED
    BY <2>2, <2>3
<1>16. ASSUME NEW j \in Jobs, CheckSource(j)
      PROVE  (spent.writes = 0 /\ Unfinished(k) /\ ~expired[k] => k \in Pending)'
  BY <1>0, <1>16 DEF CheckSource, CallInv, RunnerInv, BootInv,
     NothingForgotten, Pending, NotOverWhileWorking, Stored, Unfinished,
     TypeOK, Calls, Runners, JobFiles, States, Spendings
<1>17. ASSUME NEW j \in Jobs, NextClip(j)
      PROVE  (spent.writes = 0 /\ Unfinished(k) /\ ~expired[k] => k \in Pending)'
  <2>1. /\ disk'[j] # disk[j] => disk'[j].state = "running" /\ disk'[j].files = runner[j].files + 1
        /\ spent'.writes = 0 => disk'[j].state = "running" /\ spent.writes = 0
        /\ \A x \in Jobs \ {j} : disk'[x] = disk[x]
    BY <1>0, <1>17, NextClipEffect
  <2>2. CASE k = j
    BY <1>0, <1>17, <2>1, <2>2 DEF NextClip, CallInv, RunnerInv, BootInv,
       NothingForgotten, Pending, NotOverWhileWorking, Stored, Unfinished,
       TypeOK, Calls, Runners, JobFiles, States, Spendings
  <2>3. CASE k # j
    BY <1>0, <1>17, <2>1, <2>3 DEF NextClip, CallInv, RunnerInv, BootInv,
       NothingForgotten, Pending, NotOverWhileWorking, Stored, Unfinished,
       TypeOK, Calls, Runners, JobFiles, States, Spendings
  <2> QED
    BY <2>2, <2>3
<1>18. ASSUME NEW j \in Jobs, Complete(j)
      PROVE  (spent.writes = 0 /\ Unfinished(k) /\ ~expired[k] => k \in Pending)'
  BY <1>0, <1>18, CompleteEffect DEF Complete, CallInv, RunnerInv, BootInv,
     NothingForgotten, Pending, NotOverWhileWorking, Stored, Unfinished,
     TypeOK, Calls, Runners, JobFiles, States, Spendings
<1>19. ASSUME NEW j \in Jobs, Fail(j)
      PROVE  (spent.writes = 0 /\ Unfinished(k) /\ ~expired[k] => k \in Pending)'
  BY <1>0, <1>19, FailEffect DEF Fail, CallInv, RunnerInv, BootInv,
     NothingForgotten, Pending, NotOverWhileWorking, Stored, Unfinished,
     TypeOK, Calls, Runners, JobFiles, States, Spendings
<1>20. ASSUME NEW j \in Jobs, LeaveSlot(j)
      PROVE  (spent.writes = 0 /\ Unfinished(k) /\ ~expired[k] => k \in Pending)'
  BY <1>0, <1>20 DEF LeaveSlot, CallInv, RunnerInv, BootInv, NothingForgotten,
     Pending, NotOverWhileWorking, Stored, Unfinished, TypeOK, Calls, Runners,
     JobFiles, States, Spendings
<1>21. ASSUME NEW j \in Jobs, Unregister(j)
      PROVE  (spent.writes = 0 /\ Unfinished(k) /\ ~expired[k] => k \in Pending)'
  BY <1>0, <1>21 DEF Unregister, NoRunner, CallInv, RunnerInv, BootInv,
     NothingForgotten, Pending, NotOverWhileWorking, Stored, Unfinished,
     TypeOK, Calls, Runners, JobFiles, States, Spendings
<1>22. ASSUME NEW j \in Jobs, ReadJob(j)
      PROVE  (spent.writes = 0 /\ Unfinished(k) /\ ~expired[k] => k \in Pending)'
  <2>1. /\ disk'[j].state \in {disk[j].state, "failed"}
        /\ disk'[j].files = disk[j].files
        /\ spent'.writes = 0 => disk'[j].state = "failed" /\ spent.writes = 0
        /\ \A x \in Jobs \ {j} : disk'[x] = disk[x]
    BY <1>0, <1>22, ReadJobEffect
  <2>2. CASE k = j
    BY <1>0, <1>22, <2>1, <2>2 DEF ReadJob, CallInv, RunnerInv, BootInv,
       NothingForgotten, Pending, NotOverWhileWorking, Stored, Unfinished,
       TypeOK, Calls, Runners, JobFiles, States, Spendings
  <2>3. CASE k # j
    BY <1>0, <1>22, <2>1, <2>3 DEF ReadJob, CallInv, RunnerInv, BootInv,
       NothingForgotten, Pending, NotOverWhileWorking, Stored, Unfinished,
       TypeOK, Calls, Runners, JobFiles, States, Spendings
  <2> QED
    BY <2>2, <2>3
<1>23. ASSUME NEW j \in Jobs, Expire(j)
      PROVE  (spent.writes = 0 /\ Unfinished(k) /\ ~expired[k] => k \in Pending)'
  BY <1>0, <1>23 DEF Expire, CallInv, RunnerInv, BootInv, NothingForgotten,
     Pending, NotOverWhileWorking, Stored, Unfinished, TypeOK, Calls, Runners,
     JobFiles, States, Spendings
<1>24. ASSUME NEW j \in Jobs, RecordingChanges(j)
      PROVE  (spent.writes = 0 /\ Unfinished(k) /\ ~expired[k] => k \in Pending)'
  BY <1>0, <1>24 DEF RecordingChanges, CallInv, RunnerInv, BootInv,
     NothingForgotten, Pending, NotOverWhileWorking, Stored, Unfinished,
     TypeOK, Calls, Runners, JobFiles, States, Spendings
<1>25. CASE UNCHANGED vars
  BY <1>0, <1>25 DEF vars, CallInv, RunnerInv, BootInv, NothingForgotten,
     Pending, NotOverWhileWorking, Stored, Unfinished, TypeOK, Calls, Runners,
     JobFiles, States, Spendings
<1> QED
  BY <1>1, <1>2, <1>3, <1>4, <1>5, <1>6, <1>7, <1>8, <1>9, <1>10, <1>11,
     <1>12, <1>13, <1>14, <1>15, <1>16, <1>17, <1>18, <1>19, <1>20, <1>21,
     <1>22, <1>23, <1>24, <1>25 DEF Next, BootStep, CallStep, RunnerStep

(* What is pending grows by a request only.                                *)
LEMMA PendingShrinks ==
    ASSUME IInv, [Next]_vars, NEW k \in Jobs
    PROVE  \/ (spent.writes = 0 /\ k \in Pending)' => spent.writes = 0 /\ k \in Pending
           \/ \E x \in Jobs : Submit(x)
<1> USE DEF files
<1>0. TypeOK /\ BootInv /\ NothingForgotten /\ \A x \in Jobs : CallInv(x) /\ RunnerInv(x)
  BY NewsAssumption DEF IInv
<1>1. CASE Restart
  BY <1>0, <1>1 DEF Restart, NoCall, NoRunner, CallInv, RunnerInv, BootInv,
     NothingForgotten, Pending, Stored, Unfinished, TypeOK, Calls, Runners,
     JobFiles, States, Spendings
<1>2. CASE Serve
  BY <1>0, <1>2 DEF Serve, CallInv, RunnerInv, BootInv, NothingForgotten,
     Pending, Stored, Unfinished, TypeOK, Calls, Runners, JobFiles, States,
     Spendings
<1>3. ASSUME NEW j \in Jobs, SkipJob(j)
      PROVE  \/ (spent.writes = 0 /\ k \in Pending)' => spent.writes = 0 /\ k \in Pending
           \/ \E x \in Jobs : Submit(x)
  BY <1>0, <1>3 DEF SkipJob, CallInv, RunnerInv, BootInv, NothingForgotten,
     Pending, Stored, Unfinished, TypeOK, Calls, Runners, JobFiles, States,
     Spendings
<1>4. ASSUME NEW j \in Jobs, RecoverFails(j)
      PROVE  \/ (spent.writes = 0 /\ k \in Pending)' => spent.writes = 0 /\ k \in Pending
           \/ \E x \in Jobs : Submit(x)
  BY <1>0, <1>4, RecoverFailsEffect DEF RecoverFails, CallInv, RunnerInv,
     BootInv, NothingForgotten, Pending, Stored, Unfinished, TypeOK, Calls,
     Runners, JobFiles, States, Spendings
<1>5. ASSUME NEW j \in Jobs, Recover(j)
      PROVE  \/ (spent.writes = 0 /\ k \in Pending)' => spent.writes = 0 /\ k \in Pending
           \/ \E x \in Jobs : Submit(x)
  <2>1. /\ active' = active \cup {j} /\ expired' = expired /\ todo' = todo \ {j}
        /\ j \in Pending
    BY <1>5 DEF Recover, Pending
  <2>2. /\ spent'.writes = 0 => spent.writes = 0
        /\ \A x \in Jobs \ {j} : disk'[x] = disk[x]
    BY <1>0, <1>5, RecoverEffect
  <2>3. k \in Pending' => k \in Pending
    BY <2>1, <2>2 DEF Pending, Unfinished
  <2> QED
    BY <2>2, <2>3
<1>6. ASSUME NEW j \in Jobs, Submit(j)
      PROVE  \/ (spent.writes = 0 /\ k \in Pending)' => spent.writes = 0 /\ k \in Pending
           \/ \E x \in Jobs : Submit(x)
  BY <1>6
<1>7. ASSUME NEW j \in Jobs, CleanedUp(j)
      PROVE  \/ (spent.writes = 0 /\ k \in Pending)' => spent.writes = 0 /\ k \in Pending
           \/ \E x \in Jobs : Submit(x)
  BY <1>0, <1>7 DEF CleanedUp, CallInv, RunnerInv, BootInv, NothingForgotten,
     Pending, Stored, Unfinished, TypeOK, Calls, Runners, JobFiles, States,
     Spendings
<1>8. ASSUME NEW j \in Jobs, RemoveAll(j)
      PROVE  \/ (spent.writes = 0 /\ k \in Pending)' => spent.writes = 0 /\ k \in Pending
           \/ \E x \in Jobs : Submit(x)
  BY <1>0, <1>8 DEF RemoveAll, NoJob, CallInv, RunnerInv, BootInv,
     NothingForgotten, Pending, Stored, Unfinished, TypeOK, Calls, Runners,
     JobFiles, States, Spendings
<1>9. ASSUME NEW j \in Jobs, Refuse(j)
      PROVE  \/ (spent.writes = 0 /\ k \in Pending)' => spent.writes = 0 /\ k \in Pending
           \/ \E x \in Jobs : Submit(x)
  BY <1>0, <1>9 DEF Refuse, GiveUp, NoCall, CallInv, RunnerInv, BootInv,
     NothingForgotten, Pending, Stored, Unfinished, TypeOK, Calls, Runners,
     JobFiles, States, Spendings
<1>10. ASSUME NEW j \in Jobs, SaveRecovery(j)
      PROVE  \/ (spent.writes = 0 /\ k \in Pending)' => spent.writes = 0 /\ k \in Pending
           \/ \E x \in Jobs : Submit(x)
  BY <1>0, <1>10 DEF SaveRecovery, CallInv, RunnerInv, BootInv,
     NothingForgotten, Pending, Stored, Unfinished, TypeOK, Calls, Runners,
     JobFiles, States, Spendings
<1>11. ASSUME NEW j \in Jobs, Accept(j)
      PROVE  \/ (spent.writes = 0 /\ k \in Pending)' => spent.writes = 0 /\ k \in Pending
           \/ \E x \in Jobs : Submit(x)
  BY <1>0, <1>11 DEF Accept, NewRunner, NoRunner, NoCall, CallInv, RunnerInv,
     BootInv, NothingForgotten, Pending, Stored, Unfinished, TypeOK, Calls,
     Runners, JobFiles, States, Spendings
<1>12. ASSUME NEW j \in Jobs, RefuseUnwritten(j)
      PROVE  \/ (spent.writes = 0 /\ k \in Pending)' => spent.writes = 0 /\ k \in Pending
           \/ \E x \in Jobs : Submit(x)
  BY <1>0, <1>12 DEF RefuseUnwritten, GiveUp, NoCall, WriteFails, CallInv,
     RunnerInv, BootInv, NothingForgotten, Pending, Stored, Unfinished,
     TypeOK, Calls, Runners, JobFiles, States, Spendings
<1>13. ASSUME NEW j \in Jobs, NEW i \in Jobs, CleanUp(j, i)
      PROVE  \/ (spent.writes = 0 /\ k \in Pending)' => spent.writes = 0 /\ k \in Pending
           \/ \E x \in Jobs : Submit(x)
  BY <1>0, <1>13 DEF CleanUp, Removable, CallInv, RunnerInv, BootInv,
     NothingForgotten, Pending, Stored, Unfinished, TypeOK, Calls, Runners,
     JobFiles, States, Spendings
<1>14. ASSUME NEW j \in Jobs, TakeSlot(j)
      PROVE  \/ (spent.writes = 0 /\ k \in Pending)' => spent.writes = 0 /\ k \in Pending
           \/ \E x \in Jobs : Submit(x)
  BY <1>0, <1>14 DEF TakeSlot, CallInv, RunnerInv, BootInv, NothingForgotten,
     Pending, Stored, Unfinished, TypeOK, Calls, Runners, JobFiles, States,
     Spendings
<1>15. ASSUME NEW j \in Jobs, Start(j)
      PROVE  \/ (spent.writes = 0 /\ k \in Pending)' => spent.writes = 0 /\ k \in Pending
           \/ \E x \in Jobs : Submit(x)
  <2>1. /\ disk'[j] # disk[j] => disk'[j].state = "running" /\ disk'[j].files = runner[j].files
        /\ spent'.writes = 0 => disk'[j].state = "running" /\ spent.writes = 0
        /\ \A x \in Jobs \ {j} : disk'[x] = disk[x]
    BY <1>0, <1>15, StartEffect
  <2>2. CASE k = j
    BY <1>0, <1>15, <2>1, <2>2 DEF Start, CallInv, RunnerInv, BootInv,
       NothingForgotten, Pending, Stored, Unfinished, TypeOK, Calls, Runners,
       JobFiles, States, Spendings
  <2>3. CASE k # j
    BY <1>0, <1>15, <2>1, <2>3 DEF Start, CallInv, RunnerInv, BootInv,
       NothingForgotten, Pending, Stored, Unfinished, TypeOK, Calls, Runners,
       JobFiles, States, Spendings
  <2> QED
    BY <2>2, <2>3
<1>16. ASSUME NEW j \in Jobs, CheckSource(j)
      PROVE  \/ (spent.writes = 0 /\ k \in Pending)' => spent.writes = 0 /\ k \in Pending
           \/ \E x \in Jobs : Submit(x)
  BY <1>0, <1>16 DEF CheckSource, CallInv, RunnerInv, BootInv,
     NothingForgotten, Pending, Stored, Unfinished, TypeOK, Calls, Runners,
     JobFiles, States, Spendings
<1>17. ASSUME NEW j \in Jobs, NextClip(j)
      PROVE  \/ (spent.writes = 0 /\ k \in Pending)' => spent.writes = 0 /\ k \in Pending
           \/ \E x \in Jobs : Submit(x)
  <2>1. /\ disk'[j] # disk[j] => disk'[j].state = "running" /\ disk'[j].files = runner[j].files + 1
        /\ spent'.writes = 0 => disk'[j].state = "running" /\ spent.writes = 0
        /\ \A x \in Jobs \ {j} : disk'[x] = disk[x]
    BY <1>0, <1>17, NextClipEffect
  <2>2. CASE k = j
    BY <1>0, <1>17, <2>1, <2>2 DEF NextClip, CallInv, RunnerInv, BootInv,
       NothingForgotten, Pending, Stored, Unfinished, TypeOK, Calls, Runners,
       JobFiles, States, Spendings
  <2>3. CASE k # j
    BY <1>0, <1>17, <2>1, <2>3 DEF NextClip, CallInv, RunnerInv, BootInv,
       NothingForgotten, Pending, Stored, Unfinished, TypeOK, Calls, Runners,
       JobFiles, States, Spendings
  <2> QED
    BY <2>2, <2>3
<1>18. ASSUME NEW j \in Jobs, Complete(j)
      PROVE  \/ (spent.writes = 0 /\ k \in Pending)' => spent.writes = 0 /\ k \in Pending
           \/ \E x \in Jobs : Submit(x)
  BY <1>0, <1>18, CompleteEffect DEF Complete, CallInv, RunnerInv, BootInv,
     NothingForgotten, Pending, Stored, Unfinished, TypeOK, Calls, Runners,
     JobFiles, States, Spendings
<1>19. ASSUME NEW j \in Jobs, Fail(j)
      PROVE  \/ (spent.writes = 0 /\ k \in Pending)' => spent.writes = 0 /\ k \in Pending
           \/ \E x \in Jobs : Submit(x)
  BY <1>0, <1>19, FailEffect DEF Fail, CallInv, RunnerInv, BootInv,
     NothingForgotten, Pending, Stored, Unfinished, TypeOK, Calls, Runners,
     JobFiles, States, Spendings
<1>20. ASSUME NEW j \in Jobs, LeaveSlot(j)
      PROVE  \/ (spent.writes = 0 /\ k \in Pending)' => spent.writes = 0 /\ k \in Pending
           \/ \E x \in Jobs : Submit(x)
  BY <1>0, <1>20 DEF LeaveSlot, CallInv, RunnerInv, BootInv, NothingForgotten,
     Pending, Stored, Unfinished, TypeOK, Calls, Runners, JobFiles, States,
     Spendings
<1>21. ASSUME NEW j \in Jobs, Unregister(j)
      PROVE  \/ (spent.writes = 0 /\ k \in Pending)' => spent.writes = 0 /\ k \in Pending
           \/ \E x \in Jobs : Submit(x)
  BY <1>0, <1>21 DEF Unregister, NoRunner, CallInv, RunnerInv, BootInv,
     NothingForgotten, Pending, Stored, Unfinished, TypeOK, Calls, Runners,
     JobFiles, States, Spendings
<1>22. ASSUME NEW j \in Jobs, ReadJob(j)
      PROVE  \/ (spent.writes = 0 /\ k \in Pending)' => spent.writes = 0 /\ k \in Pending
           \/ \E x \in Jobs : Submit(x)
  BY <1>0, <1>22, ReadJobEffect DEF ReadJob, CallInv, RunnerInv, BootInv,
     NothingForgotten, Pending, Stored, Unfinished, TypeOK, Calls, Runners,
     JobFiles, States, Spendings
<1>23. ASSUME NEW j \in Jobs, Expire(j)
      PROVE  \/ (spent.writes = 0 /\ k \in Pending)' => spent.writes = 0 /\ k \in Pending
           \/ \E x \in Jobs : Submit(x)
  BY <1>0, <1>23 DEF Expire, CallInv, RunnerInv, BootInv, NothingForgotten,
     Pending, Stored, Unfinished, TypeOK, Calls, Runners, JobFiles, States,
     Spendings
<1>24. ASSUME NEW j \in Jobs, RecordingChanges(j)
      PROVE  \/ (spent.writes = 0 /\ k \in Pending)' => spent.writes = 0 /\ k \in Pending
           \/ \E x \in Jobs : Submit(x)
  BY <1>0, <1>24 DEF RecordingChanges, CallInv, RunnerInv, BootInv,
     NothingForgotten, Pending, Stored, Unfinished, TypeOK, Calls, Runners,
     JobFiles, States, Spendings
<1>25. CASE UNCHANGED vars
  BY <1>0, <1>25 DEF vars, CallInv, RunnerInv, BootInv, NothingForgotten,
     Pending, Stored, Unfinished, TypeOK, Calls, Runners, JobFiles, States,
     Spendings
<1> QED
  BY <1>1, <1>2, <1>3, <1>4, <1>5, <1>6, <1>7, <1>8, <1>9, <1>10, <1>11,
     <1>12, <1>13, <1>14, <1>15, <1>16, <1>17, <1>18, <1>19, <1>20, <1>21,
     <1>22, <1>23, <1>24, <1>25 DEF Next, BootStep, CallStep, RunnerStep


(* The limits.                                                             *)
LEMMA SlotsStep ==
    ASSUME IInv, [Next]_vars
    PROVE  slots' \subseteq slots \/ \E x \in Jobs : TakeSlot(x)
<1>1. CASE UNCHANGED vars
  BY <1>1 DEF vars
<1>2. CASE Restart
  BY <1>2 DEF Restart
<1>3. CASE BootStep
  BY <1>3 DEF BootStep, Serve, SkipJob, RecoverFails, Recover
<1>4. ASSUME NEW j \in Jobs, CallStep(j)
      PROVE  slots' = slots
  BY <1>4 DEF CallStep, CleanedUp, RemoveAll, Refuse, SaveRecovery, Accept,
     RefuseUnwritten, CleanUp
<1>5. ASSUME NEW j \in Jobs, RunnerStep(j)
      PROVE  slots' \subseteq slots
  BY <1>5 DEF RunnerStep, Start, CheckSource, NextClip, Complete, Fail, LeaveSlot, Unregister
<1>6. ASSUME NEW j \in Jobs, Submit(j) \/ ReadJob(j) \/ Expire(j) \/ RecordingChanges(j)
      PROVE  slots' = slots
  BY <1>6 DEF Submit, ReadJob, Expire, RecordingChanges
<1> QED
  BY <1>1, <1>2, <1>3, <1>4, <1>5, <1>6 DEF Next

LEMMA ActiveStep ==
    ASSUME IInv, [Next]_vars
    PROVE  \/ active' \subseteq active
           \/ \E x \in Jobs : Cardinality(active) < MaxActive /\ active' = active \cup {x}
<1>1. CASE UNCHANGED vars
  BY <1>1 DEF vars
<1>2. CASE Restart
  BY <1>2 DEF Restart
<1>3. CASE Serve
  BY <1>3 DEF Serve
<1>4. ASSUME NEW j \in Jobs, SkipJob(j) \/ RecoverFails(j)
      PROVE  active' = active
  BY <1>4 DEF SkipJob, RecoverFails
<1>5. ASSUME NEW j \in Jobs, Recover(j) \/ Submit(j)
      PROVE  Cardinality(active) < MaxActive /\ active' = active \cup {j}
  BY <1>5 DEF Recover, Submit
<1>6. ASSUME NEW j \in Jobs, CallStep(j)
      PROVE  active' \subseteq active
  BY <1>6 DEF CallStep, CleanedUp, RemoveAll, Refuse, SaveRecovery, Accept,
     RefuseUnwritten, CleanUp, GiveUp
<1>7. ASSUME NEW j \in Jobs, RunnerStep(j)
      PROVE  active' \subseteq active
  BY <1>7 DEF RunnerStep, Start, CheckSource, NextClip, Complete, Fail, LeaveSlot, Unregister
<1>8. ASSUME NEW j \in Jobs, TakeSlot(j) \/ ReadJob(j) \/ Expire(j) \/ RecordingChanges(j)
      PROVE  active' = active
  BY <1>8 DEF TakeSlot, ReadJob, Expire, RecordingChanges
<1> QED
  BY <1>1, <1>2, <1>3, <1>4, <1>5, <1>6, <1>7, <1>8 DEF Next, BootStep

LEMMA BoundedStep ==
    ASSUME IInv, [Next]_vars
    PROVE  PendingIsBounded'
<1>0. TypeOK /\ TypeOK' /\ BootInv /\ PendingIsBounded
  BY TypeStep DEF IInv
<1>1. \A S \in SUBSET Jobs : /\ IsFiniteSet(S) /\ Cardinality(S) \in Nat
                             /\ \A T \in SUBSET S : Cardinality(T) <= Cardinality(S)
                             /\ \A x \in Jobs : Cardinality(S \cup {x}) <= Cardinality(S) + 1
  <2> TAKE S \in SUBSET Jobs
  <2>1. IsFiniteSet(S) /\ Cardinality(S) \in Nat
    BY NewsAssumption, FS_Subset, FS_CardinalityType
  <2>2. \A T \in SUBSET S : Cardinality(T) <= Cardinality(S)
    BY <2>1, FS_Subset
  <2>3. ASSUME NEW x \in Jobs
        PROVE  Cardinality(S \cup {x}) <= Cardinality(S) + 1
    <3>1. Cardinality(S \cup {x}) = IF x \in S THEN Cardinality(S) ELSE Cardinality(S) + 1
      BY <2>1, FS_AddElement
    <3> QED
      BY <2>1, <3>1
  <2> QED
    BY <2>1, <2>2, <2>3
<1>2. /\ slots \in SUBSET Jobs /\ active \in SUBSET Jobs /\ Pending \in SUBSET Jobs
      /\ slots' \in SUBSET Jobs /\ active' \in SUBSET Jobs /\ Pending' \in SUBSET Jobs
      /\ MaxActive \in Nat /\ Slots \in Nat
  BY <1>0, NewsAssumption DEF TypeOK, Pending
<1>3. Cardinality(slots') <= Slots
  <2>1. CASE slots' \subseteq slots
    BY <1>0, <1>1, <1>2, <2>1 DEF PendingIsBounded
  <2>2. ASSUME NEW x \in Jobs, TakeSlot(x)
        PROVE  Cardinality(slots') <= Slots
    BY <1>1, <1>2, <2>2 DEF TakeSlot
  <2> QED
    BY <2>1, <2>2, SlotsStep
<1>4. Cardinality(active') <= MaxActive
  <2>1. CASE active' \subseteq active
    BY <1>0, <1>1, <1>2, <2>1 DEF PendingIsBounded
  <2>2. ASSUME NEW x \in Jobs, Cardinality(active) < MaxActive, active' = active \cup {x}
        PROVE  Cardinality(active') <= MaxActive
    BY <1>1, <1>2, <2>2
  <2> QED
    BY <2>1, <2>2, ActiveStep
<1>5. ASSUME spent'.writes = 0
      PROVE  /\ Cardinality(Pending') <= MaxActive
             /\ \A i, j \in Pending' : owner[i] = owner[j] => i = j
  <2>1. ASSUME NEW x \in Jobs, Submit(x)
        PROVE  <1>5!2
    <3>1. Pending = active /\ Pending' = active \cup {x} /\ spent.writes = 0
      BY <1>0, <1>5, <2>1 DEF Submit, BootInv, Pending
    <3>2. Cardinality(Pending') <= MaxActive
      BY <1>1, <1>2, <2>1, <3>1 DEF Submit
    <3>3. \A i \in active : owner[i] # owner[x]
      BY <2>1 DEF Submit
    <3>4. \A i, j \in active : owner[i] = owner[j] => i = j
      BY <1>0, <3>1 DEF PendingIsBounded
    <3> QED
      BY <3>1, <3>2, <3>3, <3>4
  <2>2. CASE ~ \E x \in Jobs : Submit(x)
    <3>1. Pending' \subseteq Pending
      BY <1>2, <1>5, <2>2, PendingShrinks
    <3>2. CASE Pending' = {}
      BY <1>2, <3>2, FS_EmptySet
    <3>3. CASE Pending' # {}
      <4>1. spent.writes = 0
        BY <1>2, <1>5, <2>2, <3>3, PendingShrinks
      <4> QED
        BY <1>0, <1>1, <1>2, <3>1, <4>1 DEF PendingIsBounded
    <3> QED
      BY <3>2, <3>3
  <2> QED
    BY <2>1, <2>2
<1> QED
  BY <1>3, <1>4, <1>5 DEF PendingIsBounded

-----------------------------------------------------------------------------
(* The invariant.                                                          *)
LEMMA InvInit == Init => IInv
<1> SUFFICES ASSUME Init
             PROVE  IInv
  OBVIOUS
<1>1. TypeOK
  BY ConstantTypes DEF Init, TypeOK, Spendings
<1>2. \A j \in Jobs : CallInv(j) /\ RunnerInv(j)
  BY NewsAssumption DEF Init, CallInv, RunnerInv, NoCall, NoRunner, Working
<1>3. \A j \in Jobs : ~Unfinished(j) /\ disk[j].state = "none" /\ runner[j].at = "none"
  BY DEF Init, Unfinished, NoJob, NoRunner
<1>4. Pending = {} /\ slots = {} /\ active = {}
  BY DEF Init, Pending
<1>5. PendingIsBounded
  BY <1>4, FS_EmptySet, NewsAssumption DEF PendingIsBounded
<1> QED
  BY <1>1, <1>2, <1>3, <1>5
     DEF Init, IInv, BootInv, Recorded, NothingForgotten, NotOverWhileWorking,
         CompletedIsWhole

LEMMA InvStep == IInv /\ [Next]_vars => IInv'
<1> SUFFICES ASSUME IInv, [Next]_vars
             PROVE  IInv'
  OBVIOUS
<1>1. TypeOK'
  BY TypeStep DEF IInv
<1>2. \A k \in Jobs : CallInv(k)' /\ RunnerInv(k)'
  BY CallStepInv, RunnerStepInv
<1>3. Recorded' /\ NotOverWhileWorking' /\ CompletedIsWhole'
  BY RecordedStep, WorkingStep, WholeStep
     DEF Recorded, NotOverWhileWorking, CompletedIsWhole
<1>4. NothingForgotten'
  BY ForgottenStep DEF NothingForgotten
<1>5. BootInv'
  BY BootStepInv
<1> QED
  BY <1>1, <1>2, <1>3, <1>4, <1>5, BoundedStep DEF IInv

(* Outcomes.                                                               *)
LEMMA FinalStep ==
    ASSUME IInv, [Next]_vars, NEW k \in Jobs
    PROVE  disk[k].state \in {"completed", "failed"} /\ disk'[k] # disk[k]
             => expired[k] /\ disk'[k] = NoJob
<1> USE DEF files
<1>0. TypeOK /\ NotOverWhileWorking /\ \A x \in Jobs : CallInv(x) /\ RunnerInv(x)
  BY NewsAssumption DEF IInv
<1>1. ASSUME NEW j \in Jobs, RecoverFails(j)
      PROVE  disk[k].state \in {"completed", "failed"} /\ disk'[k] # disk[k]
             => expired[k] /\ disk'[k] = NoJob
  BY <1>0, <1>1, RecoverFailsEffect DEF RecoverFails, CallInv,
     NotOverWhileWorking, Stored, Unfinished, TypeOK
<1>2. ASSUME NEW j \in Jobs, Recover(j)
      PROVE  disk[k].state \in {"completed", "failed"} /\ disk'[k] # disk[k]
             => expired[k] /\ disk'[k] = NoJob
  BY <1>0, <1>2, RecoverEffect DEF Recover, NewRunner, NoRunner, CallInv,
     NotOverWhileWorking, Stored, Unfinished, TypeOK
<1>3. ASSUME NEW j \in Jobs, RemoveAll(j)
      PROVE  disk[k].state \in {"completed", "failed"} /\ disk'[k] # disk[k]
             => expired[k] /\ disk'[k] = NoJob
  BY <1>0, <1>3 DEF RemoveAll, NoJob, CallInv, NotOverWhileWorking, Stored,
     Unfinished, TypeOK
<1>4. ASSUME NEW j \in Jobs, SaveRecovery(j)
      PROVE  disk[k].state \in {"completed", "failed"} /\ disk'[k] # disk[k]
             => expired[k] /\ disk'[k] = NoJob
  BY <1>0, <1>4 DEF SaveRecovery, CallInv, NotOverWhileWorking, Stored,
     Unfinished, TypeOK
<1>5. ASSUME NEW j \in Jobs, Accept(j)
      PROVE  disk[k].state \in {"completed", "failed"} /\ disk'[k] # disk[k]
             => expired[k] /\ disk'[k] = NoJob
  BY <1>0, <1>5 DEF Accept, NewRunner, NoRunner, NoCall, CallInv,
     NotOverWhileWorking, Stored, Unfinished, TypeOK
<1>6. ASSUME NEW j \in Jobs, Start(j)
      PROVE  disk[k].state \in {"completed", "failed"} /\ disk'[k] # disk[k]
             => expired[k] /\ disk'[k] = NoJob
  BY <1>0, <1>6, StartEffect DEF Start, CallInv, NotOverWhileWorking, Stored,
     Unfinished, TypeOK
<1>7. ASSUME NEW j \in Jobs, NextClip(j)
      PROVE  disk[k].state \in {"completed", "failed"} /\ disk'[k] # disk[k]
             => expired[k] /\ disk'[k] = NoJob
  BY <1>0, <1>7, NextClipEffect DEF NextClip, CallInv, NotOverWhileWorking,
     Stored, Unfinished, TypeOK
<1>8. ASSUME NEW j \in Jobs, Complete(j)
      PROVE  disk[k].state \in {"completed", "failed"} /\ disk'[k] # disk[k]
             => expired[k] /\ disk'[k] = NoJob
  BY <1>0, <1>8, CompleteEffect DEF Complete, CallInv, NotOverWhileWorking,
     Stored, Unfinished, TypeOK
<1>9. ASSUME NEW j \in Jobs, Fail(j)
      PROVE  disk[k].state \in {"completed", "failed"} /\ disk'[k] # disk[k]
             => expired[k] /\ disk'[k] = NoJob
  BY <1>0, <1>9, FailEffect DEF Fail, CallInv, NotOverWhileWorking, Stored,
     Unfinished, TypeOK
<1>10. ASSUME NEW j \in Jobs, ReadJob(j)
      PROVE  disk[k].state \in {"completed", "failed"} /\ disk'[k] # disk[k]
             => expired[k] /\ disk'[k] = NoJob
  BY <1>0, <1>10, ReadJobEffect DEF ReadJob, CallInv, NotOverWhileWorking,
     Stored, Unfinished, TypeOK
<1>11. CASE UNCHANGED <<disk, recovery>>
  BY <1>0, <1>11 DEF CallInv, NotOverWhileWorking, Stored, Unfinished, TypeOK
<1> QED
  BY <1>1, <1>2, <1>3, <1>4, <1>5, <1>6, <1>7, <1>8, <1>9, <1>10, <1>11,
     DiskStep

(* Who fails a job.                                                        *)
LEMMA LosesNothingStep ==
    ASSUME IInv, [Next]_vars, NEW k \in Jobs
    PROVE  Unfinished(k) /\ disk'[k].state = "failed" =>
             \/ runner[k].at \in {"opened", "working"}
             \/ changed[k] \/ expired[k] \/ spent.writes > 0
<1> USE DEF files
<1>0. TypeOK /\ Recorded /\ BootInv /\ NothingForgotten /\ PendingIsBounded /\ \A x \in Jobs : CallInv(x) /\ RunnerInv(x)
  BY NewsAssumption DEF IInv
<1>1. ASSUME NEW j \in Jobs, RecoverFails(j)
      PROVE  Unfinished(k) /\ disk'[k].state = "failed" =>
             \/ runner[k].at \in {"opened", "working"}
             \/ changed[k] \/ expired[k] \/ spent.writes > 0
  <2>2. CASE k # j
    BY <1>0, <1>1, <2>2, RecoverFailsEffect DEF Unfinished
  <2>3. CASE k = j
    <3>1. SUFFICES ASSUME ~changed[k], spent.writes = 0
                   PROVE  FALSE
      BY <1>0 DEF TypeOK, Spendings
    <3>2. Cardinality(active) >= MaxActive
      BY <1>0, <1>1, <2>3, <3>1 DEF RecoverFails, Recoverable, Recorded
    <3>3. k \notin active /\ active \cup {k} \subseteq Pending
      BY <1>0, <1>1, <2>3 DEF RecoverFails, BootInv, Pending
    <3>4. IsFiniteSet(Pending) /\ IsFiniteSet(active)
      BY <1>0, NewsAssumption, FS_Subset DEF TypeOK, Pending
    <3>5. Cardinality(active \cup {k}) = Cardinality(active) + 1
      BY <3>3, <3>4, FS_AddElement
    <3>6. /\ Cardinality(active \cup {k}) <= Cardinality(Pending)
          /\ Cardinality(Pending) \in Nat /\ Cardinality(active) \in Nat
      BY <3>3, <3>4, FS_Subset, FS_CardinalityType
    <3> QED
      BY <1>0, <3>1, <3>2, <3>5, <3>6, NewsAssumption DEF PendingIsBounded
  <2> QED
    BY <2>2, <2>3
<1>2. ASSUME NEW j \in Jobs, Recover(j)
      PROVE  Unfinished(k) /\ disk'[k].state = "failed" =>
             \/ runner[k].at \in {"opened", "working"}
             \/ changed[k] \/ expired[k] \/ spent.writes > 0
  BY <1>0, <1>2, RecoverEffect DEF Recover, NewRunner, NoRunner, CallInv,
     RunnerInv, BootInv, Stored, Unfinished, TypeOK
<1>3. ASSUME NEW j \in Jobs, RemoveAll(j)
      PROVE  Unfinished(k) /\ disk'[k].state = "failed" =>
             \/ runner[k].at \in {"opened", "working"}
             \/ changed[k] \/ expired[k] \/ spent.writes > 0
  BY <1>0, <1>3 DEF RemoveAll, NoJob, CallInv, RunnerInv, BootInv, Stored,
     Unfinished, TypeOK
<1>4. ASSUME NEW j \in Jobs, SaveRecovery(j)
      PROVE  Unfinished(k) /\ disk'[k].state = "failed" =>
             \/ runner[k].at \in {"opened", "working"}
             \/ changed[k] \/ expired[k] \/ spent.writes > 0
  BY <1>0, <1>4 DEF SaveRecovery, CallInv, RunnerInv, BootInv, Stored,
     Unfinished, TypeOK
<1>5. ASSUME NEW j \in Jobs, Accept(j)
      PROVE  Unfinished(k) /\ disk'[k].state = "failed" =>
             \/ runner[k].at \in {"opened", "working"}
             \/ changed[k] \/ expired[k] \/ spent.writes > 0
  BY <1>0, <1>5 DEF Accept, NewRunner, NoRunner, NoCall, CallInv, RunnerInv,
     BootInv, Stored, Unfinished, TypeOK
<1>6. ASSUME NEW j \in Jobs, Start(j)
      PROVE  Unfinished(k) /\ disk'[k].state = "failed" =>
             \/ runner[k].at \in {"opened", "working"}
             \/ changed[k] \/ expired[k] \/ spent.writes > 0
  BY <1>0, <1>6, StartEffect DEF Start, CallInv, RunnerInv, BootInv, Stored,
     Unfinished, TypeOK
<1>7. ASSUME NEW j \in Jobs, NextClip(j)
      PROVE  Unfinished(k) /\ disk'[k].state = "failed" =>
             \/ runner[k].at \in {"opened", "working"}
             \/ changed[k] \/ expired[k] \/ spent.writes > 0
  BY <1>0, <1>7, NextClipEffect DEF NextClip, CallInv, RunnerInv, BootInv,
     Stored, Unfinished, TypeOK
<1>8. ASSUME NEW j \in Jobs, Complete(j)
      PROVE  Unfinished(k) /\ disk'[k].state = "failed" =>
             \/ runner[k].at \in {"opened", "working"}
             \/ changed[k] \/ expired[k] \/ spent.writes > 0
  BY <1>0, <1>8, CompleteEffect DEF Complete, CallInv, RunnerInv, BootInv,
     Stored, Unfinished, TypeOK
<1>9. ASSUME NEW j \in Jobs, Fail(j)
      PROVE  Unfinished(k) /\ disk'[k].state = "failed" =>
             \/ runner[k].at \in {"opened", "working"}
             \/ changed[k] \/ expired[k] \/ spent.writes > 0
  BY <1>0, <1>9, FailEffect DEF Fail, CallInv, RunnerInv, BootInv, Stored,
     Unfinished, TypeOK
<1>10. ASSUME NEW j \in Jobs, ReadJob(j)
      PROVE  Unfinished(k) /\ disk'[k].state = "failed" =>
             \/ runner[k].at \in {"opened", "working"}
             \/ changed[k] \/ expired[k] \/ spent.writes > 0
  <2>2. CASE k # j
    BY <1>0, <1>10, <2>2, ReadJobEffect DEF Unfinished
  <2>3. CASE k = j
    BY <1>0, <1>10, <2>3 DEF ReadJob, BootInv, NothingForgotten, Pending, TypeOK, Spendings
  <2> QED
    BY <2>2, <2>3
<1>11. CASE UNCHANGED <<disk, recovery>>
  BY <1>0, <1>11 DEF CallInv, RunnerInv, BootInv, Stored, Unfinished, TypeOK
<1> QED
  BY <1>1, <1>2, <1>3, <1>4, <1>5, <1>6, <1>7, <1>8, <1>9, <1>10, <1>11,
     DiskStep

-----------------------------------------------------------------------------
(* The theorems.                                                           *)

(* The inductive invariant of the news jobs: what a request, a runner, the *)
(* boot and the disk know of each other (createNewsJob, runNewsJob,        *)
(* recoverNewsJobs).                                                       *)
THEOREM NewsInvariant == Spec => []IInv
<1>1. Init => IInv
  BY InvInit
<1>2. IInv /\ [Next]_vars => IInv'
  BY InvStep
<1> QED
  BY <1>1, <1>2, PTL DEF Spec

(* Requests, runners and recovery leave every variable in its type: no     *)
(* state.json ever says anything but the four states of newsJob.           *)
THEOREM NewsTypeCorrect == Spec => []TypeOK
<1>1. IInv => TypeOK
  BY DEF IInv
<1> QED
  BY <1>1, NewsInvariant, PTL

(* The limits of newsWork and newsSlots hold for any numbers of jobs,      *)
(* owners and restarts.                                                    *)
THEOREM NewsWorkIsBounded == Spec => []WorkIsBounded
<1>1. ASSUME IInv
      PROVE  WorkIsBounded
  <2>0. TypeOK /\ PendingIsBounded /\ \A j \in Jobs : RunnerInv(j)
    BY <1>1 DEF IInv
  <2>1. Cardinality({j \in Jobs : Working(j)}) <= Slots
    <3>1. {j \in Jobs : Working(j)} \subseteq slots
      BY <2>0 DEF RunnerInv
    <3>2. IsFiniteSet(slots)
      BY <2>0, NewsAssumption, FS_Subset DEF TypeOK
    <3>3. /\ Cardinality({j \in Jobs : Working(j)}) <= Cardinality(slots)
          /\ Cardinality({j \in Jobs : Working(j)}) \in Nat /\ Cardinality(slots) \in Nat
      BY <3>1, <3>2, FS_Subset, FS_CardinalityType
    <3> QED
      BY <2>0, <3>3, NewsAssumption DEF PendingIsBounded
  <2> QED
    BY <2>0, <2>1 DEF WorkIsBounded, PendingIsBounded, Pending
<1> QED
  BY <1>1, NewsInvariant, PTL

(* Neither the cleanup of a later request nor a reader takes a job from    *)
(* under its runner.                                                       *)
THEOREM NewsNotOverWhileWorking == Spec => []NotOverWhileWorking
<1>1. IInv => NotOverWhileWorking
  BY DEF IInv
<1> QED
  BY <1>1, NewsInvariant, PTL

(* A completed job lists every clip once, whichever restarts it saw.       *)
THEOREM NewsCompletedIsWhole == Spec => []CompletedIsWhole
<1>1. IInv => CompletedIsWhole
  BY DEF IInv
<1> QED
  BY <1>1, NewsInvariant, PTL

(* What writeNewsJob has completed or failed changes by the cleanup of an  *)
(* expired directory only.                                                 *)
THEOREM NewsOutcomeIsFinal == Spec => OutcomeIsFinal
<1>1. ASSUME IInv, [Next]_vars
      PROVE  \A j \in Jobs :
                disk[j].state \in {"completed", "failed"} /\ disk'[j] # disk[j]
                   => expired[j] /\ disk'[j] = NoJob
  BY <1>1, FinalStep
<1>2. IInv /\ [Next]_vars =>
         [\A j \in Jobs :
             disk[j].state \in {"completed", "failed"} /\ disk'[j] # disk[j]
                => expired[j] /\ disk'[j] = NoJob]_disk
  BY <1>1
<1> QED
  BY <1>2, NewsInvariant, PTL DEF Spec, OutcomeIsFinal

(* Neither recoverNewsJobs with its limit of eight nor a reader writes off *)
(* a job that could have been recovered.                                   *)
THEOREM NewsRestartLosesNoWork == Spec => RestartLosesNoWork
<1>1. ASSUME IInv, [Next]_vars
      PROVE  \A j \in Jobs :
                Unfinished(j) /\ disk'[j].state = "failed" =>
                   \/ runner[j].at \in {"opened", "working"}
                   \/ changed[j] \/ expired[j] \/ spent.writes > 0
  BY <1>1, LosesNothingStep
<1>2. IInv /\ [Next]_vars =>
         [\A j \in Jobs :
             Unfinished(j) /\ disk'[j].state = "failed" =>
                \/ runner[j].at \in {"opened", "working"}
                \/ changed[j] \/ expired[j] \/ spent.writes > 0]_disk
  BY <1>1
<1> QED
  BY <1>2, NewsInvariant, PTL DEF Spec, RestartLosesNoWork

=============================================================================
