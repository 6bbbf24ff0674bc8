------------------------------ MODULE Encoder ------------------------------
(***************************************************************************)
(* encoder-service/app.py: the GPU export service.  One event loop creates *)
(* jobs and receives their sources, a thread pool serves cancellations and *)
(* status requests, two pool workers encode, a cleaner removes what        *)
(* expired.  They share Manager.jobs; each update of a job is atomic and   *)
(* written to its state.json, but what a caller checked before an update   *)
(* may be over when it is made: nothing stops an update from overwriting   *)
(* "cancelled".  A stop of the service lets the workers put their jobs     *)
(* back in the queue; after any restart the constructor takes up the jobs  *)
(* that were queued or running and still have their source.                *)
(*                                                                         *)
(* Not modelled: progress and stage, the quota of the disk, the contents   *)
(* of the shared source cache, a restart with other encoder settings.      *)
(***************************************************************************)
EXTENDS Integers, FiniteSets

CONSTANTS
    Keys,            \* export keys
    Workers,         \* threads of Manager.pool, 2 in the code
    parts,           \* parts[k]: clips of an export
    MaxUnfinished,   \* 4 in the code
    Recover,         \* ENCODER_RECOVER_ON_RESTART
    None,
    MaxRestarts

ASSUME EncoderAssumption ==
    /\ IsFiniteSet(Keys) /\ IsFiniteSet(Workers)
    /\ parts \in [Keys -> Nat]
    /\ MaxUnfinished \in Nat \ {0}
    /\ Recover \in BOOLEAN
    /\ None \notin Keys

VARIABLES
    state,     \* jobs[k]["state"], and that of its state.json
    files,     \* length of jobs[k]["files"]
    source,    \* the complete source of k is on disk
    stop,      \* stops[k] is set
    asked,     \* history: the user cancelled the job
    pool,      \* pool[k]: submitted runs of k no worker has taken yet
    active,    \* Manager.active
    worker,    \* worker[w]: the run a worker is in
    upload,    \* upload[k]: the request that sends the source
    stopping,  \* the service was asked to stop
    restarts

vars == <<state, files, source, stop, asked, pool, active, worker, upload,
          stopping, restarts>>
user == <<stop, asked>>
threads == <<pool, active, worker>>

States == {"none", "waiting", "uploading", "queued", "running",
           "completed", "failed", "cancelled"}
RunPoints == {"idle", "entered", "checked", "working", "excepting", "requeuing",
              "failing", "finally", "keeping", "ending"}
Runs == [at : RunPoints, key : Keys \cup {None}, done : Nat]
NoRun == [at |-> "idle", key |-> None, done |-> 0]
UploadPoints == {"none", "receiving", "received", "stored", "queued"}

TypeOK ==
    /\ state \in [Keys -> States]
    /\ files \in [Keys -> Nat]
    /\ source \in [Keys -> BOOLEAN]
    /\ stop \in [Keys -> BOOLEAN]
    /\ asked \in [Keys -> BOOLEAN]
    /\ pool \in [Keys -> Nat]
    /\ active \in SUBSET Keys
    /\ worker \in [Workers -> Runs]
    /\ upload \in [Keys -> UploadPoints]
    /\ stopping \in BOOLEAN
    /\ restarts \in Nat

Init ==
    /\ state = [k \in Keys |-> "none"]
    /\ files = [k \in Keys |-> 0]
    /\ source = [k \in Keys |-> FALSE]
    /\ stop = [k \in Keys |-> FALSE]
    /\ asked = [k \in Keys |-> FALSE]
    /\ pool = [k \in Keys |-> 0]
    /\ active = {}
    /\ worker = [w \in Workers |-> NoRun]
    /\ upload = [k \in Keys |-> "none"]
    /\ stopping = FALSE
    /\ restarts = 0

Unfinished(k) == state[k] \in {"waiting", "uploading", "queued", "running"}

Set(k, s) == state' = [state EXCEPT ![k] = s]

(* Create, upload and lifespan share the event loop, and an upload awaits  *)
(* nothing between its last chunk and its end.                             *)
LoopIsFree == \A k \in Keys : upload[k] \in {"none", "receiving"}

-----------------------------------------------------------------------------
(* Requests.                                                               *)

(* Manager.create of an unknown key, below the limit.  A hit in the source *)
(* cache links the source and submits the run at once.  Bound: a key that  *)
(* expired is used again only when no run of it is left.                   *)
Register(k) ==
    /\ ~stopping /\ LoopIsFree
    /\ state[k] = "none" /\ pool[k] = 0 /\ \A w \in Workers : worker[w].key # k
    /\ \/ Set(k, "waiting") /\ UNCHANGED <<source, pool>>
       \/ /\ Set(k, "queued")
          /\ source' = [source EXCEPT ![k] = TRUE]
          /\ pool' = [pool EXCEPT ![k] = @ + 1]
    /\ UNCHANGED <<files, user, active, worker, upload, stopping, restarts>>

CreateCountingUploaded(k) ==   \* variant: jobs without a source do not count
    /\ Cardinality({o \in Keys : state[o] \in {"queued", "running"}}) < MaxUnfinished
    /\ Register(k)

(* Counted under the lock.                                                 *)
Create(k) ==
    /\ Cardinality({o \in Keys : Unfinished(o)}) < MaxUnfinished
    /\ Register(k)

(* upload: only one request may send the source of a job.                  *)
UploadAgain(k) ==   \* variant: the state is not looked at
    /\ ~stopping /\ LoopIsFree
    /\ state[k] # "none" /\ upload[k] = "none"
    /\ Set(k, "uploading")
    /\ upload' = [upload EXCEPT ![k] = "receiving"]
    /\ UNCHANGED <<files, source, user, threads, stopping, restarts>>

UploadStart(k) ==
    /\ ~stopping /\ LoopIsFree
    /\ state[k] = "waiting"
    /\ Set(k, "uploading")
    /\ upload' = [upload EXCEPT ![k] = "receiving"]
    /\ UNCHANGED <<files, source, user, threads, stopping, restarts>>

(* The last chunk arrived, and the stop flag was not set before it.        *)
UploadReceived(k) ==
    /\ upload[k] = "receiving" /\ LoopIsFree
    /\ ~stop[k]
    /\ upload' = [upload EXCEPT ![k] = "received"]
    /\ UNCHANGED <<state, files, source, user, threads, stopping, restarts>>

(* Size and digest are right, rename source.partial.                       *)
UploadStored(k) ==
    /\ upload[k] = "received"
    /\ source' = [source EXCEPT ![k] = TRUE]
    /\ upload' = [upload EXCEPT ![k] = "stored"]
    /\ UNCHANGED <<state, files, user, threads, stopping, restarts>>

UploadQueued(k) ==
    /\ upload[k] = "stored"
    /\ Set(k, "queued")
    /\ upload' = [upload EXCEPT ![k] = "queued"]
    /\ UNCHANGED <<files, source, user, threads, stopping, restarts>>

UploadSubmit(k) ==
    /\ upload[k] = "queued"
    /\ pool' = [pool EXCEPT ![k] = @ + 1]
    /\ upload' = [upload EXCEPT ![k] = "none"]
    /\ UNCHANGED <<state, files, source, user, active, worker, stopping, restarts>>

(* Cancelled, incomplete, too slow, no room, another digest: whatever was  *)
(* stored is removed, whoever wrote the state since is overwritten.        *)
UploadFails(k) ==
    /\ \/ upload[k] = "receiving" /\ LoopIsFree
       \/ upload[k] \in {"received", "stored"}
    /\ source' = [source EXCEPT ![k] = FALSE]
    /\ Set(k, "failed")
    /\ upload' = [upload EXCEPT ![k] = "none"]
    /\ UNCHANGED <<files, user, threads, stopping, restarts>>

UploadStep(k) ==
    \/ UploadReceived(k) \/ UploadStored(k) \/ UploadQueued(k)
    \/ UploadSubmit(k) \/ UploadFails(k)

(* cancel: in any state, under the lock.                                   *)
Cancel(k) ==
    /\ ~stopping
    /\ state[k] # "none"
    /\ Set(k, "cancelled")
    /\ stop' = [stop EXCEPT ![k] = TRUE]
    /\ asked' = [asked EXCEPT ![k] = TRUE]
    /\ UNCHANGED <<files, source, threads, upload, stopping, restarts>>

(* Manager.clean, called by everybody: an hour is over.  An upload lasts   *)
(* half an hour, so the job it belongs to cannot expire under it.          *)
Expire(k) ==
    /\ state[k] \in {"waiting", "completed", "failed", "cancelled"}
    /\ k \notin active /\ upload[k] = "none"
    /\ Set(k, "none")
    /\ files' = [files EXCEPT ![k] = 0]
    /\ source' = [source EXCEPT ![k] = FALSE]
    /\ stop' = [stop EXCEPT ![k] = FALSE]
    /\ asked' = [asked EXCEPT ![k] = FALSE]
    /\ UNCHANGED <<threads, upload, stopping, restarts>>

-----------------------------------------------------------------------------
(* Manager.run in a worker of the pool.                                    *)

At(w, p) == worker[w].at = p
Goto(w, p) == worker' = [worker EXCEPT ![w].at = p]
K(w) == worker[w].key

Enter(w, k) ==
    /\ At(w, "idle") /\ pool[k] > 0
    /\ pool' = [pool EXCEPT ![k] = @ - 1]
    /\ active' = active \cup {k}
    /\ worker' = [worker EXCEPT ![w] = [at |-> "entered", key |-> k, done |-> 0]]
    /\ UNCHANGED <<state, files, source, user, upload, stopping, restarts>>

(* A job that is gone raises, and again in the handlers; a stopped job     *)
(* returns.                                                                *)
Check(w) ==
    /\ At(w, "entered")
    /\ Goto(w, CASE state[K(w)] = "none" -> "ending"
                 [] state[K(w)] # "none" /\ stop[K(w)] -> "finally"
                 [] OTHER                -> "checked")
    /\ UNCHANGED <<state, files, source, user, pool, active, upload, stopping, restarts>>

Begin(w) ==
    /\ At(w, "checked")
    /\ Set(K(w), "running")
    /\ Goto(w, "working")
    /\ UNCHANGED <<files, source, user, pool, active, upload, stopping, restarts>>

(* The next clip was encoded: rename it and add it to the list.            *)
Clip(w) ==
    /\ At(w, "working")
    /\ worker[w].done < parts[K(w)]
    /\ source[K(w)]
    /\ files' = [files EXCEPT ![K(w)] = @ + 1]
    /\ worker' = [worker EXCEPT ![w].done = @ + 1]
    /\ UNCHANGED <<state, source, user, pool, active, upload, stopping, restarts>>

(* The stop flag was seen, the gate refused, FFmpeg failed.                *)
Raise(w) ==
    /\ At(w, "working")
    /\ worker[w].done < parts[K(w)]
    /\ Goto(w, "excepting")
    /\ UNCHANGED <<state, files, source, user, pool, active, upload, stopping, restarts>>

Complete(w) ==
    /\ At(w, "working")
    /\ worker[w].done = parts[K(w)]
    /\ Set(K(w), "completed")
    /\ Goto(w, "finally")
    /\ UNCHANGED <<files, source, user, pool, active, upload, stopping, restarts>>

(* except: is the service stopping, and the job not cancelled?  Only then  *)
(* act on the answer.                                                      *)
FailInAnyCase(w) ==   \* variant: no difference between a stop and a failure
    /\ At(w, "excepting")
    /\ Goto(w, "failing")
    /\ UNCHANGED <<state, files, source, user, pool, active, upload, stopping, restarts>>

Excepted(w) ==
    /\ At(w, "excepting")
    /\ Goto(w, IF stopping /\ Recover /\ state[K(w)] # "cancelled"
               THEN "requeuing" ELSE "failing")
    /\ UNCHANGED <<state, files, source, user, pool, active, upload, stopping, restarts>>

Requeue(w) ==
    /\ At(w, "requeuing")
    /\ Set(K(w), "queued")
    /\ Goto(w, "finally")
    /\ UNCHANGED <<files, source, user, pool, active, upload, stopping, restarts>>

FailStopped(w) ==   \* variant: a stopped job gets a state of its own
    /\ At(w, "failing")
    /\ Set(K(w), IF stop[K(w)] THEN "stopped" ELSE "failed")
    /\ Goto(w, "finally")
    /\ UNCHANGED <<files, source, user, pool, active, upload, stopping, restarts>>

Fail(w) ==
    /\ At(w, "failing")
    /\ Set(K(w), IF stop[K(w)] THEN "cancelled" ELSE "failed")
    /\ Goto(w, "finally")
    /\ UNCHANGED <<files, source, user, pool, active, upload, stopping, restarts>>

(* finally: keep the source if the service is stopping and the job is to   *)
(* be recovered; then write it as queued once more.                        *)
KeepSource(w) ==
    stopping /\ Recover /\ state[K(w)] \in {"queued", "running"} /\ source[K(w)]

DropSourceAlways(w) ==   \* variant: a run always ends without its source
    /\ At(w, "finally")
    /\ source' = [source EXCEPT ![K(w)] = FALSE]
    /\ Goto(w, "ending")
    /\ UNCHANGED <<state, files, user, pool, active, upload, stopping, restarts>>

Finally(w) ==
    /\ At(w, "finally")
    /\ IF KeepSource(w)
       THEN Goto(w, "keeping") /\ UNCHANGED source
       ELSE Goto(w, "ending") /\ source' = [source EXCEPT ![K(w)] = FALSE]
    /\ UNCHANGED <<state, files, user, pool, active, upload, stopping, restarts>>

Keep(w) ==
    /\ At(w, "keeping")
    /\ Set(K(w), "queued")
    /\ Goto(w, "ending")
    /\ UNCHANGED <<files, source, user, pool, active, upload, stopping, restarts>>

Leave(w) ==
    /\ At(w, "ending")
    /\ active' = active \ {K(w)}
    /\ worker' = [worker EXCEPT ![w] = NoRun]
    /\ UNCHANGED <<state, files, source, user, pool, upload, stopping, restarts>>

RunStep(w) ==
    \/ Check(w) \/ Begin(w) \/ Clip(w) \/ Raise(w) \/ Complete(w) \/ Excepted(w)
    \/ Requeue(w) \/ Fail(w) \/ Finally(w) \/ Keep(w) \/ Leave(w)

-----------------------------------------------------------------------------
(* Stop, crash and start of the service.                                   *)

(* lifespan: the server has ended its requests (an upload that was cut off *)
(* leaves its state behind), then every stop flag is set and the pool is   *)
(* drained.                                                                *)
Shutdown ==
    /\ ~stopping /\ LoopIsFree
    /\ restarts < MaxRestarts
    /\ restarts' = restarts + 1
    /\ stopping' = TRUE
    /\ stop' = [k \in Keys |-> state[k] # "none"]
    /\ upload' = [k \in Keys |-> "none"]
    /\ UNCHANGED <<state, files, source, asked, threads>>

(* Manager.__init__ on what the disk holds.                                *)
Recoverable(k) == Recover /\ state[k] \in {"queued", "running"} /\ source[k]

StartWithFiles ==   \* variant: go on with the list of clips
    /\ state' = [k \in Keys |-> IF Recoverable(k) THEN "queued"
                                ELSE IF Unfinished(k) THEN "failed" ELSE state[k]]
    /\ UNCHANGED files
    /\ source' = [k \in Keys |-> source[k] /\ (Unfinished(k) => Recoverable(k))]
    /\ pool' = [k \in Keys |-> IF Recoverable(k) THEN 1 ELSE 0]
    /\ stop' = [k \in Keys |-> FALSE]
    /\ active' = {}
    /\ worker' = [w \in Workers |-> NoRun]
    /\ upload' = [k \in Keys |-> "none"]
    /\ stopping' = FALSE
    /\ UNCHANGED asked

StartWithoutSubmit ==   \* variant: nobody runs what was recovered
    /\ state' = [k \in Keys |-> IF Recoverable(k) THEN "queued"
                                ELSE IF Unfinished(k) THEN "failed" ELSE state[k]]
    /\ files' = [k \in Keys |-> IF Recoverable(k) THEN 0 ELSE files[k]]
    /\ source' = [k \in Keys |-> source[k] /\ (Unfinished(k) => Recoverable(k))]
    /\ pool' = [k \in Keys |-> 0]
    /\ stop' = [k \in Keys |-> FALSE]
    /\ active' = {}
    /\ worker' = [w \in Workers |-> NoRun]
    /\ upload' = [k \in Keys |-> "none"]
    /\ stopping' = FALSE
    /\ UNCHANGED asked

Start ==
    /\ state' = [k \in Keys |-> IF Recoverable(k) THEN "queued"
                                ELSE IF Unfinished(k) THEN "failed" ELSE state[k]]
    /\ files' = [k \in Keys |-> IF Recoverable(k) THEN 0 ELSE files[k]]
    /\ source' = [k \in Keys |-> source[k] /\ (Unfinished(k) => Recoverable(k))]
    /\ pool' = [k \in Keys |-> IF Recoverable(k) THEN 1 ELSE 0]
    /\ stop' = [k \in Keys |-> FALSE]
    /\ active' = {}
    /\ worker' = [w \in Workers |-> NoRun]
    /\ upload' = [k \in Keys |-> "none"]
    /\ stopping' = FALSE
    /\ UNCHANGED asked

(* Bound: MaxRestarts counts stops and crashes.                            *)
Crash ==
    /\ restarts < MaxRestarts
    /\ restarts' = restarts + 1
    /\ Start

Drained == \A k \in Keys : pool[k] = 0 /\ \A w \in Workers : At(w, "idle")

Boot ==
    /\ stopping /\ Drained
    /\ Start
    /\ UNCHANGED restarts

Next ==
    \/ Shutdown \/ Crash \/ Boot
    \/ \E k \in Keys : \/ Create(k) \/ UploadStart(k) \/ UploadStep(k)
                       \/ Cancel(k) \/ Expire(k)
    \/ \E w \in Workers : RunStep(w) \/ \E k \in Keys : Enter(w, k)

Spec == Init /\ [][Next]_vars

(* The event loop takes its tasks in turn and an upload ends within half   *)
(* an hour, workers keep running and FFmpeg is killed after an hour, the   *)
(* pool is first come first served, and the service manager starts a       *)
(* service that ended.                                                     *)
Fairness ==
    /\ WF_vars(Boot)
    /\ \A k \in Keys : /\ SF_vars(UploadStep(k))
                       /\ SF_vars(\E w \in Workers : Enter(w, k))
    /\ \A w \in Workers : WF_vars(RunStep(w))

FairSpec == Spec /\ Fairness

-----------------------------------------------------------------------------
(* Properties.                                                             *)

(* A job has one run at a time, in the pool or in a worker, whatever order *)
(* uploads, cache hits, cancellations and recoveries come in.              *)
RunsOnce ==
    \A k \in Keys :
        pool[k] + Cardinality({w \in Workers : K(w) = k}) <= 1

(* A job that is queued or encoded has its complete source, so that a      *)
(* crash at any moment loses none of them: nobody removes the source under *)
(* a run that still needs it, nor a run the source it has to hand on.      *)
SourceIsThere ==
    Recover => \A k \in Keys :
                  state[k] \in {"queued", "running"} /\ ~asked[k] => source[k]

(* What a client may download is complete and listed once, although a run  *)
(* may be the second after a restart in the midst of the first.            *)
CompletedIsWhole ==
    \A k \in Keys : state[k] = "completed" => files[k] = parts[k]

(* "At most 4 unfinished requests, waiting, transferring, queued and       *)
(* encoding", but for those whose cancellation was overwritten.            *)
WorkIsBounded ==
    Cardinality({k \in Keys : Unfinished(k) /\ ~asked[k]}) <= MaxUnfinished

(* A stop of the service fails none of the jobs it interrupts ("a restart  *)
(* keeps the complete source") but those whose failure is decided already. *)
Alive(k) ==
    /\ state[k] \in {"queued", "running"}
    /\ \A w \in Workers : ~(At(w, "failing") /\ K(w) = k)

StopKeepsWork ==
    [][\A k \in Keys :
          Recover /\ stopping /\ ~asked[k] /\ Alive(k)
             => Alive(k)' \/ state'[k] = "completed"]_vars

(* Every export whose upload began is settled, through stops and crashes,  *)
(* unless it is cancelled.                                                 *)
ExportsSettle ==
    \A k \in Keys :
        state[k] \in {"uploading", "queued", "running"}
           ~> state[k] \notin {"uploading", "queued", "running"} \/ asked[k]

(* "A restart keeps the complete source, a cancellation by the user is not *)
(* recovered": not after a normal stop of the service either.              *)
CancelIsNotRecovered ==
    [][\A k \in Keys : asked[k] /\ Boot => pool'[k] = 0]_vars

=============================================================================
