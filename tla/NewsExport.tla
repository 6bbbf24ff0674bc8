----------------------------- MODULE NewsExport -----------------------------
(***************************************************************************)
(* recording_gpu_export.go together with the encoder service it talks to   *)
(* (module Encoder): a clip job of control-api creates an export, sends    *)
(* the recording, polls, fetches the clips and packs them.  A restart of   *)
(* control-api forgets where each job was and begins it again under the    *)
(* same key; the encoder stops, crashes and expires jobs on its own; a     *)
(* request or its answer may be lost.                                      *)
(*                                                                         *)
(* A step is one of the encoder, with the client standing still, or one of *)
(* the client with the request it makes served in it.  Not modelled: the   *)
(* two-hour limit of a job (nothing here may depend on it), the length and *)
(* duration checks of a fetched clip, progress and timings.                *)
(***************************************************************************)
EXTENDS Integers, FiniteSets

CONSTANTS
    Keys, Workers, parts, MaxUnfinished, Recover, None, MaxRestarts,
    Orphans,     \* exports an earlier job left behind: the answer to its POST was lost
    MaxEvents    \* restarts of either side, lost messages, changed recordings

ASSUME ExportAssumption ==
    /\ IsFiniteSet(Keys) /\ IsFiniteSet(Workers)   \* as Encoder assumes
    /\ parts \in [Keys -> Nat]
    /\ MaxUnfinished \in Nat \ {0}
    /\ Recover \in BOOLEAN
    /\ None \notin Keys
    /\ Orphans \subseteq Keys
    /\ MaxEvents \in Nat

VARIABLES
    state, files, source, stop, asked, pool, active, worker, upload,
    stopping, restarts,
    at,        \* at[k]: where runNewsJob and exportNewsGPU are
    got,       \* len(job.Files)
    mishap,    \* history: what went wrong for k, see Mishaps
    lives,     \* restarts of control-api so far
    faults

E == INSTANCE Encoder

encoder == <<state, files, source, stop, asked, pool, active, worker, upload,
             stopping, restarts>>
bounds == <<lives, faults>>
vars == <<encoder, at, got, mishap, bounds>>

(* "known": something but a restart of control-api went wrong, or that     *)
(* restart cut an upload.  "cut": the job ended on a POST or DELETE that   *)
(* the encoder refused or did not answer.  "abandoned": the job ended      *)
(* before its POST, and nothing was sent to the encoder.                   *)
Mishaps == {"none", "known", "cut", "abandoned"}
Points == {"accepted", "posted", "sending", "stored", "polling",
           "fetching", "packing", "aborting", "told", "done", "failed"}
Over(k) == at[k] \in {"done", "failed"}
Going(k) == ~Over(k)

TypeOK ==
    /\ at \in [Keys -> Points]
    /\ got \in [Keys -> Nat] /\ \A k \in Keys : got[k] <= parts[k]
    /\ mishap \in [Keys -> Mishaps]
    /\ lives \in Nat
    /\ faults \in Nat

Init ==
    /\ state = [k \in Keys |-> IF k \in Orphans THEN "waiting" ELSE "none"]
    /\ files = [k \in Keys |-> 0]
    /\ source = [k \in Keys |-> FALSE]
    /\ stop = [k \in Keys |-> FALSE]
    /\ asked = [k \in Keys |-> FALSE]
    /\ pool = [k \in Keys |-> 0]
    /\ active = {}
    /\ worker = [w \in Workers |-> E!NoRun]
    /\ upload = [k \in Keys |-> "none"]
    /\ stopping = FALSE
    /\ restarts = 0
    /\ at = [k \in Keys |-> IF k \in Orphans THEN "failed" ELSE "accepted"]
    /\ got = [k \in Keys |-> 0]
    /\ mishap = [k \in Keys |-> IF k \in Orphans THEN "cut" ELSE "none"]
    /\ lives = 0
    /\ faults = 0

Goto(k, p) == at' = [at EXCEPT ![k] = p]
Fine == UNCHANGED <<mishap, faults>>
Worst(old, new) == IF old \in {"cut", "abandoned"} THEN old ELSE new
Known(k) == mishap' = [mishap EXCEPT ![k] = Worst(@, "known")]
Cut(k) == mishap' = [mishap EXCEPT ![k] = "cut"]
Abandon(k) == mishap' = [mishap EXCEPT ![k] = "abandoned"]
Fault == faults + lives + restarts < MaxEvents /\ faults' = faults + 1

-----------------------------------------------------------------------------
(* The job.                                                                *)

(* POST of a new key: the encoder makes the export, from its source cache  *)
(* or to be sent.                                                          *)
PostNew(k) ==
    /\ at[k] = "accepted"
    /\ E!Create(k)
    /\ Goto(k, IF state'[k] = "waiting" THEN "posted" ELSE "stored")
    /\ Fine /\ UNCHANGED <<got, lives>>

(* POST of a key the encoder has: it answers with the state, and only an   *)
(* export that waits for its source is sent it.                            *)
PostAgainAndSend(k) ==   \* variant: whatever is not over is sent again
    /\ at[k] = "accepted" /\ ~stopping /\ E!LoopIsFree /\ state[k] # "none"
    /\ Goto(k, CASE state[k] \in {"failed", "cancelled", "uploading"} -> "aborting"
                 [] state[k] = "completed"                            -> "stored"
                 [] OTHER                                             -> "posted")
    /\ Fine /\ UNCHANGED <<encoder, got, lives>>

PostAgain(k) ==
    /\ at[k] = "accepted" /\ ~stopping /\ E!LoopIsFree /\ state[k] # "none"
    /\ Goto(k, CASE state[k] \in {"failed", "cancelled", "uploading"} -> "aborting"
                 [] state[k] = "waiting"                              -> "posted"
                 [] OTHER                                             -> "stored")
    /\ Fine /\ UNCHANGED <<encoder, got, lives>>

(* Four exports are unfinished (429), or nobody answers: the deferred      *)
(* DELETE is not registered yet.                                           *)
PostRefused(k) ==
    /\ at[k] = "accepted"
    /\ \/ stopping
       \/ /\ state[k] = "none"
          /\ Cardinality({o \in Keys : E!Unfinished(o)}) >= MaxUnfinished
    /\ Goto(k, "failed") /\ Cut(k)
    /\ UNCHANGED <<encoder, got, lives, faults>>

(* The request is lost, or only its answer.                                *)
PostLost(k) ==
    /\ at[k] = "accepted" /\ Fault
    /\ E!Create(k) \/ UNCHANGED encoder
    /\ Goto(k, "failed") /\ Cut(k)
    /\ UNCHANGED <<got, lives>>

(* The recording changed before runNewsJob came to it: the job fails and   *)
(* asks the encoder nothing, not even to drop what an earlier life began.  *)
SourceChanged(k) ==
    /\ at[k] = "accepted" /\ Fault
    /\ Goto(k, "failed") /\ Abandon(k)
    /\ UNCHANGED <<encoder, got, lives>>

PutStart(k) ==
    /\ at[k] = "posted"
    /\ E!UploadStart(k)
    /\ Goto(k, "sending")
    /\ Fine /\ UNCHANGED <<got, lives>>

(* 404, 409 or no answer.                                                  *)
PutRefused(k) ==
    /\ at[k] = "posted"
    /\ stopping \/ state[k] # "waiting"
    /\ Goto(k, "aborting")
    /\ Fine /\ UNCHANGED <<encoder, got, lives>>

PutEnds(k) ==
    /\ at[k] = "sending" /\ upload[k] = "none"
    /\ Goto(k, IF state[k] \in {"queued", "running", "completed"} THEN "stored" ELSE "aborting")
    /\ Fine /\ UNCHANGED <<encoder, got, lives>>

(* The request or its answer is lost; the encoder notices a broken upload  *)
(* by itself.                                                              *)
PutLost(k) ==
    /\ at[k] \in {"posted", "sending"} /\ Fault
    /\ Goto(k, "aborting") /\ Known(k)
    /\ UNCHANGED <<encoder, got, lives>>

(* os.Stat: the recording is still the one that was sent.                  *)
Recheck(k) ==
    /\ at[k] = "stored"
    /\ \/ Goto(k, "polling") /\ Fine
       \/ Goto(k, "aborting") /\ Known(k) /\ Fault
    /\ UNCHANGED <<encoder, got, lives>>

(* An answer that ends the polling.                                        *)
Poll(k) ==
    /\ at[k] = "polling" /\ ~stopping
    /\ \/ state[k] = "completed" /\ Goto(k, "fetching")
       \/ state[k] \in {"failed", "cancelled"} /\ Goto(k, "aborting")
    /\ Fine /\ UNCHANGED <<encoder, got, lives>>

(* No good answer for sixty seconds: the service is away or knows nothing. *)
GiveUpUnknown(k) ==   \* variant: an unknown export is polled for ever
    /\ at[k] = "polling"
    /\ stopping
    /\ Goto(k, "aborting") /\ Known(k)
    /\ UNCHANGED <<encoder, got, lives, faults>>

GiveUp(k) ==
    /\ at[k] = "polling"
    /\ stopping \/ state[k] = "none"
    /\ Goto(k, "aborting") /\ Known(k)
    /\ UNCHANGED <<encoder, got, lives, faults>>

FetchOneMore(k) ==   \* variant: the loop runs once too often
    /\ at[k] = "fetching" /\ got[k] <= parts[k]
    /\ ~stopping /\ state[k] = "completed"
    /\ got' = [got EXCEPT ![k] = @ + 1]
    /\ Fine /\ UNCHANGED <<encoder, at, lives>>

(* The next clip.  The output is kept from here on: no DELETE on errors.   *)
Fetch(k) ==
    /\ at[k] = "fetching" /\ got[k] < parts[k]
    /\ ~stopping /\ state[k] = "completed" /\ got[k] < files[k]
    /\ got' = [got EXCEPT ![k] = @ + 1]
    /\ Fine /\ UNCHANGED <<encoder, at, lives>>

FetchFails(k) ==
    /\ at[k] = "fetching" /\ got[k] < parts[k]
    /\ \/ stopping \/ state[k] # "completed" \/ got[k] >= files[k]
       \/ Fault
    /\ faults' = IF stopping \/ state[k] # "completed" \/ got[k] >= files[k]
                 THEN faults ELSE faults + 1
    /\ Goto(k, "failed") /\ Known(k)
    /\ UNCHANGED <<encoder, got, lives>>

DeleteWhenFetched(k) ==   \* variant: the output is deleted once it is here
    /\ at[k] = "fetching" /\ got[k] = parts[k]
    /\ IF ~stopping /\ state[k] # "none" THEN E!Cancel(k) ELSE UNCHANGED encoder
    /\ Goto(k, "packing")
    /\ Fine /\ UNCHANGED <<got, lives>>

Fetched(k) ==
    /\ at[k] = "fetching" /\ got[k] = parts[k]
    /\ Goto(k, "packing")
    /\ Fine /\ UNCHANGED <<encoder, got, lives>>

(* zipNews and the last save of the job.                                   *)
Pack(k) ==
    /\ at[k] = "packing"
    /\ \/ Goto(k, "done") /\ Fine
       \/ Goto(k, "failed") /\ Known(k) /\ Fault
    /\ UNCHANGED <<encoder, got, lives>>

(* The deferred DELETE, tried for five seconds; then the failure is saved. *)
AbortQuietly(k) ==   \* variant: the encoder is not told
    /\ at[k] = "aborting"
    /\ Goto(k, "told")
    /\ Fine /\ UNCHANGED <<encoder, got, lives>>

Abort(k) ==
    /\ at[k] = "aborting"
    /\ Goto(k, "told")
    /\ \/ E!Cancel(k) /\ Fine
       \/ ~stopping /\ state[k] = "none" /\ Fine /\ UNCHANGED encoder
       \/ stopping /\ Cut(k) /\ UNCHANGED <<encoder, faults>>
       \/ Fault /\ Cut(k) /\ UNCHANGED encoder
    /\ UNCHANGED <<got, lives>>

SaveFailure(k) ==
    /\ at[k] = "told"
    /\ Goto(k, "failed")
    /\ Fine /\ UNCHANGED <<encoder, got, lives>>

JobStep(k) ==
    \/ PostNew(k) \/ PostAgain(k) \/ PostRefused(k) \/ PutStart(k) \/ PutRefused(k)
    \/ PutEnds(k) \/ Recheck(k) \/ Poll(k) \/ GiveUp(k) \/ Fetch(k)
    \/ FetchFails(k) \/ Fetched(k) \/ Pack(k) \/ Abort(k) \/ SaveFailure(k)

JobMishap(k) == PostLost(k) \/ PutLost(k) \/ SourceChanged(k)

(* control-api starts again: recoverNewsJobs fails what it cannot take up  *)
(* (its record or its recording changed), again without a word to the      *)
(* encoder, and begins the rest anew, with an empty list of files.  Its    *)
(* connections broke: an upload under way may be lost.                     *)
ControlRestart ==
    /\ faults + lives + restarts < MaxEvents
    /\ lives' = lives + 1
    /\ \E lost \in SUBSET {k \in Keys : Going(k)} :
          /\ faults + lives' + restarts + Cardinality(lost) <= MaxEvents
          /\ faults' = faults + Cardinality(lost)
          /\ at' = [k \in Keys |-> IF k \in lost THEN "failed"
                                   ELSE IF Going(k) THEN "accepted" ELSE at[k]]
          /\ mishap' = [k \in Keys |-> IF k \in lost THEN "abandoned"
                                       ELSE IF upload[k] # "none" THEN Worst(mishap[k], "known")
                                       ELSE mishap[k]]
    /\ got' = [k \in Keys |-> IF Going(k) THEN 0 ELSE got[k]]
    /\ UNCHANGED encoder

-----------------------------------------------------------------------------
(* The encoder on its own.                                                 *)

Still == UNCHANGED <<at, got, bounds>>

(* Steps that harm no export.                                              *)
UploadProceeds(k) ==
    /\ E!UploadReceived(k) \/ E!UploadStored(k) \/ E!UploadQueued(k) \/ E!UploadSubmit(k)
    /\ Still /\ UNCHANGED mishap

UploadBreaks(k) == E!UploadFails(k) /\ Known(k) /\ Still

WorkerEnters(w) == (\E k \in Keys : E!Enter(w, k)) /\ Still /\ UNCHANGED mishap

WorkerProceeds(w) ==
    /\ \/ E!Check(w) \/ E!Begin(w) \/ E!Clip(w) \/ E!Complete(w) \/ E!Excepted(w)
       \/ E!Requeue(w) \/ E!Fail(w) \/ E!Finally(w) \/ E!Keep(w) \/ E!Leave(w)
    /\ Still /\ UNCHANGED mishap

(* A clip could not be encoded, or the run was told to stop.               *)
WorkerRaises(w) ==
    /\ E!Raise(w)
    /\ IF stopping \/ stop[worker[w].key] THEN UNCHANGED mishap ELSE Known(worker[w].key)
    /\ Still

Expires(k) == E!Expire(k) /\ Known(k) /\ Still

(* Only a complete source survives a stop or a crash, and every open       *)
(* connection breaks: those of uploads too, and the client sees it.        *)
Breaks(k) == state[k] \in {"waiting", "uploading"} \/ upload[k] # "none"

Connections ==
    /\ at' = [k \in Keys |-> IF at[k] = "sending" /\ upload[k] # "none" THEN "aborting" ELSE at[k]]
    /\ mishap' = [k \in Keys |-> IF Breaks(k) THEN Worst(mishap[k], "known") ELSE mishap[k]]
    /\ UNCHANGED <<got, bounds>>

EncoderStops == faults + lives + restarts < MaxEvents /\ E!Shutdown /\ Connections
EncoderCrashes == faults + lives + restarts < MaxEvents /\ E!Crash /\ Connections
EncoderBoots == E!Boot /\ Still /\ UNCHANGED mishap

Next ==
    \/ ControlRestart \/ EncoderStops \/ EncoderCrashes \/ EncoderBoots
    \/ \E k \in Keys : \/ JobStep(k) \/ JobMishap(k)
                       \/ UploadProceeds(k) \/ UploadBreaks(k) \/ Expires(k)
    \/ \E w \in Workers : WorkerEnters(w) \/ WorkerProceeds(w) \/ WorkerRaises(w)

Spec == Init /\ [][Next]_vars

(* The service manager boots a service that ended, the event loop and the  *)
(* workers proceed, and a runner keeps polling and acts on what it reads.  *)
(* Weak fairness is enough: each of them is in the way of the others only  *)
(* finitely often.  Nothing is assumed of restarts, expiries and faults.   *)
Fairness ==
    /\ WF_vars(EncoderBoots)
    /\ \A k \in Keys : /\ WF_vars(UploadProceeds(k) \/ UploadBreaks(k))
                       /\ WF_vars(JobStep(k))
    /\ \A w \in Workers : WF_vars(WorkerEnters(w) \/ WorkerProceeds(w) \/ WorkerRaises(w))

FairSpec == Spec /\ Fairness

-----------------------------------------------------------------------------
(* Properties.                                                             *)

(* An export survives a restart of control-api at any moment, and a stop   *)
(* or crash of the encoder while it is polled: without any other mishap    *)
(* (and a restart in the midst of an upload is one) a job never fails.     *)
RestartsCostNothing ==
    Recover => \A k \in Keys : at[k] = "failed" => mishap[k] # "none"

(* Whoever has posted in this life of its job cleans up: when a job fails, *)
(* its export is over or was told to stop, but for two cases.  The encoder *)
(* refused or did not answer the POST or the DELETE; or control-api was    *)
(* restarted, and the job failed before it posted again, by                *)
(* recoverNewsJobs or by the check of its recording in runNewsJob.  Then   *)
(* no DELETE is sent, and the GPU does work on for nobody.                 *)
NoOrphans ==
    \A k \in Keys : at[k] = "failed" /\ E!Unfinished(k) =>
        \/ asked[k]
        \/ mishap[k] = "cut"
        \/ mishap[k] = "abandoned" /\ lives > 0

(* "Keep completed output until the encoder TTL cleanup.  A control        *)
(* restart during ZIP packaging must still be able to reattach and fetch   *)
(* it": only a job that fails cancels a completed export.                  *)
KeptForReattachment ==
    [][\A k \in Keys : state[k] = "completed" /\ state'[k] = "cancelled"
                          => at[k] = "aborting" /\ mishap[k] # "none"]_vars

(* Every job is over in the end, also when the encoder forgets its export, *)
(* and without its two-hour limit: unless the DELETE of its earlier life   *)
(* was overwritten by the end of the upload, so that it polls an export    *)
(* that is queued and has no run.                                          *)
JobsSettle == \A k \in Keys : at[k] = "accepted" ~> Over(k) \/ asked[k]

=============================================================================
