---------------------------- MODULE NewsAnalysis ----------------------------
(***************************************************************************)
(* Smart clip jobs from the recording to the list of news: the analysis    *)
(* cache (recording_analysis_cache.go), the audio pipeline (module         *)
(* AudioPipeline), the speech service with its one slot                    *)
(* (asr-service/app.py) and the grouping that follows                      *)
(* (recording_news_ai.go).  Jobs of the same recording share one analysis: *)
(* the first takes the lock of the content, the others wait for its        *)
(* channel to be closed and look into the cache.  A recording may be       *)
(* rewritten at any time; it is a version number here, and equal size and  *)
(* modification time mean an equal version.                                *)
(*                                                                         *)
(* Not modelled: the contents of sentences and prompts, the cache of the   *)
(* speech service (it answers earlier, nothing else), the resource gate    *)
(* behind its slot (module ResourceGate; a refusal stands for its          *)
(* time-out).                                                              *)
(***************************************************************************)
EXTENDS Integers, FiniteSets

CONSTANTS
    Jobs, Chunks,
    None,
    MaxEvents    \* rewrites, cancellations and restarts that are explored

VARIABLES
    producer, next, spoilt, queue, slots, wav, ear, held, heard, broken, cancelled,
    at,        \* at[j]: where the job is
    before,    \* the version job j opened
    key,       \* the version whose digest it computed; 0 when it bypasses the cache
    from,      \* versions its chunks and pictures were read from
    result,    \* what it returns: [from, heard], None before
    lock,      \* lock[v]: the job that holds the lock of version v
    cache,     \* cache[v]: the stored result of version v
    asr,       \* requests the speech service has, [job, life, at]
    version,   \* of the recording
    life,      \* restarts of control-api
    events

P == INSTANCE AudioPipeline

ASSUME AnalysisAssumption ==
    /\ P!PipelineAssumption
    /\ None \notin Jobs
    /\ MaxEvents \in Nat

pipeline == <<producer, next, spoilt, queue, slots, wav, ear, held, heard, broken, cancelled>>
sharing == <<lock, cache>>
mine == <<before, key, from, result>>
outside == <<version, life, events>>
vars == <<pipeline, at, mine, sharing, asr, outside>>

Points == {"open", "hash", "stat", "lock", "lookup", "analyse", "group", "align",
           "cleaning", "recheck", "store", "unlock", "done", "failed"}
Over(j) == at[j] \in {"done", "failed"}
Versions == 1 .. MaxEvents + 1
Results == [from : SUBSET Versions, heard : SUBSET (1 .. Chunks)]
NoResult == [from |-> {}, heard |-> {}]
Requests == [job : Jobs, life : 0 .. MaxEvents, at : {"waiting", "serving"}]

TypeOK ==
    /\ P!TypeOK
    /\ at \in [Jobs -> Points]
    /\ before \in [Jobs -> Versions]
    /\ key \in [Jobs -> 0 .. MaxEvents + 1]
    /\ from \in [Jobs -> SUBSET Versions]
    /\ result \in [Jobs -> Results]
    /\ lock \in [Versions -> Jobs \cup {None}]
    /\ cache \in [Versions -> Results]
    /\ asr \subseteq Requests
    /\ version \in Versions
    /\ life \in 0 .. MaxEvents /\ events \in 0 .. MaxEvents

Init ==
    /\ P!Init
    /\ at = [j \in Jobs |-> "open"]
    /\ before = [j \in Jobs |-> 1]
    /\ key = [j \in Jobs |-> 0]
    /\ from = [j \in Jobs |-> {}]
    /\ result = [j \in Jobs |-> NoResult]
    /\ lock = [v \in Versions |-> None]
    /\ cache = [v \in Versions |-> NoResult]
    /\ asr = {}
    /\ version = 1
    /\ life = 0
    /\ events = 0

Goto(j, p) == at' = [at EXCEPT ![j] = p]

-----------------------------------------------------------------------------
(* cachedNewsAnalysis up to the analysis.                                  *)

Open(j) ==
    /\ at[j] = "open"
    /\ before' = [before EXCEPT ![j] = version]
    /\ Goto(j, "hash")
    /\ UNCHANGED <<pipeline, key, from, result, sharing, asr, outside>>

Hash(j) ==
    /\ at[j] = "hash"
    /\ IF cancelled[j]
       THEN Goto(j, "failed") /\ UNCHANGED key
       ELSE Goto(j, "stat") /\ key' = [key EXCEPT ![j] = version]
    /\ UNCHANGED <<pipeline, before, from, result, sharing, asr, outside>>

(* The recording changed while it was read: the cache is bypassed.         *)
Stat(j) ==
    /\ at[j] = "stat"
    /\ IF version = before[j]
       THEN Goto(j, "lock") /\ UNCHANGED key
       ELSE Goto(j, "analyse") /\ key' = [key EXCEPT ![j] = 0]
    /\ UNCHANGED <<pipeline, before, from, result, sharing, asr, outside>>

(* Wait until the channel of the holder is closed, and try again.          *)
TakeLock(j) ==
    /\ at[j] = "lock"
    /\ \/ /\ lock[key[j]] = None
          /\ lock' = [lock EXCEPT ![key[j]] = j]
          /\ Goto(j, "lookup")
          /\ UNCHANGED key
       \/ /\ lock[key[j]] # None /\ cancelled[j]
          /\ Goto(j, "failed")
          /\ key' = [key EXCEPT ![j] = 0]
          /\ UNCHANGED lock
    /\ UNCHANGED <<pipeline, before, from, result, cache, asr, outside>>

Lookup(j) ==
    /\ at[j] = "lookup"
    /\ IF cache[key[j]] # NoResult
       THEN Goto(j, "unlock") /\ result' = [result EXCEPT ![j] = cache[key[j]]]
       ELSE Goto(j, "analyse") /\ UNCHANGED result
    /\ UNCHANGED <<pipeline, before, key, from, sharing, asr, outside>>

-----------------------------------------------------------------------------
(* analyseNewsUncachedMeasured.                                            *)

Begin(j) ==
    /\ at[j] = "analyse" /\ P!Begin(j)
    /\ UNCHANGED <<at, mine, sharing, asr, outside>>

(* FFmpeg reads the recording, as it is when the extraction begins and     *)
(* when it ends.                                                           *)
Prepare(j) ==
    /\ \/ P!Acquire(j) \/ P!Extracted(j)
       \/ (P!Send(j) \/ P!ProducerQuits(j))
    /\ from' = IF producer'[j] = "extracting" \/ producer[j] = "extracting"
               THEN [from EXCEPT ![j] = @ \cup {version}] ELSE from
    /\ UNCHANGED <<at, before, key, result, sharing, asr, outside>>

Mine(r, j) == r.job = j /\ r.life = life
Becomes(r, p) == asr' = (asr \ {r}) \cup {[r EXCEPT !.at = p]}
SlotIsFree == \A r \in asr : r.at # "serving"

(* The next chunk is there, and transcribeNews posts it; or the consumer   *)
(* leaves.                                                                 *)
Listen(j) ==
    /\ P!ReceiveStep(j)
    /\ asr' = IF ear'[j] = "consuming" /\ ~cancelled[j]
              THEN asr \cup {[job |-> j, life |-> life, at |-> "waiting"]} ELSE asr
    /\ UNCHANGED <<at, mine, sharing, outside>>

(* transcribeNews fails when the job is cancelled; the service does not    *)
(* notice that and works on.                                               *)
Hang(j) ==
    /\ cancelled[j] /\ P!Consumed(j, FALSE)
    /\ UNCHANGED <<at, mine, sharing, asr, outside>>

PipelineEndsWell(j) ==   \* variant: its error is shadowed
    /\ at[j] = "analyse" /\ P!Join(j)
    /\ Goto(j, "group")
    /\ UNCHANGED <<mine, sharing, asr, outside>>

PipelineEnds(j) ==
    /\ at[j] = "analyse" /\ P!Join(j)
    /\ Goto(j, IF broken[j] THEN "cleaning" ELSE "group")
    /\ UNCHANGED <<mine, sharing, asr, outside>>

(* groupNews: a request under the context of the job, which may fail.      *)
Group(j) ==
    /\ at[j] = "group"
    /\ \/ ~cancelled[j] /\ Goto(j, "align")
       \/ Goto(j, "cleaning")
    /\ UNCHANGED <<pipeline, mine, sharing, asr, outside>>

(* alignNewsPicture reads the recording once more.                         *)
Align(j) ==
    /\ at[j] = "align"
    /\ Goto(j, "cleaning")
    /\ IF cancelled[j]
       THEN UNCHANGED <<from, result>>
       ELSE /\ from' = [from EXCEPT ![j] = @ \cup {version}]
            /\ result' = [result EXCEPT ![j] = [from |-> from'[j], heard |-> heard[j]]]
    /\ UNCHANGED <<pipeline, before, key, sharing, asr, outside>>

(* The deferred RemoveAll, and the return to cachedNewsAnalysis.           *)
CleanUp(j) ==
    /\ at[j] = "cleaning" /\ P!CleanUp(j)
    /\ Goto(j, IF result[j] = NoResult
               THEN IF key[j] = 0 THEN "failed" ELSE "unlock"
               ELSE IF key[j] = 0 THEN "done" ELSE "recheck")
    /\ from' = [from EXCEPT ![j] = {}]
    /\ UNCHANGED <<before, key, result, sharing, asr, outside>>

-----------------------------------------------------------------------------
(* cachedNewsAnalysis after the analysis.                                  *)

RecheckNever(j) ==   \* variant: what was analysed is stored
    /\ at[j] = "recheck"
    /\ Goto(j, "store")
    /\ UNCHANGED <<pipeline, mine, sharing, asr, outside>>

Recheck(j) ==
    /\ at[j] = "recheck"
    /\ Goto(j, IF version = before[j] THEN "store" ELSE "unlock")
    /\ UNCHANGED <<pipeline, mine, sharing, asr, outside>>

(* A temporary file and its rename; any error leaves the cache alone.      *)
Store(j) ==
    /\ at[j] = "store"
    /\ \/ cache' = [cache EXCEPT ![key[j]] = result[j]]
       \/ UNCHANGED cache
    /\ Goto(j, "unlock")
    /\ UNCHANGED <<pipeline, mine, lock, asr, outside>>

UnlockOnSuccess(j) ==   \* variant: a failed analysis keeps the lock
    /\ at[j] = "unlock"
    /\ Goto(j, IF result[j] = NoResult THEN "failed" ELSE "done")
    /\ lock' = IF result[j] = NoResult THEN lock ELSE [lock EXCEPT ![key[j]] = None]
    /\ UNCHANGED <<pipeline, mine, cache, asr, outside>>

Unlock(j) ==
    /\ at[j] = "unlock"
    /\ Goto(j, IF result[j] = NoResult THEN "failed" ELSE "done")
    /\ lock' = [lock EXCEPT ![key[j]] = None]
    /\ UNCHANGED <<pipeline, mine, cache, asr, outside>>

-----------------------------------------------------------------------------
(* The speech service: one request at a time has its slot, the others wait *)
(* two minutes.                                                            *)

Serve(r) ==
    /\ r.at = "waiting" /\ SlotIsFree
    /\ Becomes(r, "serving")
    /\ UNCHANGED <<pipeline, at, mine, sharing, outside>>

(* Sentences or an error, at once when the slot stays taken; nobody may    *)
(* wait for the answer any more.                                           *)
Answer(r) ==
    /\ asr' = asr \ {r}
    /\ \E ok \in BOOLEAN :
          /\ r.at = "serving" \/ (~ok /\ ~SlotIsFree)
          /\ IF Mine(r, r.job) /\ ear[r.job] = "consuming"
             THEN P!Consumed(r.job, ok) ELSE UNCHANGED pipeline
    /\ UNCHANGED <<at, mine, sharing, outside>>

Service == \E r \in asr : Serve(r) \/ Answer(r)

-----------------------------------------------------------------------------
(* What happens from outside.                                              *)

Event == events < MaxEvents /\ events' = events + 1

Rewrite ==
    /\ Event
    /\ version' = version + 1
    /\ UNCHANGED <<pipeline, at, mine, sharing, asr, life>>

TimeIsUp(j) ==
    /\ Event /\ ~Over(j)
    /\ P!Cancel(j)
    /\ UNCHANGED <<at, mine, sharing, asr, version, life>>

(* A day is over, or 128 younger results are stored.                       *)
CacheExpires ==
    /\ Event
    /\ \E v \in Versions : /\ cache[v] # NoResult
                           /\ cache' = [cache EXCEPT ![v] = NoResult]
    /\ UNCHANGED <<pipeline, at, mine, lock, asr, version, life>>

(* control-api restarts: its jobs begin anew (module NewsJobs), the locks  *)
(* were in memory, and the speech service works on.                        *)
Restart ==
    /\ Event
    /\ life' = life + 1
    /\ LET Again(f, g) == [j \in Jobs |-> IF Over(j) THEN f[j] ELSE g] IN
          /\ at' = Again(at, "open")
          /\ before' = Again(before, 1) /\ key' = Again(key, 0)
          /\ from' = Again(from, {}) /\ result' = Again(result, NoResult)
          /\ producer' = Again(producer, "none") /\ next' = Again(next, 1)
          /\ spoilt' = Again(spoilt, FALSE) /\ queue' = Again(queue, 0)
          /\ slots' = Again(slots, 0) /\ wav' = Again(wav, {})
          /\ ear' = Again(ear, "off") /\ held' = Again(held, 0)
          /\ heard' = Again(heard, {}) /\ broken' = Again(broken, FALSE)
          /\ cancelled' = Again(cancelled, FALSE)
    /\ lock' = [v \in Versions |-> None]
    /\ UNCHANGED <<cache, asr, version>>

JobStep(j) ==
    \/ Open(j) \/ Hash(j) \/ Stat(j) \/ TakeLock(j) \/ Lookup(j) \/ Begin(j)
    \/ Listen(j) \/ Hang(j) \/ PipelineEnds(j) \/ Group(j) \/ Align(j)
    \/ CleanUp(j) \/ Recheck(j) \/ Store(j) \/ Unlock(j)

Next ==
    \/ \E j \in Jobs : JobStep(j) \/ Prepare(j) \/ TimeIsUp(j)
    \/ Service \/ Rewrite \/ CacheExpires \/ Restart

Spec == Init /\ [][Next]_vars

(* Goroutines run, FFmpeg and requests end (a request within ten minutes). *)
Fairness ==
    /\ \A j \in Jobs : WF_vars(JobStep(j)) /\ WF_vars(Prepare(j))
    /\ WF_vars(Service)

FairSpec == Spec /\ Fairness

-----------------------------------------------------------------------------
(* Properties.                                                             *)

(* "At most two prepared/in-flight chunks: current ASR + next extraction". *)
PrefetchIsBounded == \A j \in Jobs : Cardinality(P!InFlight(j)) <= 2

(* "Cancellation joins the producer before its isolated temporary          *)
(* directory is removed", see AudioPipeline.                               *)
NothingAfterCleanup == P!NothingAfterCleanup

(* A list of news covers the whole programme, the one a job returns as     *)
(* well as the one it keeps for others: the pipeline returns nil for part  *)
(* of it when the job is cancelled, and only the grouping after it fails.  *)
ResultIsWhole ==
    /\ \A j \in Jobs : at[j] = "done" => result[j].heard = 1 .. Chunks
    /\ \A v \in Versions : cache[v] # NoResult => cache[v].heard = 1 .. Chunks

(* "Only machine-generated immutable parts are shared": what is kept under *)
(* the digest of a content was made from that content, although the        *)
(* recording may be rewritten before, during and after its analysis.       *)
CacheIsRight ==
    \A v \in Versions : cache[v].from \subseteq {v}

(* Every job ends: the followers too when the leader fails or is cancelled.*)
EveryoneEnds == \A j \in Jobs : <>Over(j)

=============================================================================
