--------------------------- MODULE EncoderProofs ---------------------------
(***************************************************************************)
(* The safety properties of Encoder, for any keys, clips, workers, limits  *)
(* and numbers of restarts.  The inductive invariant says of every export, *)
(* and of every point of a run, who may still need its source and what its *)
(* list of files holds.                                                    *)
(***************************************************************************)
EXTENDS Encoder, FiniteSetTheorems, TLAPS

NoRunOf(k) == \A w \in Workers : K(w) # k

(* A cancellation that reached the job and was not overwritten since.      *)
UserCancelled(k) == state[k] = "cancelled" /\ asked[k]

(* What is known of an export before, between and after its runs.          *)
KeyInv(k) ==
    /\ pool[k] <= 1
    /\ pool[k] = 1 =>
          /\ NoRunOf(k) /\ files[k] = 0
          /\ state[k] \in {"none", "queued"} \/ UserCancelled(k)
          /\ state[k] # "none" => source[k]
    /\ upload[k] # "none" =>
          /\ pool[k] = 0 /\ NoRunOf(k) /\ files[k] = 0 /\ ~stopping
          /\ state[k] \in {"uploading", "queued"} \/ UserCancelled(k)
    /\ upload[k] \in {"stored", "queued"} => source[k]
    /\ upload[k] = "queued" => state[k] # "uploading"
    /\ state[k] = "waiting" => pool[k] = 0 /\ NoRunOf(k)
    /\ state[k] \in {"none", "waiting"} => upload[k] = "none" /\ files[k] = 0
    /\ stop[k] => stopping \/ asked[k]
    /\ state[k] = "completed" => files[k] = parts[k]
    /\ Recover /\ state[k] \in {"queued", "running"} /\ ~asked[k] => source[k]

(* What is known of a run, and of its export, at each of its points.       *)
RunInv(w) ==
    /\ At(w, "idle") <=> K(w) = None
    /\ ~At(w, "idle") => K(w) \in active
    /\ At(w, "entered") =>
          /\ files[K(w)] = 0 /\ worker[w].done = 0
          /\ state[K(w)] \in {"none", "queued"} \/ UserCancelled(K(w))
          /\ state[K(w)] # "none" => source[K(w)]
    /\ At(w, "checked") =>
          /\ files[K(w)] = 0 /\ worker[w].done = 0 /\ source[K(w)]
          /\ state[K(w)] = "queued" \/ UserCancelled(K(w))
    /\ worker[w].at \in {"working", "excepting", "requeuing", "failing"} =>
          /\ files[K(w)] = worker[w].done /\ source[K(w)]
          /\ state[K(w)] = "running" \/ UserCancelled(K(w))
    /\ At(w, "requeuing") => stopping
    /\ At(w, "finally") =>
          /\ state[K(w)] \notin {"none", "waiting"} /\ source[K(w)]
          /\ state[K(w)] \in {"queued", "running"} => stopping \/ asked[K(w)]
    /\ At(w, "keeping") =>
          source[K(w)] /\ (state[K(w)] \in {"queued", "running"} \/ UserCancelled(K(w)))

OneRunEach == \A v, w \in Workers : K(v) = K(w) /\ K(v) # None => v = w

IInv ==
    /\ TypeOK
    /\ \A k \in Keys : KeyInv(k)
    /\ \A w \in Workers : RunInv(w)
    /\ OneRunEach

-----------------------------------------------------------------------------
JobType ==
    /\ state \in [Keys -> States]
    /\ files \in [Keys -> Nat]
    /\ source \in [Keys -> BOOLEAN]
    /\ stop \in [Keys -> BOOLEAN]
    /\ asked \in [Keys -> BOOLEAN]
    /\ pool \in [Keys -> Nat]
    /\ upload \in [Keys -> UploadPoints]

ServiceType ==
    /\ active \in SUBSET Keys
    /\ worker \in [Workers -> Runs]
    /\ stopping \in BOOLEAN
    /\ restarts \in Nat

LEMMA TypeParts == TypeOK <=> JobType /\ ServiceType
BY DEF TypeOK, JobType, ServiceType

LEMMA TypePartsAfter == JobType' /\ ServiceType' => TypeOK'
BY DEF TypeOK, JobType, ServiceType

(* A run belongs to an export exactly while it is not idle.                *)
LEMMA RunHasKey ==
    ASSUME IInv, NEW w \in Workers
    PROVE  /\ worker[w] \in Runs
           /\ K(w) # None => K(w) \in Keys
           /\ At(w, "idle") <=> K(w) = None
BY DEF IInv, TypeOK, RunInv, Runs, K

-----------------------------------------------------------------------------
(* Frames.                                                                 *)

SameJob(k) ==
    /\ state'[k] = state[k] /\ files'[k] = files[k] /\ source'[k] = source[k]
    /\ asked'[k] = asked[k]

Same(k) == SameJob(k) /\ stop'[k] = stop[k] /\ pool'[k] = pool[k] /\ upload'[k] = upload[k]

LEMMA KeyFrame ==
    ASSUME NEW k \in Keys, KeyInv(k), Same(k), stopping' = stopping, NoRunOf(k) => NoRunOf(k)'
    PROVE  KeyInv(k)'
BY DEF KeyInv, Same, SameJob, UserCancelled

LEMMA RunFrame ==
    ASSUME NEW w \in Workers, RunInv(w), worker'[w] = worker[w],
           ~At(w, "idle") => SameJob(K(w)), stopping' = stopping,
           K(w) \in active => K(w) \in active'
    PROVE  RunInv(w)'
<1>1. K(w)' = K(w) /\ \A p : At(w, p)' <=> At(w, p)
  BY DEF K, At
<1>2. CASE At(w, "idle")
  BY <1>1, <1>2 DEF RunInv, At
<1>3. CASE ~At(w, "idle")
  BY <1>1, <1>3 DEF RunInv, SameJob, UserCancelled
<1> QED  BY <1>2, <1>3

(* A request, or the event loop, works on export k.                        *)
LEMMA JobStepFrame ==
    ASSUME IInv, NEW k \in Keys, TypeOK', UNCHANGED <<active, worker, stopping>>,
           \A j \in Keys \ {k} : Same(j), KeyInv(k)',
           \A w \in Workers : K(w) = k => RunInv(w)'
    PROVE  IInv'
<1>1. \A j \in Keys : NoRunOf(j)' <=> NoRunOf(j)
  BY DEF NoRunOf, K
<1>2. \A j \in Keys : KeyInv(j)'
  <2>1. ASSUME NEW j \in Keys \ {k}
        PROVE  KeyInv(j)'
    BY <1>1, KeyFrame DEF IInv
  <2> QED  BY <2>1
<1>3. \A w \in Workers : RunInv(w)'
  <2>1. ASSUME NEW w \in Workers, K(w) # k
        PROVE  RunInv(w)'
    <3>1. ~At(w, "idle") => K(w) \in Keys \ {k}
      BY <2>1, RunHasKey
    <3> QED  BY <3>1, RunFrame DEF IInv, Same
  <2> QED  BY <2>1
<1>4. OneRunEach'
  BY DEF IInv, OneRunEach, K
<1> QED  BY <1>2, <1>3, <1>4 DEF IInv

(* The run of worker w works on its export.                                *)
LEMMA RunStepFrame ==
    ASSUME IInv, NEW w \in Workers, NEW k \in Keys, TypeOK', UNCHANGED stopping,
           \A v \in Workers \ {w} : worker'[v] = worker[v] /\ K(v) # k,
           K(w)' \in {k, None}, K(w) \in {k, None},
           active \ {k} \subseteq active',
           \A j \in Keys \ {k} : Same(j), KeyInv(k)', RunInv(w)'
    PROVE  IInv'
<1>1. \A v \in Workers \ {w} : K(v)' = K(v)
  BY DEF K
<1>2. ASSUME NEW j \in Keys \ {k}
      PROVE  KeyInv(j)'
  <2>1. NoRunOf(j) => NoRunOf(j)'
    BY <1>1, EncoderAssumption DEF NoRunOf
  <2> QED  BY <2>1, KeyFrame DEF IInv
<1>3. ASSUME NEW v \in Workers \ {w}
      PROVE  RunInv(v)'
  <2>1. ~At(v, "idle") => K(v) \in Keys \ {k}
    BY RunHasKey
  <2>2. K(v) \in active => K(v) \in active'
    OBVIOUS
  <2> QED  BY <2>1, <2>2, RunFrame DEF IInv, Same
<1>4. OneRunEach'
  BY <1>1 DEF IInv, OneRunEach
<1> QED  BY <1>2, <1>3, <1>4 DEF IInv

-----------------------------------------------------------------------------
(* Requests and the event loop.                                            *)

LEMMA RegisterKeeps ==
    ASSUME IInv, NEW k \in Keys, Register(k)
    PROVE  IInv'
<1>0. JobType /\ ServiceType /\ KeyInv(k) /\ NoRunOf(k)
  BY TypeParts DEF IInv, NoRunOf, K, Register
<1>1. /\ ~stopping /\ state[k] = "none" /\ pool[k] = 0
      /\ UNCHANGED <<files, stop, asked, active, worker, upload, stopping, restarts>>
  BY DEF Register, user
<1>2. files[k] = 0 /\ upload[k] = "none" /\ NoRunOf(k)'
  BY <1>0, <1>1 DEF KeyInv, NoRunOf, K
<1>3. CASE Set(k, "waiting") /\ UNCHANGED <<source, pool>>
  <2>1. JobType'
    BY <1>0, <1>1, <1>3 DEF JobType, States, Set
  <2>2. \A j \in Keys \ {k} : Same(j)
    BY <1>0, <1>1, <1>3 DEF Same, SameJob, JobType, Set
  <2>3. state'[k] = "waiting" /\ pool'[k] = 0
    BY <1>0, <1>1, <1>3 DEF JobType, Set
  <2>4. KeyInv(k)'
    BY <1>0, <1>1, <1>2, <2>3 DEF KeyInv
  <2> QED  BY <1>0, <1>1, <2>1, <2>2, <2>4, TypePartsAfter, JobStepFrame DEF ServiceType, NoRunOf
<1>4. CASE /\ Set(k, "queued")
           /\ source' = [source EXCEPT ![k] = TRUE] /\ pool' = [pool EXCEPT ![k] = @ + 1]
  <2>1. JobType'
    BY <1>0, <1>1, <1>4 DEF JobType, States, Set
  <2>2. \A j \in Keys \ {k} : Same(j)
    BY <1>0, <1>1, <1>4 DEF Same, SameJob, JobType, Set
  <2>3. state'[k] = "queued" /\ pool'[k] = 1 /\ source'[k]
    BY <1>0, <1>1, <1>4 DEF JobType, Set
  <2>4. KeyInv(k)'
    BY <1>0, <1>1, <1>2, <2>3 DEF KeyInv
  <2> QED  BY <1>0, <1>1, <2>1, <2>2, <2>4, TypePartsAfter, JobStepFrame DEF ServiceType, NoRunOf
<1> QED  BY <1>3, <1>4 DEF Register

LEMMA UploadStartKeeps ==
    ASSUME IInv, NEW k \in Keys, UploadStart(k)
    PROVE  IInv'
<1> USE DEF UploadStart, Set, user, threads
<1>0. JobType /\ ServiceType /\ KeyInv(k)
  BY TypeParts DEF IInv
<1>1. TypeOK'
  <2>1. JobType'
    BY <1>0 DEF JobType, States, UploadPoints
  <2> QED  BY <1>0, <2>1, TypePartsAfter DEF ServiceType
<1>2. \A j \in Keys \ {k} : Same(j)
  BY <1>0 DEF Same, SameJob, JobType
<1>3. NoRunOf(k)
  BY <1>0 DEF KeyInv
<1>4. KeyInv(k)'
  <2>1. state'[k] = "uploading" /\ upload'[k] = "receiving"
    BY <1>0 DEF JobType
  <2> QED  BY <1>0, <1>3, <2>1 DEF KeyInv, NoRunOf, K
<1> QED  BY <1>1, <1>2, <1>3, <1>4, JobStepFrame DEF NoRunOf

LEMMA UploadStepKeeps ==
    ASSUME IInv, NEW k \in Keys, UploadStep(k)
    PROVE  IInv'
<1> USE DEF UploadStep, Set, user, threads
<1>0. JobType /\ ServiceType /\ KeyInv(k) /\ upload[k] # "none"
  BY TypeParts DEF IInv, UploadReceived, UploadStored, UploadQueued, UploadSubmit, UploadFails
<1>1. UNCHANGED <<files, user, active, worker, stopping, restarts>>
  BY DEF UploadReceived, UploadStored, UploadQueued, UploadSubmit, UploadFails
<1>2. /\ pool[k] = 0 /\ NoRunOf(k) /\ NoRunOf(k)' /\ files[k] = 0 /\ ~stopping
      /\ state[k] \in {"uploading", "queued"} \/ UserCancelled(k)
  BY <1>0, <1>1 DEF KeyInv, NoRunOf, K
<1>3. CASE UploadReceived(k)
  <2>1. JobType'
    BY <1>0, <1>3 DEF JobType, UploadPoints, UploadReceived
  <2>2. \A j \in Keys \ {k} : Same(j)
    BY <1>0, <1>3 DEF Same, SameJob, JobType, UploadReceived
  <2>3. KeyInv(k)'
    BY <1>0, <1>1, <1>2, <1>3 DEF KeyInv, JobType, UploadReceived, UserCancelled
  <2> QED  BY <1>0, <1>1, <1>2, <2>1, <2>2, <2>3, TypePartsAfter, JobStepFrame DEF ServiceType, NoRunOf
<1>4. CASE UploadStored(k)
  <2>1. JobType'
    BY <1>0, <1>4 DEF JobType, UploadPoints, UploadStored
  <2>2. \A j \in Keys \ {k} : Same(j)
    BY <1>0, <1>4 DEF Same, SameJob, JobType, UploadStored
  <2>3. KeyInv(k)'
    BY <1>0, <1>1, <1>2, <1>4 DEF KeyInv, JobType, UploadStored, UserCancelled
  <2> QED  BY <1>0, <1>1, <1>2, <2>1, <2>2, <2>3, TypePartsAfter, JobStepFrame DEF ServiceType, NoRunOf
<1>5. CASE UploadQueued(k)
  <2>1. JobType'
    BY <1>0, <1>5 DEF JobType, States, UploadPoints, UploadQueued
  <2>2. \A j \in Keys \ {k} : Same(j)
    BY <1>0, <1>5 DEF Same, SameJob, JobType, UploadQueued
  <2>3. KeyInv(k)'
    BY <1>0, <1>1, <1>2, <1>5 DEF KeyInv, JobType, UploadQueued
  <2> QED  BY <1>0, <1>1, <1>2, <2>1, <2>2, <2>3, TypePartsAfter, JobStepFrame DEF ServiceType, NoRunOf
<1>6. CASE UploadSubmit(k)
  <2>1. JobType'
    BY <1>0, <1>6 DEF JobType, UploadPoints, UploadSubmit
  <2>2. \A j \in Keys \ {k} : Same(j)
    BY <1>0, <1>6 DEF Same, SameJob, JobType, UploadSubmit
  <2>3. KeyInv(k)'
    BY <1>0, <1>1, <1>2, <1>6 DEF KeyInv, JobType, UploadSubmit, UserCancelled
  <2> QED  BY <1>0, <1>1, <1>2, <2>1, <2>2, <2>3, TypePartsAfter, JobStepFrame DEF ServiceType, NoRunOf
<1>7. CASE UploadFails(k)
  <2>1. JobType'
    BY <1>0, <1>7 DEF JobType, States, UploadPoints, UploadFails
  <2>2. \A j \in Keys \ {k} : Same(j)
    BY <1>0, <1>7 DEF Same, SameJob, JobType, UploadFails
  <2>3. KeyInv(k)'
    BY <1>0, <1>1, <1>2, <1>7 DEF KeyInv, JobType, UploadFails
  <2> QED  BY <1>0, <1>1, <1>2, <2>1, <2>2, <2>3, TypePartsAfter, JobStepFrame DEF ServiceType, NoRunOf
<1> QED  BY <1>3, <1>4, <1>5, <1>6, <1>7

(* A cancellation may come at any point of a run.                          *)
LEMMA CancelKeeps ==
    ASSUME IInv, NEW k \in Keys, Cancel(k)
    PROVE  IInv'
<1> USE DEF Cancel, Set, threads
<1>0. JobType /\ ServiceType /\ KeyInv(k)
  BY TypeParts DEF IInv
<1>1. TypeOK'
  <2>1. JobType'
    BY <1>0 DEF JobType, States
  <2> QED  BY <1>0, <2>1, TypePartsAfter DEF ServiceType
<1>2. \A j \in Keys \ {k} : Same(j)
  BY <1>0 DEF Same, SameJob, JobType
<1>3. state'[k] = "cancelled" /\ asked'[k] /\ UserCancelled(k)'
  BY <1>0 DEF JobType, UserCancelled
<1>4. KeyInv(k)'
  BY <1>0, <1>3 DEF KeyInv, NoRunOf, K
<1>5. ASSUME NEW w \in Workers, K(w) = k
      PROVE  RunInv(w)'
  BY <1>3, <1>5 DEF IInv, RunInv, K, At
<1> QED  BY <1>1, <1>2, <1>4, <1>5, JobStepFrame

LEMMA ExpireKeeps ==
    ASSUME IInv, NEW k \in Keys, Expire(k)
    PROVE  IInv'
<1> USE DEF Expire, Set, threads
<1>0. JobType /\ ServiceType /\ KeyInv(k)
  BY TypeParts DEF IInv
<1>1. TypeOK'
  <2>1. JobType'
    BY <1>0 DEF JobType, States
  <2> QED  BY <1>0, <2>1, TypePartsAfter DEF ServiceType
<1>2. \A j \in Keys \ {k} : Same(j)
  BY <1>0 DEF Same, SameJob, JobType
<1>3. NoRunOf(k)
  <2>1. ASSUME NEW w \in Workers, K(w) = k
        PROVE  FALSE
    BY <2>1, RunHasKey, EncoderAssumption DEF IInv, RunInv
  <2> QED  BY <2>1 DEF NoRunOf
<1>4. KeyInv(k)'
  <2>1. state'[k] = "none" /\ files'[k] = 0 /\ ~stop'[k]
    BY <1>0 DEF JobType
  <2> QED  BY <1>0, <1>3, <2>1 DEF KeyInv, NoRunOf, K
<1> QED  BY <1>1, <1>2, <1>3, <1>4, JobStepFrame DEF NoRunOf

-----------------------------------------------------------------------------
(* Runs.                                                                   *)

LEMMA RunFacts ==
    ASSUME IInv, NEW w \in Workers, ~At(w, "idle")
    PROVE  /\ K(w) \in Keys /\ K(w) \in active
           /\ pool[K(w)] = 0 /\ upload[K(w)] = "none" /\ state[K(w)] # "waiting"
           /\ \A v \in Workers \ {w} : K(v) # K(w)
<1>1. K(w) \in Keys /\ K(w) # None
  BY RunHasKey, EncoderAssumption
<1>2. KeyInv(K(w)) /\ ~NoRunOf(K(w)) /\ pool[K(w)] \in Nat
  BY <1>1 DEF IInv, NoRunOf, TypeOK
<1> QED  BY <1>1, <1>2 DEF IInv, RunInv, OneRunEach, KeyInv

LEMMA GotoFacts ==
    ASSUME ServiceType, NEW w \in Workers, NEW p \in RunPoints, Goto(w, p)
    PROVE  /\ worker' \in [Workers -> Runs]
           /\ worker'[w].at = p /\ worker'[w].key = worker[w].key
           /\ worker'[w].done = worker[w].done
           /\ \A v \in Workers \ {w} : worker'[v] = worker[v]
<1>1. worker[w] \in Runs /\ worker \in [Workers -> Runs]
  BY DEF ServiceType
<1>2. worker' = [worker EXCEPT ![w] = [worker[w] EXCEPT !.at = p]]
  BY <1>1 DEF Goto
<1>3. [worker[w] EXCEPT !.at = p] \in Runs
  BY <1>1 DEF Runs
<1>4. worker'[w] = [worker[w] EXCEPT !.at = p]
  BY <1>1, <1>2
<1>5. worker' \in [Workers -> Runs]
  BY <1>1, <1>2, <1>3
<1>6. /\ worker'[w].at = p /\ worker'[w].key = worker[w].key
      /\ worker'[w].done = worker[w].done
  BY <1>1, <1>4 DEF Runs
<1> QED  BY <1>1, <1>2, <1>5, <1>6

(* A step of a run from one point to another; what it makes of its export  *)
(* is left to each step.                                                   *)
LEMMA RunGoes ==
    ASSUME IInv, NEW w \in Workers, NEW k \in Keys, k = K(w), ~At(w, "idle"),
           NEW p \in RunPoints \ {"idle"}, Goto(w, p),
           JobType', UNCHANGED <<stop, asked, pool, active, upload, stopping, restarts>>,
           \A j \in Keys \ {k} : SameJob(j),
           state'[k] # "waiting", state'[k] = "none" => files'[k] = 0,
           state'[k] = "completed" => files'[k] = parts[k],
           Recover /\ state'[k] \in {"queued", "running"} /\ ~asked[k] => source'[k],
           (K(w)' = k /\ At(w, p)' /\ worker'[w].done = worker[w].done) => RunInv(w)'
    PROVE  IInv'
<1>0. JobType /\ ServiceType /\ KeyInv(k)
  BY TypeParts DEF IInv
<1>1. /\ worker' \in [Workers -> Runs]
      /\ worker'[w].at = p /\ worker'[w].key = worker[w].key
      /\ worker'[w].done = worker[w].done
      /\ \A v \in Workers \ {w} : worker'[v] = worker[v]
  BY <1>0, GotoFacts
<1>2. TypeOK'
  BY <1>0, <1>1, TypePartsAfter DEF ServiceType
<1>3. /\ pool[k] = 0 /\ upload[k] = "none"
      /\ \A v \in Workers \ {w} : K(v) # k
  BY RunFacts
<1>4. KeyInv(k)'
  BY <1>0, <1>3 DEF KeyInv
<1>5. RunInv(w)' /\ K(w)' = k
  BY <1>1 DEF K, At
<1>6. \A j \in Keys \ {k} : Same(j)
  BY DEF Same
<1> QED  BY <1>1, <1>2, <1>3, <1>4, <1>5, <1>6, RunStepFrame

LEMMA EnterKeeps ==
    ASSUME IInv, NEW w \in Workers, NEW k \in Keys, Enter(w, k)
    PROVE  IInv'
<1> USE DEF Enter, user
<1>0. JobType /\ ServiceType /\ KeyInv(k)
  BY TypeParts DEF IInv
<1>1. pool[k] = 1 /\ NoRunOf(k) /\ upload[k] = "none"
  BY <1>0 DEF KeyInv, JobType
<1>2. worker' = [worker EXCEPT ![w] = [at |-> "entered", key |-> k, done |-> 0]]
  OBVIOUS
<1>3. [at |-> "entered", key |-> k, done |-> 0] \in Runs
  BY DEF Runs, RunPoints
<1>4. worker'[w] = [at |-> "entered", key |-> k, done |-> 0]
  BY <1>0 DEF ServiceType
<1>5. TypeOK'
  <2>1. JobType'
    BY <1>0, <1>1 DEF JobType
  <2>2. ServiceType'
    BY <1>0, <1>2, <1>3 DEF ServiceType
  <2> QED  BY <2>1, <2>2, TypePartsAfter
<1>6. \A j \in Keys \ {k} : Same(j)
  BY <1>0 DEF Same, SameJob, JobType
<1>7. pool'[k] = 0
  BY <1>0, <1>1 DEF JobType
<1>8. KeyInv(k)'
  BY <1>0, <1>1, <1>7 DEF KeyInv
<1>9. RunInv(w)'
  <2>1. K(w)' = k /\ worker'[w].at = "entered" /\ worker'[w].done = 0 /\ k # None /\ k \in active'
    BY <1>4, EncoderAssumption DEF K
  <2>2. /\ files'[k] = 0 /\ (state'[k] \in {"none", "queued"} \/ UserCancelled(k)')
        /\ state'[k] # "none" => source'[k]
    BY <1>0, <1>1 DEF KeyInv, UserCancelled
  <2> QED  BY <2>1, <2>2 DEF RunInv, At, UserCancelled, K
<1>10. \A v \in Workers \ {w} : worker'[v] = worker[v] /\ K(v) # k
  BY <1>0, <1>1, <1>2 DEF ServiceType, NoRunOf
<1>11. K(w) = None /\ K(w)' = k
  BY <1>4, RunHasKey DEF K
<1> QED  BY <1>5, <1>6, <1>8, <1>9, <1>10, <1>11, RunStepFrame

LEMMA LeaveKeeps ==
    ASSUME IInv, NEW w \in Workers, NEW k \in Keys, k = K(w), ~At(w, "idle"), Leave(w)
    PROVE  IInv'
<1> USE DEF Leave, user
<1>0. JobType /\ ServiceType /\ KeyInv(k)
  BY TypeParts DEF IInv
<1>1. /\ pool[k] = 0 /\ upload[k] = "none" /\ state[k] # "waiting"
      /\ \A v \in Workers \ {w} : K(v) # k
  BY RunFacts
<1>2. worker'[w] = NoRun /\ \A v \in Workers \ {w} : worker'[v] = worker[v]
  BY <1>0 DEF ServiceType
<1>3. TypeOK'
  <2>1. NoRun \in Runs
    BY DEF NoRun, Runs, RunPoints
  <2>2. ServiceType'
    BY <1>0, <2>1 DEF ServiceType
  <2> QED  BY <1>0, <2>2, TypePartsAfter DEF JobType
<1>4. KeyInv(k)'
  BY <1>0, <1>1 DEF KeyInv, UserCancelled
<1>5. K(w)' = None /\ RunInv(w)'
  BY <1>2 DEF RunInv, At, K, NoRun
<1>6. \A j \in Keys \ {k} : Same(j)
  BY DEF Same, SameJob
<1> QED  BY <1>1, <1>2, <1>3, <1>4, <1>5, <1>6, RunStepFrame

(* The steps that only look at the state of the job.                       *)
LEMMA CheckKeeps ==
    ASSUME IInv, NEW w \in Workers, NEW k \in Keys, k = K(w), ~At(w, "idle"), Check(w)
    PROVE  IInv'
<1>0. JobType /\ KeyInv(k) /\ RunInv(w) /\ At(w, "entered")
  BY TypeParts DEF IInv, Check
<1>1. /\ files[k] = 0 /\ worker[w].done = 0
      /\ state[k] \in {"none", "queued"} \/ UserCancelled(k)
      /\ state[k] # "none" => source[k]
  BY <1>0 DEF RunInv
<1>2. UNCHANGED <<state, files, source, stop, asked, pool, active, upload, stopping, restarts>>
  BY DEF Check, user
<1>3. JobType' /\ \A j \in Keys \ {k} : SameJob(j)
  BY <1>0, <1>2 DEF JobType, SameJob
<1>4. state[k] # "waiting" /\ K(w) \in active
  BY RunFacts
<1>5. CASE state[k] = "none" /\ Goto(w, "ending")
  <2>1. "ending" \in RunPoints \ {"idle"}
    BY DEF RunPoints
  <2>2. K(w)' = k /\ At(w, "ending")' => RunInv(w)'
    BY <1>2, <1>4, EncoderAssumption DEF RunInv, At
  <2> QED  BY <1>0, <1>1, <1>2, <1>3, <1>4, <1>5, <2>1, <2>2, RunGoes
<1>6. CASE state[k] # "none" /\ stop[k] /\ Goto(w, "finally")
  <2>1. "finally" \in RunPoints \ {"idle"}
    BY DEF RunPoints
  <2>2. stopping \/ asked[k]
    BY <1>0, <1>6 DEF KeyInv
  <2>3. K(w)' = k /\ At(w, "finally")' => RunInv(w)'
    BY <1>1, <1>2, <1>4, <1>6, <2>2, EncoderAssumption DEF RunInv, At
  <2> QED  BY <1>0, <1>1, <1>2, <1>3, <1>4, <1>6, <2>1, <2>3, RunGoes DEF UserCancelled
<1>7. CASE state[k] # "none" /\ Goto(w, "checked")
  <2>1. "checked" \in RunPoints \ {"idle"}
    BY DEF RunPoints
  <2>2. K(w)' = k /\ At(w, "checked")' /\ worker'[w].done = worker[w].done => RunInv(w)'
    BY <1>1, <1>2, <1>4, <1>7, EncoderAssumption DEF RunInv, At, UserCancelled
  <2> QED  BY <1>0, <1>1, <1>2, <1>3, <1>4, <1>7, <2>1, <2>2, RunGoes DEF UserCancelled
<1> QED  BY <1>5, <1>6, <1>7 DEF Check

LEMMA BeginKeeps ==
    ASSUME IInv, NEW w \in Workers, NEW k \in Keys, k = K(w), ~At(w, "idle"), Begin(w)
    PROVE  IInv'
<1>0. JobType /\ RunInv(w) /\ At(w, "checked")
  BY TypeParts DEF IInv, Begin
<1>1. /\ files[k] = 0 /\ worker[w].done = 0 /\ source[k]
  BY <1>0 DEF RunInv
<1>2. /\ UNCHANGED <<files, source, stop, asked, pool, active, upload, stopping, restarts>>
      /\ state' = [state EXCEPT ![k] = "running"] /\ Goto(w, "working")
  BY DEF Begin, user, Set
<1>3. /\ JobType' /\ \A j \in Keys \ {k} : SameJob(j)
      /\ state'[k] = "running"
  BY <1>0, <1>2 DEF JobType, SameJob, States
<1>4. K(w) \in active
  BY RunFacts
<1>5. "working" \in RunPoints \ {"idle"}
  BY DEF RunPoints
<1>6. K(w)' = k /\ At(w, "working")' /\ worker'[w].done = worker[w].done => RunInv(w)'
  BY <1>1, <1>2, <1>3, <1>4, EncoderAssumption DEF RunInv, At
<1> QED  BY <1>1, <1>2, <1>3, <1>5, <1>6, RunGoes

LEMMA ClipKeeps ==
    ASSUME IInv, NEW w \in Workers, NEW k \in Keys, k = K(w), ~At(w, "idle"), Clip(w)
    PROVE  IInv'
<1>0. JobType /\ ServiceType /\ KeyInv(k) /\ RunInv(w) /\ At(w, "working")
  BY TypeParts DEF IInv, Clip
<1>1. /\ files[k] = worker[w].done /\ source[k]
      /\ state[k] = "running" \/ UserCancelled(k)
  BY <1>0 DEF RunInv, At
<1>2. /\ UNCHANGED <<state, source, stop, asked, pool, active, upload, stopping, restarts>>
      /\ files' = [files EXCEPT ![k] = @ + 1]
      /\ worker' = [worker EXCEPT ![w].done = @ + 1]
  BY DEF Clip, user
<1>3. worker[w] \in Runs
  BY <1>0 DEF ServiceType
<1>4. [worker[w] EXCEPT !.done = @ + 1] \in Runs
  BY <1>3 DEF Runs
<1>5. worker' \in [Workers -> Runs]
  BY <1>0, <1>2, <1>4 DEF ServiceType
<1>6. worker'[w] = [worker[w] EXCEPT !.done = @ + 1]
  BY <1>0, <1>2 DEF ServiceType
<1>7. /\ worker'[w].at = "working" /\ worker'[w].key = k
      /\ worker'[w].done = worker[w].done + 1
  BY <1>0, <1>3, <1>6 DEF Runs, At, K
<1>8. JobType' /\ files'[k] = files[k] + 1 /\ \A j \in Keys \ {k} : Same(j)
  BY <1>0, <1>2 DEF JobType, Same, SameJob
<1>9. TypeOK'
  BY <1>0, <1>2, <1>5, <1>8, TypePartsAfter DEF ServiceType
<1>10. /\ pool[k] = 0 /\ upload[k] = "none" /\ state[k] # "waiting" /\ K(w) \in active
       /\ \A v \in Workers \ {w} : K(v) # k
  BY RunFacts
<1>11. KeyInv(k)'
  BY <1>0, <1>1, <1>2, <1>10 DEF KeyInv, UserCancelled
<1>12. K(w)' = k /\ RunInv(w)'
  BY <1>1, <1>2, <1>7, <1>8, <1>10, EncoderAssumption DEF RunInv, At, K, UserCancelled
<1>13. \A v \in Workers \ {w} : worker'[v] = worker[v]
  BY <1>0, <1>2 DEF ServiceType
<1> QED  BY <1>2, <1>8, <1>9, <1>10, <1>11, <1>12, <1>13, RunStepFrame

LEMMA RaiseKeeps ==
    ASSUME IInv, NEW w \in Workers, NEW k \in Keys, k = K(w), ~At(w, "idle"),
           Raise(w) \/ Excepted(w)
    PROVE  IInv'
<1>0. JobType /\ KeyInv(k) /\ RunInv(w) /\ worker[w].at \in {"working", "excepting"}
  BY TypeParts DEF IInv, Raise, Excepted, At
<1>1. /\ files[k] = worker[w].done /\ source[k]
      /\ state[k] = "running" \/ UserCancelled(k)
  BY <1>0 DEF RunInv
<1>2. UNCHANGED <<state, files, source, stop, asked, pool, active, upload, stopping, restarts>>
  BY DEF Raise, Excepted, user
<1>3. JobType' /\ \A j \in Keys \ {k} : SameJob(j)
  BY <1>0, <1>2 DEF JobType, SameJob
<1>4. K(w) \in active
  BY RunFacts
<1>5. \/ Goto(w, "excepting") \/ Goto(w, "failing")
      \/ Goto(w, "requeuing") /\ stopping
  BY DEF Raise, Excepted
<1>6. /\ "excepting" \in RunPoints \ {"idle"} /\ "failing" \in RunPoints \ {"idle"}
      /\ "requeuing" \in RunPoints \ {"idle"}
  BY DEF RunPoints
<1>7. ASSUME NEW p \in {"excepting", "failing", "requeuing"}, p = "requeuing" => stopping,
             K(w)' = k, At(w, p)', worker'[w].done = worker[w].done
      PROVE  RunInv(w)'
  BY <1>1, <1>2, <1>4, <1>7, EncoderAssumption DEF RunInv, At, UserCancelled
<1> QED  BY <1>1, <1>2, <1>3, <1>5, <1>6, <1>7, RunGoes DEF UserCancelled

(* Complete, Requeue and Fail decide what becomes of the job.              *)
LEMMA DecideKeeps ==
    ASSUME IInv, NEW w \in Workers, NEW k \in Keys, k = K(w), ~At(w, "idle"),
           Complete(w) \/ Requeue(w) \/ Fail(w)
    PROVE  IInv'
<1>0. JobType /\ KeyInv(k) /\ RunInv(w) /\ worker[w].at \in {"working", "requeuing", "failing"}
  BY TypeParts DEF IInv, Complete, Requeue, Fail, At
<1>1. files[k] = worker[w].done /\ source[k] /\ (At(w, "requeuing") => stopping)
  BY <1>0 DEF RunInv
<1>2. UNCHANGED <<files, source, stop, asked, pool, active, upload, stopping, restarts>>
  BY DEF Complete, Requeue, Fail, user
<1>3. PICK s \in {"completed", "queued", "failed", "cancelled"} : state' = [state EXCEPT ![k] = s]
  BY DEF Complete, Requeue, Fail, Set
<1>4. Goto(w, "finally") /\ "finally" \in RunPoints \ {"idle"}
  BY DEF Complete, Requeue, Fail, RunPoints
<1>5. JobType' /\ state'[k] = s /\ \A j \in Keys \ {k} : SameJob(j)
  BY <1>0, <1>2, <1>3 DEF JobType, SameJob, States
<1>6. s = "completed" => files[k] = parts[k]
  BY <1>0, <1>1, <1>5 DEF Complete, Requeue, Fail, Set, JobType
<1>7. s = "queued" => stopping
  BY <1>0, <1>1, <1>5 DEF Complete, Requeue, Fail, Set, JobType
<1>8. K(w) \in active
  BY RunFacts
<1>9. K(w)' = k /\ At(w, "finally")' => RunInv(w)'
  BY <1>1, <1>2, <1>5, <1>7, <1>8, EncoderAssumption DEF RunInv, At
<1> QED  BY <1>1, <1>2, <1>4, <1>5, <1>6, <1>9, RunGoes

(* The source goes only when nobody needs it any more.                     *)
LEMMA FinallyKeeps ==
    ASSUME IInv, NEW w \in Workers, NEW k \in Keys, k = K(w), ~At(w, "idle"), Finally(w)
    PROVE  IInv'
<1>0. JobType /\ KeyInv(k) /\ RunInv(w) /\ At(w, "finally")
  BY TypeParts DEF IInv, Finally
<1>1. /\ state[k] \notin {"none", "waiting"} /\ source[k]
      /\ state[k] \in {"queued", "running"} => stopping \/ asked[k]
  BY <1>0 DEF RunInv
<1>2. UNCHANGED <<state, files, stop, asked, pool, active, upload, stopping, restarts>>
  BY DEF Finally, user
<1>3. K(w) \in active
  BY RunFacts
<1>4. CASE KeepSource(w)
  <2>1. Goto(w, "keeping") /\ UNCHANGED source /\ "keeping" \in RunPoints \ {"idle"}
    BY <1>4 DEF Finally, RunPoints
  <2>2. JobType' /\ \A j \in Keys \ {k} : SameJob(j)
    BY <1>0, <1>2, <2>1 DEF JobType, SameJob
  <2>3. K(w)' = k /\ At(w, "keeping")' => RunInv(w)'
    BY <1>1, <1>2, <1>3, <1>4, <2>1, EncoderAssumption DEF RunInv, At, KeepSource
  <2> QED  BY <1>0, <1>1, <1>2, <2>1, <2>2, <2>3, RunGoes DEF KeyInv
<1>5. CASE ~KeepSource(w)
  <2>1. /\ Goto(w, "ending") /\ source' = [source EXCEPT ![k] = FALSE]
        /\ "ending" \in RunPoints \ {"idle"}
    BY <1>5 DEF Finally, RunPoints
  <2>2. JobType' /\ \A j \in Keys \ {k} : SameJob(j)
    BY <1>0, <1>2, <2>1 DEF JobType, SameJob
  <2>3. ~(Recover /\ state[k] \in {"queued", "running"} /\ ~asked[k])
    BY <1>1, <1>5 DEF KeepSource
  <2>4. K(w)' = k /\ At(w, "ending")' => RunInv(w)'
    BY <1>2, <1>3, EncoderAssumption DEF RunInv, At
  <2> QED  BY <1>0, <1>1, <1>2, <2>1, <2>2, <2>3, <2>4, RunGoes DEF KeyInv
<1> QED  BY <1>4, <1>5

LEMMA KeepKeeps ==
    ASSUME IInv, NEW w \in Workers, NEW k \in Keys, k = K(w), ~At(w, "idle"), Keep(w)
    PROVE  IInv'
<1>0. JobType /\ RunInv(w) /\ At(w, "keeping")
  BY TypeParts DEF IInv, Keep
<1>1. source[k]
  BY <1>0 DEF RunInv
<1>2. /\ UNCHANGED <<files, source, stop, asked, pool, active, upload, stopping, restarts>>
      /\ state' = [state EXCEPT ![k] = "queued"]
      /\ Goto(w, "ending") /\ "ending" \in RunPoints \ {"idle"}
  BY DEF Keep, user, Set, RunPoints
<1>3. JobType' /\ state'[k] = "queued" /\ \A j \in Keys \ {k} : SameJob(j)
  BY <1>0, <1>2 DEF JobType, SameJob, States
<1>4. K(w) \in active
  BY RunFacts
<1>5. K(w)' = k /\ At(w, "ending")' => RunInv(w)'
  BY <1>2, <1>4, EncoderAssumption DEF RunInv, At
<1> QED  BY <1>1, <1>2, <1>3, <1>5, RunGoes

LEMMA RunStepKeeps ==
    ASSUME IInv, NEW w \in Workers, RunStep(w)
    PROVE  IInv'
<1>1. ~At(w, "idle")
  BY DEF RunStep, Check, Begin, Clip, Raise, Complete, Excepted, Requeue, Fail, Finally, Keep,
         Leave, At
<1>2. PICK k \in Keys : k = K(w)
  BY <1>1, RunFacts
<1> QED  BY <1>1, <1>2, CheckKeeps, BeginKeeps, ClipKeeps, RaiseKeeps, DecideKeeps, FinallyKeeps,
            KeepKeeps, LeaveKeeps DEF RunStep

-----------------------------------------------------------------------------
(* Stops, crashes and starts.                                              *)

LEMMA ShutdownKeeps ==
    ASSUME IInv, Shutdown
    PROVE  IInv'
<1> USE DEF Shutdown, threads
<1>0. JobType /\ ServiceType
  BY TypeParts DEF IInv
<1>1. TypeOK'
  <2>1. JobType'
    BY <1>0 DEF JobType, UploadPoints
  <2>2. ServiceType'
    BY <1>0 DEF ServiceType
  <2> QED  BY <2>1, <2>2, TypePartsAfter
<1>2. ASSUME NEW k \in Keys
      PROVE  KeyInv(k)'
  <2>1. NoRunOf(k)' <=> NoRunOf(k)
    BY DEF NoRunOf, K
  <2>2. KeyInv(k) /\ upload'[k] = "none" /\ stopping'
    BY DEF IInv
  <2> QED  BY <2>1, <2>2 DEF KeyInv, UserCancelled
<1>3. ASSUME NEW w \in Workers
      PROVE  RunInv(w)'
  BY DEF IInv, RunInv, K, At, UserCancelled
<1>4. OneRunEach'
  BY DEF IInv, OneRunEach, K
<1> QED  BY <1>1, <1>2, <1>3, <1>4 DEF IInv

LEMMA StartKeeps ==
    ASSUME IInv, Start, restarts' \in Nat
    PROVE  IInv'
<1> USE DEF Start
<1>0. JobType /\ ServiceType
  BY TypeParts DEF IInv
<1>1. TypeOK'
  <2>1. JobType'
    BY <1>0 DEF JobType, UploadPoints, States
  <2>2. ServiceType'
    BY <1>0 DEF ServiceType, NoRun, Runs, RunPoints
  <2> QED  BY <2>1, <2>2, TypePartsAfter
<1>2. \A w \in Workers : K(w)' = None /\ At(w, "idle")' /\ RunInv(w)'
  BY DEF RunInv, K, At, NoRun
<1>3. ASSUME NEW k \in Keys
      PROVE  KeyInv(k)'
  <2>1. NoRunOf(k)' /\ KeyInv(k)
    BY <1>2, EncoderAssumption DEF NoRunOf, IInv
  <2>2. /\ state'[k] = IF Recoverable(k) THEN "queued"
                       ELSE IF Unfinished(k) THEN "failed" ELSE state[k]
        /\ files'[k] = IF Recoverable(k) THEN 0 ELSE files[k]
        /\ source'[k] = (source[k] /\ (Unfinished(k) => Recoverable(k)))
        /\ pool'[k] = IF Recoverable(k) THEN 1 ELSE 0
        /\ ~stop'[k] /\ upload'[k] = "none"
    OBVIOUS
  <2>3. CASE Recoverable(k)
    <3>1. state'[k] = "queued" /\ files'[k] = 0 /\ source'[k] /\ pool'[k] = 1
      BY <2>2, <2>3 DEF Recoverable
    <3> QED  BY <2>1, <2>2, <3>1 DEF KeyInv
  <2>4. CASE ~Recoverable(k)
    <3>1. /\ pool'[k] = 0 /\ files'[k] = files[k] /\ asked' = asked
          /\ state'[k] = IF Unfinished(k) THEN "failed" ELSE state[k]
          /\ state'[k] \notin {"waiting", "queued", "running"}
      BY <2>2, <2>4 DEF Unfinished
    <3> QED  BY <2>1, <2>2, <3>1 DEF KeyInv
  <2> QED  BY <2>3, <2>4
<1>4. OneRunEach'
  BY <1>2 DEF OneRunEach
<1> QED  BY <1>1, <1>2, <1>3, <1>4 DEF IInv

LEMMA InitIsSound == Init => IInv
<1> SUFFICES ASSUME Init PROVE IInv
  OBVIOUS
<1> USE DEF Init
<1>1. TypeOK
  BY DEF TypeOK, States, UploadPoints, NoRun, Runs, RunPoints
<1>2. \A w \in Workers : K(w) = None /\ RunInv(w)
  BY DEF RunInv, K, At, NoRun
<1>3. \A k \in Keys : KeyInv(k)
  BY <1>2, EncoderAssumption DEF KeyInv, NoRunOf
<1>4. OneRunEach
  BY <1>2 DEF OneRunEach
<1> QED  BY <1>1, <1>2, <1>3, <1>4 DEF IInv

(* Every step keeps the invariant; the limit of Create plays no part.      *)
LEMMA StepKeeps ==
    IInv /\ [Next]_vars => IInv'
<1> SUFFICES ASSUME IInv, [Next]_vars PROVE IInv'
  OBVIOUS
<1>1. CASE Crash \/ Boot
  BY <1>1, StartKeeps DEF Crash, Boot, IInv, TypeOK
<1>2. ASSUME NEW k \in Keys, Create(k) \/ UploadStart(k) \/ UploadStep(k) \/ Cancel(k) \/ Expire(k)
      PROVE  IInv'
  BY <1>2, RegisterKeeps, UploadStartKeeps, UploadStepKeeps, CancelKeeps, ExpireKeeps DEF Create
<1>3. ASSUME NEW w \in Workers, RunStep(w) \/ \E k \in Keys : Enter(w, k)
      PROVE  IInv'
  BY <1>3, RunStepKeeps, EnterKeeps
<1>4. CASE UNCHANGED vars
  <2> USE <1>4 DEF vars
  <2>1. TypeOK' /\ OneRunEach' /\ \A k \in Keys : KeyInv(k)'
    BY DEF IInv, TypeOK, OneRunEach, KeyInv, K, NoRunOf, UserCancelled
  <2>2. \A w \in Workers : RunInv(w)'
    BY DEF IInv, RunInv, K, At, UserCancelled
  <2> QED  BY <2>1, <2>2 DEF IInv
<1> QED  BY <1>1, <1>2, <1>3, <1>4, ShutdownKeeps DEF Next

LEMMA Invariance == Spec => []IInv
BY InitIsSound, StepKeeps, PTL DEF Spec

-----------------------------------------------------------------------------
(* Theorems.                                                               *)

(* Every variable of the service stays in its type, for any number of      *)
(* exports, workers and restarts.                                          *)
THEOREM WellTyped == Spec => []TypeOK
<1>1. IInv => TypeOK
  BY DEF IInv
<1> QED  BY <1>1, Invariance, PTL

(* Manager.run is never entered twice for one export, nor submitted while  *)
(* it runs: neither uploads, source cache hits and cancellations nor       *)
(* recoveries in any order bring it about.                                 *)
THEOREM JobsRunOnce == Spec => []RunsOnce
<1>1. IInv => RunsOnce
  <2>1. SUFFICES ASSUME IInv, NEW k \in Keys
                 PROVE  pool[k] + Cardinality({w \in Workers : K(w) = k}) <= 1
    BY DEF RunsOnce
  <2>2. pool[k] \in Nat /\ pool[k] <= 1 /\ (pool[k] = 1 => NoRunOf(k))
    BY <2>1 DEF IInv, TypeOK, KeyInv
  <2>3. CASE NoRunOf(k)
    <3>1. {w \in Workers : K(w) = k} = {}
      BY <2>3 DEF NoRunOf
    <3> QED  BY <2>2, <3>1, FS_EmptySet
  <2>4. CASE ~NoRunOf(k)
    <3>1. PICK w \in Workers : K(w) = k
      BY <2>4 DEF NoRunOf
    <3>2. {v \in Workers : K(v) = k} = {w}
      BY <2>1, <3>1, EncoderAssumption DEF IInv, OneRunEach
    <3>3. Cardinality({w}) = 1
      BY FS_Singleton
    <3> QED  BY <2>2, <2>4, <3>2, <3>3
  <2> QED  BY <2>3, <2>4
<1> QED  BY <1>1, Invariance, PTL

(* With recovery switched on, a crash at any moment finds the source of    *)
(* every job that is queued or running: neither a failing upload nor the   *)
(* end of a run removes what a restart would need.                         *)
THEOREM SourcesAreKept == Spec => []SourceIsThere
<1>1. IInv => SourceIsThere
  BY DEF IInv, KeyInv, SourceIsThere
<1> QED  BY <1>1, Invariance, PTL

(* A completed export lists each of its clips once, also when its run was  *)
(* the second, after a restart in the midst of the first.                  *)
THEOREM CompletedJobsAreWhole == Spec => []CompletedIsWhole
<1>1. IInv => CompletedIsWhole
  BY DEF IInv, KeyInv, CompletedIsWhole
<1> QED  BY <1>1, Invariance, PTL

-----------------------------------------------------------------------------
(* The limit of Create.                                                    *)

Counts(k) == Unfinished(k) /\ ~asked[k]

(* A step that neither creates nor cancels export k.                       *)
NextBut(k) ==
    \/ Shutdown \/ Crash \/ Boot
    \/ \E j \in Keys \ {k} : Create(j) \/ Cancel(j)
    \/ \E j \in Keys : UploadStart(j) \/ UploadStep(j) \/ Expire(j)
    \/ \E w \in Workers : RunStep(w) \/ \E j \in Keys : Enter(w, j)

LEMMA CreateOrBut ==
    ASSUME Next, NEW k \in Keys
    PROVE  Create(k) \/ Cancel(k) \/ NextBut(k)
BY DEF Next, NextBut

(* Only Create makes an export count: whoever overwrites a state finds one *)
(* that counted, or a cancellation by the user.                            *)
LEMMA OnlyCreateCounts ==
    ASSUME IInv, NEW k \in Keys, NextBut(k) \/ Cancel(k) \/ UNCHANGED vars, Counts(k)'
    PROVE  Counts(k)
<1>0. JobType
  BY TypeParts DEF IInv
<1> USE DEF Counts, Unfinished
<1>1. CASE Shutdown \/ UNCHANGED vars
  BY <1>1 DEF Shutdown, vars
<1>2. CASE Crash \/ Boot
  <2>1. /\ asked' = asked
        /\ state'[k] = IF Recoverable(k) THEN "queued"
                       ELSE IF Unfinished(k) THEN "failed" ELSE state[k]
    BY <1>2 DEF Crash, Boot, Start
  <2> QED  BY <2>1 DEF Recoverable
<1>3. ASSUME NEW j \in Keys \ {k}, Create(j)
      PROVE  Counts(k)
  BY <1>0, <1>3 DEF Create, Register, Set, JobType, user
<1>4. ASSUME NEW j \in Keys, UploadStart(j) \/ Cancel(j) \/ Expire(j)
      PROVE  Counts(k)
  BY <1>0, <1>4 DEF UploadStart, Cancel, Expire, Set, JobType, user
<1>5. ASSUME NEW j \in Keys, UploadStep(j)
      PROVE  Counts(k)
  <2>1. upload[j] # "none" /\ KeyInv(j) /\ asked' = asked
    BY <1>5 DEF IInv, UploadStep, UploadReceived, UploadStored, UploadQueued, UploadSubmit,
                UploadFails, user
  <2>2. state' = state \/ Set(j, "queued") \/ Set(j, "failed")
    BY <1>5 DEF UploadStep, UploadReceived, UploadStored, UploadQueued, UploadSubmit, UploadFails
  <2> QED  BY <1>0, <2>1, <2>2 DEF KeyInv, UserCancelled, Set, JobType
<1>6. ASSUME NEW w \in Workers, NEW j \in Keys, Enter(w, j)
      PROVE  Counts(k)
  BY <1>6 DEF Enter, user
<1>7. ASSUME NEW w \in Workers, RunStep(w)
      PROVE  Counts(k)
  <2>1. asked' = asked
    BY <1>7 DEF RunStep, Check, Begin, Clip, Raise, Complete, Excepted, Requeue, Fail, Finally,
                Keep, Leave, user
  <2>2. \/ state' = state
        \/ \E s \in {"completed", "failed", "cancelled"} : Set(K(w), s)
        \/ worker[w].at \in {"checked", "requeuing", "keeping"} /\ \E s \in States : Set(K(w), s)
    BY <1>7 DEF RunStep, Check, Begin, Clip, Raise, Complete, Excepted, Requeue, Fail, Finally,
                Keep, Leave, At, States
  <2>3. worker[w].at \in {"checked", "requeuing", "keeping"} => Counts(K(w)) \/ asked[K(w)]
    BY DEF IInv, RunInv, At, UserCancelled
  <2> QED  BY <1>0, <2>1, <2>2, <2>3 DEF Set, JobType
<1> QED  BY <1>1, <1>2, <1>3, <1>4, <1>5, <1>6, <1>7 DEF NextBut

Counting == {k \in Keys : Counts(k)}

LEMMA CountingIsFinite ==
    ASSUME NEW S \in SUBSET Keys
    PROVE  IsFiniteSet(S) /\ Cardinality(S) \in Nat
BY EncoderAssumption, FS_Subset, FS_CardinalityType

LEMMA StepKeepsLimit ==
    ASSUME IInv, [Next]_vars, Cardinality(Counting) <= MaxUnfinished
    PROVE  Cardinality(Counting') <= MaxUnfinished
<1>1. Counting \in SUBSET Keys /\ Counting' \in SUBSET Keys
  BY DEF Counting
<1>2. CASE \E k \in Keys : Create(k)
  <2>1. PICK k \in Keys : Create(k)
    BY <1>2
  <2> DEFINE Open == {o \in Keys : Unfinished(o)}
  <2>2. Cardinality(Open) < MaxUnfinished /\ Open \in SUBSET Keys
    BY <2>1 DEF Create
  <2>3. ASSUME NEW j \in Keys, Counts(j)', j # k
        PROVE  Unfinished(j)
    <3>1. state'[j] = state[j]
      BY <2>1, <2>3, TypeParts DEF IInv, Create, Register, Set, JobType
    <3> QED  BY <2>3, <3>1 DEF Counts, Unfinished
  <2>4. Counting' \subseteq Open \cup {k}
    BY <2>3 DEF Counting
  <2>5. IsFiniteSet(Open) /\ Cardinality(Open) \in Nat
    BY <2>2, CountingIsFinite
  <2> HIDE DEF Open
  <2>6. /\ IsFiniteSet(Open \cup {k})
        /\ Cardinality(Open \cup {k}) \in {Cardinality(Open), Cardinality(Open) + 1}
    BY <2>5, FS_AddElement
  <2>7. Cardinality(Counting') <= Cardinality(Open \cup {k})
    BY <2>4, <2>6, FS_Subset
  <2>8. Cardinality(Counting') \in Nat
    BY <1>1, CountingIsFinite
  <2> QED  BY <2>2, <2>5, <2>6, <2>7, <2>8, EncoderAssumption
<1>3. CASE ~\E k \in Keys : Create(k)
  <2>1. Counting' \subseteq Counting
    BY <1>3, CreateOrBut, OnlyCreateCounts DEF Counting
  <2>2. Cardinality(Counting') <= Cardinality(Counting)
    BY <1>1, <2>1, CountingIsFinite, FS_Subset
  <2>3. Cardinality(Counting) \in Nat /\ Cardinality(Counting') \in Nat
    BY <1>1, CountingIsFinite
  <2> QED  BY <2>2, <2>3, EncoderAssumption
<1> QED  BY <1>2, <1>3

(* No more than MaxUnfinished exports wait, transfer, queue or encode, but *)
(* for those whose cancellation by the user was overwritten: restarts,     *)
(* failing uploads and stopped runs add none to what Create counted.       *)
THEOREM UnfinishedIsBounded == Spec => []WorkIsBounded
<1>1. WorkIsBounded <=> Cardinality(Counting) <= MaxUnfinished
  BY DEF WorkIsBounded, Counting, Counts
<1>2. Init => Cardinality(Counting) <= MaxUnfinished
  <2>1. ASSUME Init
        PROVE  Counting = {}
    BY <2>1 DEF Init, Counting, Counts, Unfinished
  <2> QED  BY <2>1, FS_EmptySet, EncoderAssumption
<1>3. IInv /\ Cardinality(Counting) <= MaxUnfinished /\ [Next]_vars
        => (Cardinality(Counting) <= MaxUnfinished)'
  BY StepKeepsLimit
<1> QED  BY <1>1, <1>2, <1>3, Invariance, PTL DEF Spec

-----------------------------------------------------------------------------
(* A stop of the service.                                                  *)

(* A step of a run, while the service stops, costs no export its life: an  *)
(* exception becomes a return to the queue, as the job is still running.   *)
LEMMA RunStepSpares ==
    ASSUME IInv, NEW w \in Workers, RunStep(w), NEW k \in Keys,
           Recover, stopping, ~asked[k], Alive(k)
    PROVE  Alive(k)' \/ state'[k] = "completed"
<1>1. JobType /\ worker \in [Workers -> Runs] /\ RunInv(w)
  BY TypeParts DEF IInv, ServiceType
<1>2. /\ \A v \in Workers \ {w} : worker'[v] = worker[v]
      /\ worker'[w].key = worker[w].key \/ worker'[w] = NoRun
  BY <1>1 DEF RunStep, Check, Begin, Clip, Raise, Complete, Excepted, Requeue, Fail, Finally,
              Keep, Leave, Goto, NoRun, Runs
<1>3. CASE K(w) # k
  <2>1. state'[k] = state[k]
    BY <1>1, <1>3 DEF RunStep, Check, Begin, Clip, Raise, Complete, Excepted, Requeue, Fail,
                      Finally, Keep, Leave, Set, JobType
  <2> QED  BY <1>2, <1>3, <2>1, EncoderAssumption DEF Alive, At, K, NoRun
<1>4. CASE K(w) = k
  <2>1. ~At(w, "failing") /\ state[k] \in {"queued", "running"}
    BY <1>4 DEF Alive
  <2>2. state'[k] \in {"queued", "running", "completed"}
    BY <1>1, <1>4, <2>1 DEF RunStep, Check, Begin, Clip, Raise, Complete, Excepted, Requeue, Fail,
                      Finally, Keep, Leave, Set, JobType
  <2>3. worker'[w].at # "failing"
    <3>1. CASE Check(w) \/ Begin(w) \/ Raise(w) \/ Complete(w) \/ Requeue(w) \/ Finally(w) \/ Keep(w)
      <4>1. PICK p \in RunPoints \ {"failing"} : Goto(w, p)
        BY <3>1 DEF Check, Begin, Raise, Complete, Requeue, Finally, Keep, RunPoints
      <4> QED  BY <1>1, <4>1 DEF Goto, Runs
    <3>2. CASE Excepted(w)
      <4>1. Goto(w, "requeuing")
        BY <1>4, <2>1, <3>2 DEF Excepted
      <4> QED  BY <1>1, <4>1 DEF Goto, Runs
    <3>3. CASE Clip(w)
      <4>1. worker'[w].at = worker[w].at
        BY <1>1, <3>3 DEF Clip, Runs
      <4> QED  BY <2>1, <4>1 DEF At
    <3>4. CASE Leave(w)
      BY <1>1, <3>4 DEF Leave, NoRun
    <3> QED  BY <2>1, <3>1, <3>2, <3>3, <3>4 DEF RunStep, Fail
  <2> QED  BY <1>2, <2>1, <2>2, <2>3 DEF Alive, At, K
<1> QED  BY <1>3, <1>4

LEMMA StepSpares ==
    ASSUME IInv, [Next]_vars, NEW k \in Keys,
           Recover, stopping, ~asked[k], Alive(k)
    PROVE  Alive(k)' \/ state'[k] = "completed"
<1>1. JobType /\ worker \in [Workers -> Runs] /\ KeyInv(k) /\ state[k] \in {"queued", "running"}
  BY TypeParts DEF IInv, ServiceType, Alive
<1>2. CASE Crash \/ Boot
  <2>1. source[k]
    BY <1>1 DEF KeyInv
  <2>2. state'[k] = "queued" /\ worker' = [w \in Workers |-> NoRun]
    BY <1>1, <1>2, <2>1 DEF Crash, Boot, Start, Recoverable
  <2> QED  BY <2>2 DEF Alive, At, NoRun
<1>3. ASSUME NEW j \in Keys, Create(j) \/ UploadStart(j) \/ Cancel(j)
      PROVE  FALSE
  BY <1>3 DEF Create, Register, UploadStart, Cancel
<1>4. ASSUME NEW j \in Keys, UploadStep(j)
      PROVE  FALSE
  <2>1. upload[j] # "none" /\ KeyInv(j)
    BY <1>4 DEF IInv, UploadStep, UploadReceived, UploadStored, UploadQueued, UploadSubmit,
                UploadFails
  <2> QED  BY <2>1 DEF KeyInv
<1>5. ASSUME NEW j \in Keys, Expire(j)
      PROVE  Alive(k)'
  <2>1. state'[k] = state[k] /\ worker' = worker
    BY <1>1, <1>5 DEF Expire, Set, JobType, threads
  <2> QED  BY <2>1 DEF Alive, At, K
<1>6. ASSUME NEW w \in Workers, NEW j \in Keys, Enter(w, j)
      PROVE  Alive(k)'
  <2>1. /\ state' = state /\ worker'[w].at = "entered"
        /\ \A v \in Workers \ {w} : worker'[v] = worker[v]
    BY <1>1, <1>6 DEF Enter
  <2> QED  BY <2>1 DEF Alive, At, K
<1>7. CASE UNCHANGED vars
  BY <1>7 DEF vars, Alive, At, K
<1>8. ~Shutdown
  BY DEF Shutdown
<1> QED  BY <1>2, <1>3, <1>4, <1>5, <1>6, <1>7, <1>8, RunStepSpares DEF Next

(* With recovery switched on, a stop of the service, a crash during it and *)
(* the next start fail no export that is queued or running and has not     *)
(* failed before: whatever its run meets, it returns to the queue.         *)
THEOREM StopsKeepWork == Spec => StopKeepsWork
<1>1. IInv /\ [Next]_vars
        => [\A k \in Keys : Recover /\ stopping /\ ~asked[k] /\ Alive(k)
                               => Alive(k)' \/ state'[k] = "completed"]_vars
  BY StepSpares
<1> QED  BY <1>1, Invariance, PTL DEF Spec, StopKeepsWork

-----------------------------------------------------------------------------
(* What a client of the service may rely on.                               *)

Lost(k) == state[k] \in {"failed", "cancelled"}

(* No run of k will write its state any more.                              *)
Dead(k) ==
    /\ pool[k] = 0 /\ upload[k] = "none"
    /\ \A w \in Workers : K(w) = k => worker[w].at \in {"finally", "ending"}

(* An export nothing has gone wrong with.                                  *)
Healthy(k) ==
    /\ Lost(k) => ~Recover /\ Dead(k)
    /\ asked[k] => state[k] = "cancelled"
    /\ state[k] = "uploading" => upload[k] # "none"
    /\ state[k] \in {"waiting", "uploading"} => ~stopping
    /\ \A w \in Workers : K(w) = k =>
          /\ At(w, "excepting") => stopping
          /\ At(w, "failing") => ~Recover

(* What only a complete source survives.                                   *)
Fragile(k) == state[k] \in {"waiting", "uploading"} \/ upload[k] # "none"

(* The steps that do k no harm, but for those of its client.               *)
Spares(k) ==
    \/ (Shutdown \/ Crash) /\ ~Fragile(k)
    \/ Boot
    \/ \E j \in Keys \ {k} :
          Create(j) \/ UploadStart(j) \/ UploadStep(j) \/ Cancel(j) \/ Expire(j)
    \/ UploadReceived(k) \/ UploadStored(k) \/ UploadQueued(k) \/ UploadSubmit(k)
    \/ \E w \in Workers :
          \/ \E j \in Keys : Enter(w, j)
          \/ Check(w) \/ Begin(w) \/ Clip(w) \/ Complete(w) \/ Excepted(w) \/ Requeue(w)
          \/ Fail(w) \/ Finally(w) \/ Keep(w) \/ Leave(w)
          \/ Raise(w) /\ (K(w) = k => stopping \/ stop[k])
    \/ UNCHANGED vars

Settling == {"queued", "running", "completed", "failed", "cancelled"}

(* Where a step that spares it takes a healthy export.                     *)
Proceeds(k) ==
    /\ Healthy(k)'
    /\ state[k] = "waiting" => state'[k] = "waiting"
    /\ state'[k] = "uploading" => state[k] = "uploading"
    /\ Lost(k) => Lost(k)'
    /\ (upload[k] # "none" \/ state[k] \in Settling) /\ upload'[k] = "none"
          => state'[k] \in Settling

(* The step leaves the export and its run alone.                           *)
Untouched(k) ==
    /\ state'[k] = state[k] /\ asked'[k] = asked[k] /\ pool'[k] = pool[k]
    /\ upload'[k] = upload[k] /\ stopping' = stopping
    /\ \A w \in Workers : K(w)' = k => K(w) = k /\ worker'[w].at = worker[w].at

LEMMA UntouchedProceeds ==
    ASSUME NEW k \in Keys, Healthy(k), Untouched(k)
    PROVE  Proceeds(k)
BY DEF Healthy, Untouched, Proceeds, Lost, Dead, At, K

LEMMA OthersSpare ==
    ASSUME IInv, NEW k \in Keys, Healthy(k), NEW j \in Keys \ {k},
           Create(j) \/ UploadStart(j) \/ UploadStep(j) \/ Cancel(j) \/ Expire(j)
    PROVE  Proceeds(k)
<1>0. JobType
  BY TypeParts DEF IInv
<1>1. worker' = worker /\ stopping' = stopping
  BY DEF Create, Register, UploadStart, UploadStep, UploadReceived, UploadStored, UploadQueued,
         UploadSubmit, UploadFails, Cancel, Expire, threads
<1>2. /\ state'[k] = state[k] /\ asked'[k] = asked[k] /\ pool'[k] = pool[k]
      /\ upload'[k] = upload[k]
  BY <1>0 DEF Create, Register, UploadStart, UploadStep, UploadReceived, UploadStored,
              UploadQueued, UploadSubmit, UploadFails, Cancel, Expire, threads, user, Set, JobType
<1> QED  BY <1>1, <1>2, UntouchedProceeds DEF Untouched, K

LEMMA UploadsSpare ==
    ASSUME IInv, NEW k \in Keys, Healthy(k),
           UploadReceived(k) \/ UploadStored(k) \/ UploadQueued(k) \/ UploadSubmit(k)
    PROVE  Proceeds(k)
<1>0. JobType /\ KeyInv(k)
  BY TypeParts DEF IInv
<1>1. /\ UNCHANGED <<asked, active, worker, stopping>>
      /\ upload[k] # "none" /\ ~stopping
      /\ state[k] \in {"uploading", "queued"} \/ UserCancelled(k)
  BY <1>0 DEF UploadReceived, UploadStored, UploadQueued, UploadSubmit, user, threads, KeyInv
<1>2. ~Lost(k) /\ state[k] \in {"uploading", "queued"} /\ ~asked[k]
  BY <1>1 DEF Healthy, Dead, Lost, UserCancelled
<1>3. \/ state'[k] = state[k] /\ upload'[k] # "none"
      \/ state'[k] = "queued"
  BY <1>0, <1>2 DEF UploadReceived, UploadStored, UploadQueued, UploadSubmit, KeyInv, JobType, Set
<1> QED  BY <1>1, <1>2, <1>3 DEF Proceeds, Healthy, Lost, At, K, Settling

(* A run writes a state only where its export is at work, which no lost    *)
(* export is.                                                              *)
LEMMA RunsSpare ==
    ASSUME IInv, NEW k \in Keys, Healthy(k), NEW w \in Workers,
           \/ Check(w) \/ Begin(w) \/ Clip(w) \/ Complete(w) \/ Excepted(w) \/ Requeue(w)
           \/ Fail(w) \/ Finally(w) \/ Keep(w) \/ Leave(w)
           \/ Raise(w) /\ (K(w) = k => stopping \/ stop[k])
    PROVE  Proceeds(k)
<1>0. JobType /\ worker \in [Workers -> Runs] /\ KeyInv(k)
  BY TypeParts DEF IInv, ServiceType
<1>1. UNCHANGED <<asked, pool, upload, stopping>>
  BY DEF Check, Begin, Clip, Raise, Complete, Excepted, Requeue, Fail, Finally, Keep, Leave, user
<1>2. /\ \A v \in Workers \ {w} : worker'[v] = worker[v]
      /\ worker'[w].key = worker[w].key \/ worker'[w] = NoRun
  BY <1>0 DEF Check, Begin, Clip, Raise, Complete, Excepted, Requeue, Fail, Finally,
              Keep, Leave, Goto, NoRun, Runs
<1>3. CASE K(w) # k
  <2>1. state'[k] = state[k]
    BY <1>0, <1>3 DEF Check, Begin, Clip, Raise, Complete, Excepted, Requeue, Fail,
                      Finally, Keep, Leave, Set, JobType
  <2>2. K(w)' # k /\ \A v \in Workers \ {w} : K(v)' = K(v)
    BY <1>2, <1>3, EncoderAssumption DEF K, NoRun
  <2> QED  BY <1>1, <1>2, <2>1, <2>2, UntouchedProceeds DEF Untouched
<1>4. CASE K(w) = k
  <2>1. pool[k] = 0 /\ upload[k] = "none" /\ state[k] # "waiting" /\ RunInv(w)
        /\ \A v \in Workers \ {w} : K(v) # k
    <3>1. ~At(w, "idle")
      BY <1>4, EncoderAssumption, RunHasKey
    <3> QED  BY <1>4, <3>1, RunFacts DEF IInv
  <2>2. \A v \in Workers \ {w} : K(v)' # k
    BY <1>2, <2>1 DEF K
  <2>3. Lost(k) => worker[w].at \in {"finally", "ending"}
    BY <1>4 DEF Healthy, Dead
  <2>4. CASE Check(w) \/ Clip(w) \/ Finally(w) \/ Leave(w)
    <3>1. state' = state
      BY <2>4 DEF Check, Clip, Finally, Leave
    <3>2. K(w)' = k => worker'[w].at \notin {"excepting", "failing"}
      BY <1>0, <1>4, <2>4, EncoderAssumption
         DEF Check, Clip, Finally, Leave, Goto, NoRun, Runs, K, At
    <3>3. Lost(k) /\ K(w)' = k => worker'[w].at = "ending"
      BY <1>0, <1>4, <2>3, <2>4, EncoderAssumption
         DEF Check, Clip, Finally, Leave, Goto, NoRun, Runs, K, At, KeepSource, Lost
    <3> QED  BY <1>1, <2>1, <2>2, <3>1, <3>2, <3>3 DEF Proceeds, Healthy, Lost, Dead, At
  <2>5. CASE Begin(w) \/ Complete(w) \/ Requeue(w) \/ Keep(w)
    <3>1. ~Lost(k)
      <4>1. CASE Keep(w)
        BY <4>1, <2>3 DEF Keep, At
      <4>2. CASE ~Keep(w)
        BY <4>2, <2>3, <2>5 DEF Begin, Complete, Requeue, At
      <4> QED  BY <4>1, <4>2
    <3>2. state'[k] \in {"queued", "running", "completed"} /\ worker'[w].at \notin {"excepting", "failing"}
      BY <1>0, <1>4, <2>5 DEF Begin, Complete, Requeue, Keep, Goto, Runs, Set, JobType
    <3>3. ~asked[k]
      BY <3>1 DEF Healthy, Lost
    <3> QED  BY <1>1, <2>1, <2>2, <3>1, <3>2, <3>3 DEF Proceeds, Healthy, Lost, At, Settling
  <2>6. CASE Excepted(w)
    <3>1. state' = state /\ state[k] # "cancelled" /\ ~Lost(k) /\ stopping
      BY <1>4, <2>3, <2>6 DEF Excepted, At, Lost, Healthy
    <3>2. worker'[w].at = IF Recover THEN "requeuing" ELSE "failing"
      BY <1>0, <1>4, <2>6, <3>1 DEF Excepted, Goto, Runs
    <3>3. worker'[w].at # "excepting" /\ (worker'[w].at = "failing" => ~Recover)
      BY <3>2
    <3> QED  BY <1>1, <2>1, <2>2, <3>1, <3>3 DEF Proceeds, Healthy, Lost, At
  <2>7. CASE Raise(w) /\ (stopping \/ stop[k])
    <3>1. state' = state /\ ~Lost(k)
      BY <2>3, <2>7 DEF Raise, At
    <3>2. ~asked[k] /\ stopping
      BY <1>0, <2>7, <3>1 DEF Healthy, Lost, KeyInv
    <3>3. worker'[w].at = "excepting"
      BY <1>0, <2>7 DEF Raise, Goto, Runs
    <3> QED  BY <1>1, <2>1, <2>2, <3>1, <3>2, <3>3 DEF Proceeds, Healthy, Lost, At
  <2>8. CASE Fail(w)
    <3>1. ~Recover /\ ~Lost(k)
      BY <1>4, <2>3, <2>8 DEF Fail, At, Healthy
    <3>2. ~asked[k]
      BY <3>1 DEF Healthy, Lost
    <3>3. state'[k] \in {"failed", "cancelled"} /\ worker'[w].at = "finally"
      BY <1>0, <1>4, <2>8 DEF Fail, Goto, Runs, Set, JobType
    <3> QED  BY <1>1, <2>1, <2>2, <3>1, <3>2, <3>3 DEF Proceeds, Healthy, Lost, Dead, At, Settling
  <2> QED  BY <1>4, <2>4, <2>5, <2>6, <2>7, <2>8
<1> QED  BY <1>3, <1>4

(* Stops, crashes and starts spare whatever has its complete source.       *)
LEMMA StartSpares ==
    ASSUME IInv, NEW k \in Keys, Healthy(k), Start, ~Fragile(k)
    PROVE  Proceeds(k)
<1>0. JobType /\ KeyInv(k)
  BY TypeParts DEF IInv
<1>1. /\ asked' = asked /\ pool'[k] = (IF Recoverable(k) THEN 1 ELSE 0) /\ upload'[k] = "none"
      /\ stopping' = FALSE /\ worker' = [w \in Workers |-> NoRun]
      /\ state'[k] = IF Recoverable(k) THEN "queued"
                     ELSE IF Unfinished(k) THEN "failed" ELSE state[k]
  BY DEF Start
<1>2. \A w \in Workers : K(w)' # k
  BY <1>1, EncoderAssumption DEF K, NoRun
<1>3. ~Recoverable(k) /\ Unfinished(k) => ~Recover /\ state'[k] = "failed"
  BY <1>0, <1>1 DEF Recoverable, Unfinished, Fragile, Healthy, KeyInv
<1>4. CASE Recoverable(k)
  BY <1>1, <1>2, <1>4 DEF Recoverable, Proceeds, Healthy, Lost, Fragile, Settling
<1>5. CASE ~Recoverable(k) /\ Unfinished(k)
  BY <1>1, <1>2, <1>3, <1>5 DEF Unfinished, Proceeds, Healthy, Lost, Dead, Fragile, Settling
<1>6. CASE ~Recoverable(k) /\ ~Unfinished(k)
  BY <1>1, <1>2, <1>6 DEF Unfinished, Proceeds, Healthy, Lost, Dead, Fragile
<1> QED  BY <1>4, <1>5, <1>6

LEMMA SparedProceeds ==
    ASSUME IInv, NEW k \in Keys, Healthy(k), Spares(k)
    PROVE  Proceeds(k)
<1>1. CASE Shutdown /\ ~Fragile(k)
  <2>1. UNCHANGED <<state, asked, pool, worker>> /\ upload'[k] = upload[k]
    BY <1>1 DEF Shutdown, threads, Fragile
  <2>2. stopping' = TRUE
    BY <1>1 DEF Shutdown
  <2> QED  BY <1>1, <2>1, <2>2 DEF Proceeds, Healthy, Lost, Dead, At, K, Fragile
<1>2. CASE Crash /\ ~Fragile(k)
  BY <1>2, StartSpares DEF Crash
<1>3. CASE Boot
  <2>1. ~Fragile(k) /\ Start
    BY <1>3 DEF Boot, Fragile, Healthy, IInv, KeyInv
  <2> QED  BY <2>1, StartSpares
<1>4. CASE \E w \in Workers : \E j \in Keys : Enter(w, j)
  <2>1. PICK w \in Workers, j \in Keys : Enter(w, j)
    BY <1>4
  <2>2. /\ UNCHANGED <<state, asked, upload, stopping>>
        /\ worker'[w].at = "entered" /\ worker'[w].key = j
        /\ \A v \in Workers \ {w} : worker'[v] = worker[v]
        /\ pool[j] > 0
        /\ \A i \in Keys \ {j} : pool'[i] = pool[i]
    BY <2>1, TypeParts DEF Enter, IInv, ServiceType, JobType, user
  <2>3. Lost(k) => k # j
    BY <2>2 DEF Healthy, Dead
  <2> QED  BY <2>2, <2>3 DEF Proceeds, Healthy, Lost, Dead, At, K
<1>5. CASE UNCHANGED vars
  BY <1>5, UntouchedProceeds DEF vars, Untouched, K
<1> QED  BY <1>1, <1>2, <1>3, <1>4, <1>5, OthersSpare, UploadsSpare, RunsSpare DEF Spares

(* The requests of its own client.                                         *)
LEMMA CreatedIsHealthy ==
    ASSUME IInv, NEW k \in Keys, Healthy(k), Create(k)
    PROVE  Healthy(k)' /\ state'[k] \in {"waiting", "queued"}
<1>1. JobType /\ ~stopping /\ state[k] = "none" /\ NoRunOf(k)
  BY TypeParts DEF IInv, Create, Register, NoRunOf, K
<1>2. UNCHANGED <<asked, worker, stopping>> /\ state'[k] \in {"waiting", "queued"}
  BY <1>1 DEF Create, Register, Set, JobType, user
<1> QED  BY <1>1, <1>2 DEF Healthy, Lost, NoRunOf, K, At

LEMMA SentIsHealthy ==
    ASSUME IInv, NEW k \in Keys, Healthy(k), UploadStart(k)
    PROVE  Healthy(k)' /\ state'[k] = "uploading" /\ upload'[k] = "receiving"
<1>1. JobType /\ ~stopping /\ state[k] = "waiting"
  BY TypeParts DEF IInv, UploadStart
<1>2. /\ UNCHANGED <<asked, worker, stopping>>
      /\ state'[k] = "uploading" /\ upload'[k] = "receiving"
  BY <1>1 DEF UploadStart, Set, JobType, user, threads
<1> QED  BY <1>1, <1>2 DEF Healthy, Lost, K, At

LEMMA LostIsCancelled ==
    ASSUME IInv, NEW k \in Keys, Healthy(k), Lost(k), Cancel(k)
    PROVE  Healthy(k)' /\ Lost(k)'
<1>1. /\ UNCHANGED <<pool, worker, upload, stopping>> /\ state'[k] = "cancelled"
  BY TypeParts DEF IInv, Cancel, Set, JobType, threads
<1> QED  BY <1>1 DEF Healthy, Lost, Dead, K, At

(* Nobody but its client withdraws what is completed, before it expires.   *)
LEMMA CompletedIsKept ==
    ASSUME IInv, NEW k \in Keys, NextBut(k) \/ UNCHANGED vars, state[k] = "completed"
    PROVE  state'[k] \in {"completed", "none"}
<1>0. JobType /\ KeyInv(k)
  BY TypeParts DEF IInv
<1>1. CASE Shutdown \/ UNCHANGED vars
  BY <1>1 DEF Shutdown, vars
<1>2. CASE Crash \/ Boot
  <2>1. state'[k] = IF Recoverable(k) THEN "queued"
                    ELSE IF Unfinished(k) THEN "failed" ELSE state[k]
    BY <1>2 DEF Crash, Boot, Start
  <2> QED  BY <2>1 DEF Recoverable, Unfinished
<1>3. CASE \E j \in Keys \ {k} : Create(j) \/ Cancel(j)
  BY <1>0, <1>3 DEF Create, Register, Cancel, Set, JobType
<1>4. ASSUME NEW j \in Keys, UploadStart(j) \/ UploadStep(j) \/ Expire(j)
      PROVE  state'[k] \in {"completed", "none"}
  <2>1. upload[k] = "none"
    BY <1>0 DEF KeyInv, UserCancelled
  <2> QED  BY <1>0, <1>4, <2>1 DEF UploadStart, UploadStep, UploadReceived, UploadStored,
              UploadQueued, UploadSubmit, UploadFails, Expire, Set, JobType
<1>5. ASSUME NEW w \in Workers, RunStep(w)
      PROVE  state'[k] \in {"completed", "none"}
  <2>1. CASE K(w) = k
    <3>1. worker[w].at \notin {"checked", "requeuing", "failing", "keeping"}
      BY <2>1 DEF IInv, RunInv, UserCancelled, At
    <3> QED  BY <1>0, <1>5, <2>1, <3>1 DEF RunStep, Check, Begin, Clip, Raise, Complete, Excepted,
                Requeue, Fail, Finally, Keep, Leave, At, Set, JobType
  <2>2. CASE K(w) # k
    BY <1>0, <1>5, <2>2 DEF RunStep, Check, Begin, Clip, Raise, Complete, Excepted,
                Requeue, Fail, Finally, Keep, Leave, Set, JobType
  <2> QED  BY <2>1, <2>2
<1>6. ASSUME NEW w \in Workers, NEW j \in Keys, Enter(w, j)
      PROVE  state'[k] \in {"completed", "none"}
  BY <1>6 DEF Enter
<1> QED  BY <1>1, <1>2, <1>3, <1>4, <1>5, <1>6 DEF NextBut

=============================================================================
