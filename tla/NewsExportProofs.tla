-------------------------- MODULE NewsExportProofs --------------------------
(***************************************************************************)
(* The safety properties of NewsExport: what EncoderProofs shows of the    *)
(* service holds with its clients too, and joins what a client knows with  *)
(* what the service has made of its export.                                *)
(***************************************************************************)
EXTENDS NewsExport, FiniteSetTheorems, TLAPS

EP == INSTANCE EncoderProofs

(* Export k is what a client at point p expects, if nothing went wrong.    *)
Fits(k, p) ==
    /\ state[k] = "uploading" => p = "sending"
    /\ p = "posted" => state[k] = "waiting"
    /\ p = "sending" /\ upload[k] = "none" => state[k] \in EP!Settling
    /\ p \in {"aborting", "told"} => EP!Lost(k)
    /\ p = "failed" => ~Recover

CleanInv(k) == mishap[k] = "none" => EP!Healthy(k) /\ Fits(k, at[k])

(* The encoder cannot know that the job of k is over: nothing reached it,  *)
(* or nothing was sent to it since control-api was restarted.              *)
Unheard(k) == mishap[k] = "cut" \/ (mishap[k] = "abandoned" /\ lives > 0)

(* A client that is through with its export leaves no work behind, and one *)
(* that has not posted, in the first life of control-api, has made none.   *)
Leaves(k, p) ==
    /\ p = "accepted" /\ lives = 0 => ~EP!Counts(k)
    /\ p \in {"fetching", "packing"} => ~EP!Counts(k)
    /\ p \in {"told", "failed"} => ~EP!Counts(k) \/ Unheard(k)

ExportInv(k) == CleanInv(k) /\ Leaves(k, at[k])

IInv ==
    /\ TypeOK
    /\ EP!IInv
    /\ \A k \in Keys : ExportInv(k)

-----------------------------------------------------------------------------
(* The steps of the service are those EncoderProofs is about.              *)

LEMMA EncoderIsSound == EP!EncoderAssumption
BY ExportAssumption DEF EP!EncoderAssumption, EP!IsFiniteSet, IsFiniteSet

LEMMA SameSizes ==
    ASSUME NEW S
    PROVE  E!Cardinality(S) = EP!Cardinality(S)
BY DEF E!Cardinality, EP!Cardinality

LEMMA SameRequests ==
    ASSUME NEW k \in Keys
    PROVE  /\ E!Create(k) => EP!Create(k)
           /\ E!UploadStart(k) => EP!UploadStart(k)
           /\ E!Cancel(k) => EP!Cancel(k)
           /\ E!Expire(k) => EP!Expire(k)
<1> USE DEF E!LoopIsFree, EP!LoopIsFree, E!Set, EP!Set, E!user, EP!user, E!threads, EP!threads
<1>1. E!Create(k) => EP!Create(k)
  BY SameSizes DEF E!Create, E!Register, EP!Create, EP!Register, E!Unfinished, EP!Unfinished
<1>2. E!UploadStart(k) => EP!UploadStart(k)
  BY DEF E!UploadStart, EP!UploadStart
<1>3. E!Cancel(k) => EP!Cancel(k)
  BY DEF E!Cancel, EP!Cancel
<1>4. E!Expire(k) => EP!Expire(k)
  BY DEF E!Expire, EP!Expire
<1> QED  BY <1>1, <1>2, <1>3, <1>4

LEMMA SameUploads ==
    ASSUME NEW k \in Keys
    PROVE  /\ E!UploadReceived(k) => EP!UploadReceived(k)
           /\ E!UploadStored(k) => EP!UploadStored(k)
           /\ E!UploadQueued(k) => EP!UploadQueued(k)
           /\ E!UploadSubmit(k) => EP!UploadSubmit(k)
           /\ E!UploadFails(k) => EP!UploadFails(k)
BY DEF E!LoopIsFree, EP!LoopIsFree, E!Set, EP!Set, E!user, EP!user, E!threads, EP!threads,
       E!UploadReceived, EP!UploadReceived, E!UploadStored, EP!UploadStored, E!UploadQueued,
       EP!UploadQueued, E!UploadSubmit, EP!UploadSubmit, E!UploadFails, EP!UploadFails

LEMMA SameRuns ==
    ASSUME NEW w \in Workers
    PROVE  /\ \A k \in Keys : E!Enter(w, k) => EP!Enter(w, k)
           /\ E!Check(w) => EP!Check(w)
           /\ E!Begin(w) => EP!Begin(w)
           /\ E!Clip(w) => EP!Clip(w)
           /\ E!Raise(w) => EP!Raise(w)
           /\ E!Complete(w) => EP!Complete(w)
           /\ E!Excepted(w) => EP!Excepted(w)
           /\ E!Requeue(w) => EP!Requeue(w)
           /\ E!Fail(w) => EP!Fail(w)
           /\ E!Finally(w) => EP!Finally(w)
           /\ E!Keep(w) => EP!Keep(w)
           /\ E!Leave(w) => EP!Leave(w)
<1> USE DEF E!At, EP!At, E!K, EP!K, E!Goto, EP!Goto, E!Set, EP!Set, E!user, EP!user
<1>1. \A k \in Keys : E!Enter(w, k) => EP!Enter(w, k)
  BY DEF E!Enter, EP!Enter
<1>2. E!Check(w) => EP!Check(w)
  BY DEF E!Check, EP!Check
<1>3. /\ E!Begin(w) => EP!Begin(w)
      /\ E!Clip(w) => EP!Clip(w)
      /\ E!Raise(w) => EP!Raise(w)
      /\ E!Complete(w) => EP!Complete(w)
  BY DEF E!Begin, EP!Begin, E!Clip, EP!Clip, E!Raise, EP!Raise, E!Complete, EP!Complete
<1>4. /\ E!Excepted(w) => EP!Excepted(w)
      /\ E!Requeue(w) => EP!Requeue(w)
      /\ E!Fail(w) => EP!Fail(w)
  BY DEF E!Excepted, EP!Excepted, E!Requeue, EP!Requeue, E!Fail, EP!Fail
<1>5. /\ E!Finally(w) => EP!Finally(w)
      /\ E!Keep(w) => EP!Keep(w)
      /\ E!Leave(w) => EP!Leave(w)
  BY DEF E!Finally, EP!Finally, E!KeepSource, EP!KeepSource, E!Keep, EP!Keep, E!Leave, EP!Leave,
         E!NoRun, EP!NoRun
<1> QED  BY <1>1, <1>2, <1>3, <1>4, <1>5

LEMMA SameStarts ==
    /\ E!Shutdown => EP!Shutdown
    /\ E!Crash => EP!Crash
    /\ E!Boot => EP!Boot
<1>1. E!Start => EP!Start
  BY DEF E!Start, EP!Start, E!Recoverable, EP!Recoverable, E!Unfinished, EP!Unfinished,
         E!NoRun, EP!NoRun
<1>2. E!Drained => EP!Drained
  BY DEF E!Drained, EP!Drained, E!At, EP!At
<1>3. E!Shutdown => EP!Shutdown
  BY DEF E!Shutdown, EP!Shutdown, E!LoopIsFree, EP!LoopIsFree, E!threads, EP!threads
<1> QED  BY <1>1, <1>2, <1>3 DEF E!Crash, EP!Crash, E!Boot, EP!Boot

-----------------------------------------------------------------------------
(* Frames.                                                                 *)

LEMMA SameVars == UNCHANGED encoder <=> UNCHANGED EP!vars
BY DEF encoder, EP!vars

(* Marking a mishap hides none.                                            *)
Marks(k) ==
    \/ UNCHANGED mishap
    \/ Known(k)
    \/ Cut(k)
    \/ Abandon(k)

LEMMA MarkFacts ==
    ASSUME mishap \in [Keys -> Mishaps], NEW k \in Keys, Marks(k)
    PROVE  /\ mishap' \in [Keys -> Mishaps]
           /\ mishap'[k] = "none" => mishap[k] = "none"
           /\ \A j \in Keys \ {k} : mishap'[j] = mishap[j]
BY DEF Marks, Known, Cut, Abandon, Worst, Mishaps

(* The service goes on by itself, or for another export.                   *)
LEMMA ServiceKeeps ==
    ASSUME IInv, NEW k \in Keys, EP!NextBut(k) \/ UNCHANGED encoder, at'[k] = at[k],
           lives' = 0 => lives = 0, Unheard(k) => Unheard(k)',
           mishap'[k] = "none" => mishap[k] = "none" /\ EP!Spares(k)
    PROVE  ExportInv(k)'
<1>1. Leaves(k, at[k])'
  <2>1. EP!Counts(k)' => EP!Counts(k)
    BY EncoderIsSound, SameVars, EP!OnlyCreateCounts DEF IInv
  <2> QED  BY <2>1 DEF IInv, ExportInv, Leaves
<1>2. CleanInv(k)'
  <2> SUFFICES ASSUME mishap'[k] = "none"
               PROVE  EP!Healthy(k)' /\ Fits(k, at[k])'
    BY DEF CleanInv
  <2>1. EP!Healthy(k) /\ Fits(k, at[k])
    BY DEF IInv, ExportInv, CleanInv
  <2>2. EP!Proceeds(k)
    BY <2>1, EncoderIsSound, EP!SparedProceeds DEF IInv
  <2>3. Fits(k, at[k])'
    BY <2>1, <2>2 DEF Fits, EP!Proceeds
  <2> QED  BY <2>2, <2>3 DEF EP!Proceeds
<1> QED  BY <1>1, <1>2 DEF ExportInv

(* A step of the client of k, with or without a request.                   *)
LEMMA ClientKeepsOthers ==
    ASSUME IInv, NEW k \in Keys, NEW p \in Points, Goto(k, p), Marks(k),
           UNCHANGED lives,
           UNCHANGED encoder \/ EP!Create(k) \/ EP!UploadStart(k) \/ EP!Cancel(k),
           NEW j \in Keys \ {k}
    PROVE  ExportInv(j)'
<1>1. at'[j] = at[j] /\ mishap'[j] = mishap[j] /\ (Unheard(j) => Unheard(j)')
  BY MarkFacts DEF IInv, TypeOK, Goto, Unheard
<1>2. EP!NextBut(j) \/ UNCHANGED encoder
  BY DEF EP!NextBut
<1>3. EP!Spares(j)
  BY SameVars DEF EP!Spares
<1> QED  BY <1>1, <1>2, <1>3, ServiceKeeps

LEMMA ClientKeeps ==
    ASSUME IInv, NEW k \in Keys, NEW p \in Points, Goto(k, p), Marks(k),
           got' \in [Keys -> Nat], \A j \in Keys : got'[j] <= parts[j],
           UNCHANGED lives, faults' \in Nat,
           UNCHANGED encoder \/ EP!Create(k) \/ EP!UploadStart(k) \/ EP!Cancel(k),
           (at'[k] = p /\ (mishap'[k] = "none" => mishap[k] = "none")) => ExportInv(k)'
    PROVE  IInv'
<1>1. TypeOK'
  <2>1. at' \in [Keys -> Points]
    BY DEF IInv, TypeOK, Goto
  <2>2. mishap' \in [Keys -> Mishaps]
    BY MarkFacts DEF IInv, TypeOK
  <2> QED  BY <2>1, <2>2 DEF IInv, TypeOK
<1>2. EP!IInv'
  <2>1. [EP!Next]_(EP!vars)
    BY SameVars DEF EP!Next
  <2> QED  BY <2>1, EncoderIsSound, EP!StepKeeps DEF IInv
<1>3. at'[k] = p /\ (mishap'[k] = "none" => mishap[k] = "none")
  BY MarkFacts DEF IInv, TypeOK, Goto
<1> QED  BY <1>1, <1>2, <1>3, ClientKeepsOthers DEF IInv

(* What the frames need of every step of a job that asks for nothing.      *)
LEMMA ThoughtFacts ==
    ASSUME IInv, NEW k \in Keys,
           UNCHANGED <<encoder, lives>>,
           got' = got \/ (got' = [got EXCEPT ![k] = @ + 1] /\ got[k] < parts[k]),
           faults' = faults \/ faults' = faults + 1
    PROVE  /\ got' \in [Keys -> Nat] /\ \A j \in Keys : got'[j] <= parts[j]
           /\ faults' \in Nat
<1>1. got \in [Keys -> Nat] /\ \A j \in Keys : got[j] <= parts[j]
  BY DEF IInv, TypeOK
<1>2. CASE got' = got
  BY <1>1, <1>2 DEF IInv, TypeOK
<1>3. CASE got' = [got EXCEPT ![k] = @ + 1] /\ got[k] < parts[k]
  <2>1. got' \in [Keys -> Nat]
    BY <1>1, <1>3
  <2>2. got'[k] = got[k] + 1 /\ \A j \in Keys \ {k} : got'[j] = got[j]
    BY <1>1, <1>3
  <2>3. got[k] \in Nat /\ parts[k] \in Nat /\ got[k] < parts[k]
    BY <1>1, <1>3, ExportAssumption
  <2>4. got[k] + 1 <= parts[k]
    BY <2>3
  <2> QED  BY <1>1, <2>1, <2>2, <2>4 DEF IInv, TypeOK
<1> QED  BY <1>2, <1>3

(* Without a request, what the client expects is all there is to show.     *)
LEMMA ThinkingKeeps ==
    ASSUME IInv, NEW k \in Keys, NEW p \in Points, Goto(k, p), Marks(k),
           UNCHANGED <<encoder, lives>>,
           got' = got \/ (got' = [got EXCEPT ![k] = @ + 1] /\ got[k] < parts[k]),
           faults' = faults \/ faults' = faults + 1,
           mishap'[k] = "none" /\ EP!Healthy(k) /\ Fits(k, at[k]) => Fits(k, p),
           p # "accepted",
           p \in {"fetching", "packing"} => ~EP!Counts(k),
           p \in {"told", "failed"} => ~EP!Counts(k) \/ Unheard(k)'
    PROVE  IInv'
<1>1. ASSUME at'[k] = p, mishap'[k] = "none" => mishap[k] = "none"
      PROVE  ExportInv(k)'
  <2>1. EP!Counts(k)' <=> EP!Counts(k)
    BY DEF encoder, EP!Counts, EP!Unfinished
  <2>2. Leaves(k, at[k])'
    BY <1>1, <2>1 DEF Leaves
  <2>3. ASSUME mishap'[k] = "none"
        PROVE  EP!Healthy(k)' /\ Fits(k, at[k])'
    <3>1. EP!Healthy(k) /\ Fits(k, p)
      BY <1>1, <2>3 DEF IInv, ExportInv, CleanInv
    <3>2. EP!Healthy(k)'
      BY <3>1 DEF encoder, EP!Healthy, EP!Lost, EP!Dead, EP!At, EP!K
    <3>3. Fits(k, at[k])'
      BY <1>1, <3>1 DEF encoder, Fits, EP!Lost
    <3> QED  BY <3>2, <3>3
  <2> QED  BY <2>2, <2>3 DEF ExportInv, CleanInv
<1> QED  BY <1>1, ThoughtFacts, ClientKeeps

LEMMA Marked ==
    ASSUME mishap \in [Keys -> Mishaps], NEW k \in Keys
    PROVE  /\ Known(k) => mishap'[k] # "none"
           /\ Known(k) /\ mishap[k] \in {"cut", "abandoned"} => mishap'[k] = mishap[k]
           /\ Cut(k) => mishap'[k] = "cut" /\ Unheard(k)'
           /\ Abandon(k) => mishap'[k] = "abandoned"
BY DEF Known, Cut, Abandon, Unheard, Worst, Mishaps

-----------------------------------------------------------------------------
(* The job.                                                                *)

LEMMA PostAgainKeeps ==
    ASSUME IInv, NEW k \in Keys, PostAgain(k)
    PROVE  IInv'
<1> USE DEF PostAgain, Fine
<1>1. CASE state[k] \in {"failed", "cancelled", "uploading"}
  <2>1. Goto(k, "aborting")
    BY <1>1
  <2> QED  BY <1>1, <2>1, ThinkingKeeps DEF Points, Marks, Fits, EP!Lost
<1>2. CASE state[k] = "waiting"
  <2>1. Goto(k, "posted")
    BY <1>2
  <2> QED  BY <1>2, <2>1, ThinkingKeeps DEF Points, Marks, Fits
<1>3. CASE state[k] \notin {"failed", "cancelled", "uploading", "waiting"}
  <2>1. Goto(k, "stored")
    BY <1>3
  <2> QED  BY <1>3, <2>1, ThinkingKeeps DEF Points, Marks, Fits
<1> QED  BY <1>1, <1>2, <1>3

LEMMA PostRefusedKeeps ==
    ASSUME IInv, NEW k \in Keys, PostRefused(k)
    PROVE  IInv'
<1>1. mishap'[k] = "cut" /\ Unheard(k)'
  BY Marked DEF IInv, TypeOK, PostRefused
<1> QED  BY <1>1, ThinkingKeeps DEF PostRefused, Points, Marks

LEMMA PutRefusedKeeps ==
    ASSUME IInv, NEW k \in Keys, PutRefused(k)
    PROVE  IInv'
<1>1. EP!Healthy(k) /\ Fits(k, at[k]) => FALSE
  BY DEF PutRefused, Fits, EP!Healthy
<1> QED  BY <1>1, ThinkingKeeps DEF PutRefused, Fine, Points, Marks

LEMMA PutEndsKeeps ==
    ASSUME IInv, NEW k \in Keys, PutEnds(k)
    PROVE  IInv'
<1> USE DEF PutEnds, Fine
<1>1. CASE state[k] \in {"queued", "running", "completed"}
  <2>1. Goto(k, "stored")
    BY <1>1
  <2> QED  BY <1>1, <2>1, ThinkingKeeps DEF Points, Marks, Fits
<1>2. CASE state[k] \notin {"queued", "running", "completed"}
  <2>1. Goto(k, "aborting")
    BY <1>2
  <2> QED  BY <1>2, <2>1, ThinkingKeeps
              DEF Points, Marks, Fits, EP!Lost, EP!Settling
<1> QED  BY <1>1, <1>2

LEMMA PutLostKeeps ==
    ASSUME IInv, NEW k \in Keys, PutLost(k)
    PROVE  IInv'
<1>1. mishap'[k] # "none"
  BY Marked DEF IInv, TypeOK, PutLost
<1> QED  BY <1>1, ThinkingKeeps DEF PutLost, Fault, Points, Marks

LEMMA RecheckKeeps ==
    ASSUME IInv, NEW k \in Keys, Recheck(k)
    PROVE  IInv'
<1>1. CASE Goto(k, "polling") /\ Fine
  BY <1>1, ThinkingKeeps DEF Recheck, Fine, Points, Marks, Fits
<1>2. CASE Goto(k, "aborting") /\ Known(k) /\ Fault
  <2>1. mishap'[k] # "none"
    BY <1>2, Marked DEF IInv, TypeOK
  <2> QED  BY <1>2, <2>1, ThinkingKeeps DEF Recheck, Fault, Points, Marks
<1> QED  BY <1>1, <1>2 DEF Recheck

LEMMA PollKeeps ==
    ASSUME IInv, NEW k \in Keys, Poll(k)
    PROVE  IInv'
<1>1. CASE state[k] = "completed" /\ Goto(k, "fetching")
  <2>1. ~EP!Counts(k)
    BY <1>1 DEF EP!Counts, EP!Unfinished
  <2> QED  BY <1>1, <2>1, ThinkingKeeps DEF Poll, Fine, Points, Marks, Fits
<1>2. CASE state[k] \in {"failed", "cancelled"} /\ Goto(k, "aborting")
  BY <1>2, ThinkingKeeps DEF Poll, Fine, Points, Marks, Fits, EP!Lost
<1> QED  BY <1>1, <1>2 DEF Poll

LEMMA GiveUpKeeps ==
    ASSUME IInv, NEW k \in Keys, GiveUp(k)
    PROVE  IInv'
<1>1. mishap'[k] # "none"
  BY Marked DEF IInv, TypeOK, GiveUp
<1> QED  BY <1>1, ThinkingKeeps DEF GiveUp, Points, Marks

LEMMA FetchKeeps ==
    ASSUME IInv, NEW k \in Keys, Fetch(k)
    PROVE  IInv'
<1>1. Goto(k, "fetching")
  BY DEF Fetch, Goto, IInv, TypeOK
<1>2. ~EP!Counts(k)
  BY DEF Fetch, EP!Counts, EP!Unfinished
<1> QED  BY <1>1, <1>2, ThinkingKeeps DEF Fetch, Fine, Points, Marks, Fits

(* Nobody works for an export that was fetched.                            *)
LEMMA FetchFailsKeeps ==
    ASSUME IInv, NEW k \in Keys, FetchFails(k)
    PROVE  IInv'
<1>1. mishap'[k] # "none"
  BY Marked DEF IInv, TypeOK, FetchFails
<1>2. ~EP!Counts(k)
  BY DEF IInv, ExportInv, Leaves, FetchFails
<1>3. faults' = faults \/ faults' = faults + 1
  BY DEF FetchFails
<1> QED  BY <1>1, <1>2, <1>3, ThinkingKeeps DEF FetchFails, Points, Marks

LEMMA FetchedKeeps ==
    ASSUME IInv, NEW k \in Keys, Fetched(k)
    PROVE  IInv'
<1>1. ~EP!Counts(k)
  BY DEF IInv, ExportInv, Leaves, Fetched
<1> QED  BY <1>1, ThinkingKeeps DEF Fetched, Fine, Points, Marks, Fits

LEMMA PackKeeps ==
    ASSUME IInv, NEW k \in Keys, Pack(k)
    PROVE  IInv'
<1>1. ~EP!Counts(k)
  BY DEF IInv, ExportInv, Leaves, Pack
<1>2. CASE Goto(k, "done") /\ Fine
  BY <1>1, <1>2, ThinkingKeeps DEF Pack, Fine, Points, Marks, Fits
<1>3. CASE Goto(k, "failed") /\ Known(k) /\ Fault
  <2>1. mishap'[k] # "none"
    BY <1>3, Marked DEF IInv, TypeOK
  <2> QED  BY <1>1, <1>3, <2>1, ThinkingKeeps DEF Pack, Fault, Points, Marks
<1> QED  BY <1>2, <1>3 DEF Pack

LEMMA SaveFailureKeeps ==
    ASSUME IInv, NEW k \in Keys, SaveFailure(k)
    PROVE  IInv'
<1>1. ~EP!Counts(k) \/ Unheard(k)'
  BY DEF IInv, ExportInv, Leaves, Unheard, SaveFailure, Fine
<1>2. EP!Healthy(k) /\ Fits(k, at[k]) => ~Recover /\ Fits(k, "failed")
  BY DEF SaveFailure, Fits, EP!Healthy, EP!Lost
<1> QED  BY <1>1, <1>2, ThinkingKeeps DEF SaveFailure, Fine, Points, Marks

(* The steps that make a request.                                          *)
LEMMA RequestFacts ==
    ASSUME IInv, UNCHANGED <<got, lives>>, faults' = faults \/ faults' = faults + 1
    PROVE  /\ got' \in [Keys -> Nat] /\ \A j \in Keys : got'[j] <= parts[j]
           /\ faults' \in Nat
BY DEF IInv, TypeOK

LEMMA CreationKeeps ==
    ASSUME IInv, NEW k \in Keys, NEW p \in Points, Goto(k, p), Marks(k),
           at[k] = "accepted", E!Create(k),
           UNCHANGED <<got, lives>>, faults' = faults \/ faults' = faults + 1,
           \/ p = "posted" /\ state'[k] = "waiting"
           \/ p = "stored" /\ state'[k] # "waiting"
           \/ p = "failed" /\ mishap'[k] = "cut"
    PROVE  IInv'
<1>1. EP!Create(k)
  BY SameRequests
<1>2. ASSUME at'[k] = p, mishap'[k] = "none" => mishap[k] = "none"
      PROVE  ExportInv(k)'
  <2>1. Leaves(k, at[k])'
    BY <1>2 DEF Leaves, Unheard
  <2>2. ASSUME mishap'[k] = "none"
        PROVE  EP!Healthy(k)' /\ Fits(k, at[k])'
    <3>1. EP!Healthy(k)' /\ state'[k] \in {"waiting", "queued"}
      BY <1>1, <1>2, <2>2, EncoderIsSound, EP!CreatedIsHealthy DEF IInv, ExportInv, CleanInv
    <3> QED  BY <1>2, <2>2, <3>1 DEF Fits
  <2> QED  BY <2>1, <2>2 DEF ExportInv, CleanInv
<1> QED  BY <1>1, <1>2, RequestFacts, ClientKeeps

LEMMA PostNewKeeps ==
    ASSUME IInv, NEW k \in Keys, PostNew(k)
    PROVE  IInv'
<1>1. CASE state'[k] = "waiting"
  <2>1. Goto(k, "posted")
    BY <1>1 DEF PostNew
  <2> QED  BY <1>1, <2>1, CreationKeeps DEF PostNew, Fine, Points, Marks
<1>2. CASE state'[k] # "waiting"
  <2>1. Goto(k, "stored")
    BY <1>2 DEF PostNew
  <2> QED  BY <1>2, <2>1, CreationKeeps DEF PostNew, Fine, Points, Marks
<1> QED  BY <1>1, <1>2

(* An export nobody will ask for again counts as cut off.                  *)
LEMMA PostLostKeeps ==
    ASSUME IInv, NEW k \in Keys, PostLost(k)
    PROVE  IInv'
<1>1. mishap'[k] = "cut" /\ Unheard(k)'
  BY Marked DEF IInv, TypeOK, PostLost
<1>2. CASE E!Create(k)
  BY <1>1, <1>2, CreationKeeps DEF PostLost, Fault, Points, Marks
<1>3. CASE UNCHANGED encoder
  BY <1>1, <1>3, ThinkingKeeps DEF PostLost, Fault, Points, Marks
<1> QED  BY <1>2, <1>3 DEF PostLost

(* Before its first POST a job leaves nothing behind; after a restart of   *)
(* control-api it may.                                                     *)
LEMMA SourceChangedKeeps ==
    ASSUME IInv, NEW k \in Keys, SourceChanged(k)
    PROVE  IInv'
<1>1. mishap'[k] = "abandoned" /\ lives' = lives /\ lives \in Nat
  BY Marked DEF IInv, TypeOK, SourceChanged
<1>2. ~EP!Counts(k) \/ Unheard(k)'
  BY <1>1 DEF IInv, ExportInv, Leaves, Unheard, SourceChanged
<1> QED  BY <1>1, <1>2, ThinkingKeeps DEF SourceChanged, Fault, Points, Marks

LEMMA PutStartKeeps ==
    ASSUME IInv, NEW k \in Keys, PutStart(k)
    PROVE  IInv'
<1>1. EP!UploadStart(k) /\ Goto(k, "sending") /\ Marks(k) /\ "sending" \in Points
  BY SameRequests DEF PutStart, Fine, Marks, Points
<1>2. ASSUME at'[k] = "sending", mishap'[k] = "none" => mishap[k] = "none"
      PROVE  ExportInv(k)'
  <2>1. Leaves(k, at[k])'
    BY <1>2 DEF Leaves
  <2>2. ASSUME mishap'[k] = "none"
        PROVE  EP!Healthy(k)' /\ Fits(k, at[k])'
    <3>1. EP!Healthy(k)' /\ state'[k] = "uploading" /\ upload'[k] = "receiving"
      BY <1>1, <1>2, <2>2, EncoderIsSound, EP!SentIsHealthy DEF IInv, ExportInv, CleanInv
    <3> QED  BY <1>2, <3>1 DEF Fits
  <2> QED  BY <2>1, <2>2 DEF ExportInv, CleanInv
<1>3. UNCHANGED <<got, lives>> /\ faults' = faults
  BY DEF PutStart, Fine
<1> QED  BY <1>1, <1>2, <1>3, RequestFacts, ClientKeeps

(* A client that gives its export up has cancelled it, or knows of none,   *)
(* or could not tell the service.                                          *)
LEMMA AbortKeeps ==
    ASSUME IInv, NEW k \in Keys, Abort(k)
    PROVE  IInv'
<1>0. Goto(k, "told") /\ "told" \in Points /\ UNCHANGED <<got, lives>> /\ at[k] = "aborting"
  BY DEF Abort, Points
<1>1. CASE E!Cancel(k) /\ Fine
  <2>1. EP!Cancel(k) /\ Marks(k) /\ faults' = faults
    BY <1>1, SameRequests DEF Fine, Marks
  <2>2. ASSUME at'[k] = "told", mishap'[k] = "none" => mishap[k] = "none"
        PROVE  ExportInv(k)'
    <3>1. asked'[k]
      BY <2>1 DEF EP!Cancel, IInv, EP!IInv, EP!TypeOK
    <3>2. Leaves(k, at[k])'
      BY <2>2, <3>1 DEF Leaves, EP!Counts
    <3>3. ASSUME mishap'[k] = "none"
          PROVE  EP!Healthy(k)' /\ Fits(k, at[k])'
      <4>1. EP!Healthy(k) /\ EP!Lost(k)
        BY <1>0, <2>2, <3>3 DEF IInv, ExportInv, CleanInv, Fits
      <4>2. EP!Healthy(k)' /\ EP!Lost(k)'
        BY <2>1, <4>1, EncoderIsSound, EP!LostIsCancelled DEF IInv
      <4> QED  BY <2>2, <4>2 DEF Fits, EP!Lost
    <3> QED  BY <3>2, <3>3 DEF ExportInv, CleanInv
  <2> QED  BY <1>0, <2>1, <2>2, RequestFacts, ClientKeeps
<1>2. CASE state[k] = "none" /\ Fine /\ UNCHANGED encoder
  <2>1. ~EP!Counts(k)
    BY <1>2 DEF EP!Counts, EP!Unfinished
  <2>2. Fits(k, at[k]) => FALSE
    BY <1>0, <1>2 DEF Fits, EP!Lost
  <2> QED  BY <1>0, <1>2, <2>1, <2>2, ThinkingKeeps DEF Fine, Marks
<1>3. CASE Cut(k) /\ (faults' = faults \/ faults' = faults + 1) /\ UNCHANGED encoder
  <2>1. mishap'[k] = "cut" /\ Unheard(k)'
    BY <1>3, Marked DEF IInv, TypeOK
  <2> QED  BY <1>0, <1>3, <2>1, ThinkingKeeps DEF Marks
<1> QED  BY <1>1, <1>2, <1>3 DEF Abort, Fault

LEMMA JobStepKeeps ==
    ASSUME IInv, NEW k \in Keys, JobStep(k) \/ JobMishap(k)
    PROVE  IInv'
BY PostNewKeeps, PostAgainKeeps, PostRefusedKeeps, PutStartKeeps, PutRefusedKeeps, PutEndsKeeps,
   RecheckKeeps, PollKeeps, GiveUpKeeps, FetchKeeps, FetchFailsKeeps, FetchedKeeps, PackKeeps,
   AbortKeeps, SaveFailureKeeps, PostLostKeeps, PutLostKeeps, SourceChangedKeeps
   DEF JobStep, JobMishap

(* A job begun again finds its export where it left it, or knows why not.  *)
LEMMA ControlRestartKeeps ==
    ASSUME IInv, ControlRestart
    PROVE  IInv'
<1>1. PICK lost \in SUBSET {k \in Keys : Going(k)} :
         /\ faults' = faults + Cardinality(lost)
         /\ at' = [k \in Keys |-> IF k \in lost THEN "failed"
                                  ELSE IF Going(k) THEN "accepted" ELSE at[k]]
         /\ mishap' = [k \in Keys |-> IF k \in lost THEN "abandoned"
                                      ELSE IF upload[k] # "none" THEN Worst(mishap[k], "known")
                                      ELSE mishap[k]]
  BY DEF ControlRestart
<1>2. got' = [k \in Keys |-> IF Going(k) THEN 0 ELSE got[k]] /\ lives' = lives + 1 /\ UNCHANGED encoder
  BY DEF ControlRestart
<1>3. TypeOK'
  <2>1. Cardinality(lost) \in Nat
    BY <1>1, ExportAssumption, FS_Subset, FS_CardinalityType
  <2>2. faults' \in Nat /\ lives' \in Nat
    BY <1>1, <1>2, <2>1 DEF IInv, TypeOK
  <2>3. at' \in [Keys -> Points]
    BY <1>1 DEF IInv, TypeOK, Points
  <2>4. mishap' \in [Keys -> Mishaps]
    BY <1>1 DEF IInv, TypeOK, Mishaps, Worst
  <2>5. got' \in [Keys -> Nat] /\ \A k \in Keys : got'[k] <= parts[k]
    BY <1>2, ExportAssumption DEF IInv, TypeOK
  <2> QED  BY <2>2, <2>3, <2>4, <2>5 DEF TypeOK
<1>4. EP!IInv'
  BY <1>2, SameVars, EncoderIsSound, EP!StepKeeps DEF IInv
<1>5. ASSUME NEW k \in Keys
      PROVE  ExportInv(k)'
  <2>0. lives' > 0
    BY <1>2 DEF IInv, TypeOK
  <2>1. /\ Unheard(k) => Unheard(k)'
        /\ k \in lost => Unheard(k)'
        /\ mishap'[k] = "none" => mishap[k] = "none" /\ k \notin lost /\ upload[k] = "none"
    BY <1>1, <2>0 DEF Worst, Unheard
  <2>2. CASE at'[k] = at[k]
    BY <1>2, <2>0, <2>1, <2>2, SameVars, ServiceKeeps DEF EP!Spares
  <2>3. CASE at'[k] # at[k]
    <3>1. at'[k] = IF k \in lost THEN "failed" ELSE "accepted"
      BY <1>1, <2>3
    <3>2. Leaves(k, at[k])'
      BY <2>0, <2>1, <3>1 DEF Leaves
    <3>3. ASSUME mishap'[k] = "none"
          PROVE  EP!Healthy(k)' /\ Fits(k, at[k])'
      <4>1. EP!Healthy(k) /\ upload[k] = "none" /\ at'[k] = "accepted"
        BY <2>1, <3>1, <3>3 DEF IInv, ExportInv, CleanInv
      <4>2. EP!Healthy(k)'
        BY <1>2, <4>1 DEF encoder, EP!Healthy, EP!Lost, EP!Dead, EP!At, EP!K
      <4>3. state'[k] # "uploading"
        BY <1>2, <4>1 DEF encoder, EP!Healthy
      <4> QED  BY <4>1, <4>2, <4>3 DEF Fits
    <3> QED  BY <3>2, <3>3 DEF ExportInv, CleanInv
  <2> QED  BY <2>2, <2>3
<1> QED  BY <1>3, <1>4, <1>5 DEF IInv

-----------------------------------------------------------------------------
(* The encoder on its own.                                                 *)

LEMMA ServiceStepKeeps ==
    ASSUME IInv, EP!Next, \A k \in Keys : EP!NextBut(k),
           at' \in [Keys -> Points], UNCHANGED <<got, bounds>>,
           mishap' \in [Keys -> Mishaps],
           \A k \in Keys : /\ mishap[k] \in {"cut", "abandoned"} => mishap'[k] = mishap[k]
                           /\ mishap'[k] = "none" => mishap[k] = "none" /\ EP!Spares(k),
           \A k \in Keys : at'[k] # at[k] => at'[k] = "aborting" /\ mishap'[k] # "none"
    PROVE  IInv'
<1>1. TypeOK'
  BY DEF IInv, TypeOK, bounds
<1>2. EP!IInv'
  BY EncoderIsSound, EP!StepKeeps DEF IInv
<1>3. ASSUME NEW k \in Keys
      PROVE  ExportInv(k)'
  <2>1. CASE at'[k] = at[k]
    BY <2>1, ServiceKeeps DEF bounds, Unheard
  <2>2. CASE at'[k] # at[k]
    BY <2>2 DEF ExportInv, CleanInv, Leaves
  <2> QED  BY <2>1, <2>2
<1> QED  BY <1>1, <1>2, <1>3 DEF IInv

LEMMA UploadProceedsKeeps ==
    ASSUME IInv, NEW k \in Keys, UploadProceeds(k)
    PROVE  IInv'
<1>1. EP!UploadReceived(k) \/ EP!UploadStored(k) \/ EP!UploadQueued(k) \/ EP!UploadSubmit(k)
  BY SameUploads DEF UploadProceeds
<1>2. EP!Next /\ \A j \in Keys : EP!NextBut(j) /\ EP!Spares(j)
  BY <1>1 DEF EP!Next, EP!NextBut, EP!Spares, EP!UploadStep
<1> QED  BY <1>2, ServiceStepKeeps DEF UploadProceeds, Still, IInv, TypeOK

LEMMA HarmKeeps ==
    ASSUME IInv, NEW k \in Keys, UploadBreaks(k) \/ Expires(k)
    PROVE  IInv'
<1>1. EP!UploadFails(k) \/ EP!Expire(k)
  BY SameUploads, SameRequests DEF UploadBreaks, Expires
<1>2. EP!Next /\ \A j \in Keys : EP!NextBut(j) /\ (j # k => EP!Spares(j))
  BY <1>1 DEF EP!Next, EP!NextBut, EP!Spares, EP!UploadStep
<1>3. Known(k) /\ Marks(k) /\ Still
  BY DEF UploadBreaks, Expires, Marks
<1>4. /\ mishap'[k] # "none"
      /\ mishap[k] \in {"cut", "abandoned"} => mishap'[k] = mishap[k]
  BY <1>3, Marked DEF IInv, TypeOK
<1> QED  BY <1>2, <1>3, <1>4, MarkFacts, ServiceStepKeeps DEF Still, IInv, TypeOK

LEMMA WorkerKeeps ==
    ASSUME IInv, NEW w \in Workers, WorkerEnters(w) \/ WorkerProceeds(w)
    PROVE  IInv'
<1>1. Still /\ UNCHANGED mishap
  BY DEF WorkerEnters, WorkerProceeds
<1>2. \/ \E k \in Keys : EP!Enter(w, k)
      \/ EP!Check(w) \/ EP!Begin(w) \/ EP!Clip(w) \/ EP!Complete(w) \/ EP!Excepted(w)
      \/ EP!Requeue(w) \/ EP!Fail(w) \/ EP!Finally(w) \/ EP!Keep(w) \/ EP!Leave(w)
  BY SameRuns DEF WorkerEnters, WorkerProceeds
<1>3. EP!Next /\ \A j \in Keys : EP!NextBut(j) /\ EP!Spares(j)
  BY <1>2 DEF EP!Next, EP!NextBut, EP!Spares, EP!RunStep
<1> QED  BY <1>1, <1>3, ServiceStepKeeps DEF Still, IInv, TypeOK

(* A run that fails by itself marks its export.                            *)
LEMMA WorkerRaisesKeeps ==
    ASSUME IInv, NEW w \in Workers, WorkerRaises(w)
    PROVE  IInv'
<1>1. EP!Raise(w) /\ Still
  BY SameRuns DEF WorkerRaises
<1>2. EP!Next /\ \A j \in Keys : EP!NextBut(j)
  BY <1>1 DEF EP!Next, EP!NextBut, EP!RunStep
<1>3. worker[w].key \in Keys
  <2>1. worker[w].key # None
    BY <1>1, EncoderIsSound, EP!RunHasKey DEF IInv, EP!Raise, EP!At, EP!K
  <2> QED  BY <2>1, EncoderIsSound, EP!RunHasKey DEF IInv, EP!K
<1>4. CASE stopping \/ stop[worker[w].key]
  <2>1. \A j \in Keys : EP!Spares(j)
    BY <1>1, <1>4 DEF EP!Spares, EP!K
  <2> QED  BY <1>1, <1>2, <1>4, <2>1, ServiceStepKeeps DEF WorkerRaises, Still, IInv, TypeOK
<1>5. CASE ~(stopping \/ stop[worker[w].key])
  <2>1. PICK k \in Keys : k = worker[w].key
    BY <1>3
  <2>2. Known(k) /\ Marks(k)
    BY <1>5, <2>1 DEF WorkerRaises, Marks
  <2>3. /\ mishap'[k] # "none"
        /\ mishap[k] \in {"cut", "abandoned"} => mishap'[k] = mishap[k]
    BY <2>2, Marked DEF IInv, TypeOK
  <2>4. \A j \in Keys \ {k} : EP!Spares(j)
    BY <1>1, <2>1 DEF EP!Spares, EP!K
  <2> QED  BY <1>1, <1>2, <2>2, <2>3, <2>4, MarkFacts, ServiceStepKeeps
              DEF Still, IInv, TypeOK
<1> QED  BY <1>4, <1>5

(* A stop or a crash marks what it breaks, its client included.            *)
LEMMA InterruptionKeeps ==
    ASSUME IInv, EncoderStops \/ EncoderCrashes
    PROVE  IInv'
<1>1. (EP!Shutdown \/ EP!Crash) /\ Connections
  BY SameStarts DEF EncoderStops, EncoderCrashes
<1>2. EP!Next /\ \A j \in Keys : EP!NextBut(j) /\ (~Breaks(j) => EP!Spares(j))
  BY <1>1 DEF EP!Next, EP!NextBut, EP!Spares, Breaks, EP!Fragile
<1>3. at' \in [Keys -> Points] /\ mishap' \in [Keys -> Mishaps]
  BY <1>1 DEF Connections, IInv, TypeOK, Points, Mishaps, Worst
<1>4. ASSUME NEW k \in Keys
      PROVE  /\ mishap[k] \in {"cut", "abandoned"} => mishap'[k] = mishap[k]
             /\ mishap'[k] = "none" => mishap[k] = "none" /\ ~Breaks(k)
             /\ at'[k] # at[k] => at'[k] = "aborting" /\ mishap'[k] # "none"
  BY <1>1 DEF Connections, Worst, Breaks
<1> QED  BY <1>1, <1>2, <1>3, <1>4, ServiceStepKeeps DEF Connections

LEMMA EncoderBootsKeeps ==
    ASSUME IInv, EncoderBoots
    PROVE  IInv'
<1>1. EP!Boot /\ Still /\ UNCHANGED mishap
  BY SameStarts DEF EncoderBoots
<1>2. EP!Next /\ \A j \in Keys : EP!NextBut(j) /\ EP!Spares(j)
  BY <1>1 DEF EP!Next, EP!NextBut, EP!Spares
<1> QED  BY <1>1, <1>2, ServiceStepKeeps DEF Still, IInv, TypeOK

-----------------------------------------------------------------------------
(* The invariant.                                                          *)

(* The exports an earlier life of control-api left behind wait already.    *)
LEMMA InitIsSound == Init => IInv
<1> SUFFICES ASSUME Init PROVE IInv
  OBVIOUS
<1> USE DEF Init
<1>1. TypeOK
  BY ExportAssumption DEF TypeOK, Points, Mishaps
<1>2. \A w \in Workers : /\ worker[w].at = "idle" /\ worker[w].key = None
                         /\ worker[w].done = 0
  BY DEF E!NoRun
<1>3. EP!TypeOK
  <2>1. worker \in [Workers -> EP!Runs]
    BY DEF E!NoRun, EP!Runs, EP!RunPoints
  <2> QED  BY <2>1 DEF EP!TypeOK, EP!States, EP!UploadPoints
<1>4. \A w \in Workers : EP!RunInv(w)
  BY <1>2 DEF EP!RunInv, EP!K, EP!At
<1>5. \A k \in Keys : EP!NoRunOf(k)
  BY <1>2, ExportAssumption DEF EP!NoRunOf, EP!K
<1>6. \A k \in Keys : EP!KeyInv(k)
  BY <1>5 DEF EP!KeyInv
<1>7. EP!OneRunEach
  BY <1>2 DEF EP!OneRunEach, EP!K
<1>8. ASSUME NEW k \in Keys
      PROVE  ExportInv(k)
  <2>1. CASE k \in Orphans
    BY <2>1 DEF ExportInv, CleanInv, Leaves, Unheard
  <2>2. CASE k \notin Orphans
    BY <1>5, <2>2 DEF ExportInv, CleanInv, Leaves, EP!Counts, EP!Unfinished, Fits, EP!Healthy, EP!Lost, EP!NoRunOf, EP!K
  <2> QED  BY <2>1, <2>2
<1> QED  BY <1>1, <1>3, <1>4, <1>6, <1>7, <1>8 DEF IInv, EP!IInv

LEMMA StepKeeps ==
    IInv /\ [Next]_vars => IInv'
<1> SUFFICES ASSUME IInv, [Next]_vars PROVE IInv'
  OBVIOUS
<1>1. CASE ControlRestart \/ EncoderStops \/ EncoderCrashes \/ EncoderBoots
  BY <1>1, ControlRestartKeeps, InterruptionKeeps, EncoderBootsKeeps
<1>2. ASSUME NEW k \in Keys, JobStep(k) \/ JobMishap(k) \/ UploadProceeds(k) \/ UploadBreaks(k)
                             \/ Expires(k)
      PROVE  IInv'
  BY <1>2, JobStepKeeps, UploadProceedsKeeps, HarmKeeps
<1>3. ASSUME NEW w \in Workers, WorkerEnters(w) \/ WorkerProceeds(w) \/ WorkerRaises(w)
      PROVE  IInv'
  BY <1>3, WorkerKeeps, WorkerRaisesKeeps
<1>4. CASE UNCHANGED vars
  <2>1. UNCHANGED <<encoder, at, got, mishap, bounds>>
    BY <1>4 DEF vars
  <2>2. TypeOK'
    BY <2>1 DEF bounds, IInv, TypeOK
  <2>3. EP!IInv'
    BY <2>1, SameVars, EncoderIsSound, EP!StepKeeps DEF IInv
  <2>4. \A k \in Keys : ExportInv(k)'
    BY <2>1, SameVars, ServiceKeeps DEF EP!Spares, bounds, Unheard
  <2> QED  BY <2>2, <2>3, <2>4 DEF IInv
<1> QED  BY <1>1, <1>2, <1>3, <1>4 DEF Next

LEMMA Invariance == Spec => []IInv
BY InitIsSound, StepKeeps, PTL DEF Spec

-----------------------------------------------------------------------------
(* Theorems.                                                               *)

(* Jobs, lists of files and marks stay in their types; no job fetches more *)
(* clips than its export has.                                              *)
THEOREM WellTyped == Spec => []TypeOK
<1>1. IInv => TypeOK
  BY DEF IInv
<1> QED  BY <1>1, Invariance, PTL

(* Whatever its clients do, lose or forget, the service makes but its own  *)
(* steps: a step of the whole is one of Encoder or leaves it alone.        *)
THEOREM ServiceIsEncoder == Spec => [][E!Next]_encoder
<1>1. [Next]_vars => [E!Next]_encoder
  <2> SUFFICES ASSUME [Next]_vars PROVE E!Next \/ UNCHANGED encoder
    OBVIOUS
  <2>1. CASE ControlRestart \/ EncoderStops \/ EncoderCrashes \/ EncoderBoots
    BY <2>1 DEF ControlRestart, EncoderStops, EncoderCrashes, EncoderBoots, E!Next
  <2>2. ASSUME NEW k \in Keys, JobStep(k) \/ JobMishap(k)
        PROVE  E!Next \/ UNCHANGED encoder
    BY <2>2 DEF JobStep, JobMishap, PostNew, PostAgain, PostRefused, PostLost, PutStart,
                PutRefused, PutEnds, PutLost, SourceChanged, Recheck, Poll, GiveUp, Fetch, FetchFails, Fetched,
                Pack, Abort, SaveFailure, E!Next
  <2>3. ASSUME NEW k \in Keys, UploadProceeds(k) \/ UploadBreaks(k) \/ Expires(k)
        PROVE  E!Next
    BY <2>3 DEF UploadProceeds, UploadBreaks, Expires, E!Next, E!UploadStep
  <2>4. ASSUME NEW w \in Workers, WorkerEnters(w) \/ WorkerProceeds(w) \/ WorkerRaises(w)
        PROVE  E!Next
    BY <2>4 DEF WorkerEnters, WorkerProceeds, WorkerRaises, E!Next, E!RunStep
  <2>5. CASE UNCHANGED vars
    BY <2>5 DEF vars
  <2> QED  BY <2>1, <2>2, <2>3, <2>4, <2>5 DEF Next
<1> QED  BY <1>1, PTL DEF Spec

(* What Encoder promises of sources and completed exports holds with its   *)
(* real clients too, who also find exports of an earlier life there.       *)
THEOREM ServiceKeepsItsWord == Spec => [](E!SourceIsThere /\ E!CompletedIsWhole)
<1>1. IInv => E!SourceIsThere /\ E!CompletedIsWhole
  BY DEF IInv, EP!IInv, EP!KeyInv, E!SourceIsThere, E!CompletedIsWhole
<1> QED  BY <1>1, Invariance, PTL

(* With recovery switched on, restarts of control-api at any moment, and   *)
(* stops and crashes of the encoder while an export is polled, fail no     *)
(* job: what has failed met with another mishap.                           *)
THEOREM RestartsAreFree == Spec => []RestartsCostNothing
<1>1. IInv => RestartsCostNothing
  BY DEF IInv, ExportInv, CleanInv, Fits, RestartsCostNothing
<1> QED  BY <1>1, Invariance, PTL

(* The export of a job that has failed is over or was told to stop, unless *)
(* the encoder did not answer its POST or DELETE, or control-api was       *)
(* restarted and the job failed before it posted again: from the answer to *)
(* its POST on, every way a job fails passes the deferred DELETE or finds  *)
(* nothing left to delete.                                                 *)
THEOREM NothingWorksForNobody == Spec => []NoOrphans
<1>1. IInv => NoOrphans
  BY DEF IInv, ExportInv, Leaves, Unheard, EP!Counts, EP!Unfinished, E!Unfinished, NoOrphans
<1> QED  BY <1>1, Invariance, PTL

(* A completed export is cancelled by no one but the job that gives it up  *)
(* after a mishap: packing, restarts and other jobs leave it to be fetched *)
(* again.                                                                  *)
THEOREM CompletedExportsAreKept == Spec => KeptForReattachment
<1>1. ASSUME IInv, [Next]_vars, NEW k \in Keys, state[k] = "completed", state'[k] = "cancelled"
      PROVE  at[k] = "aborting" /\ mishap[k] # "none"
  <2>1. at[k] = "aborting" => mishap[k] # "none"
    BY <1>1 DEF IInv, ExportInv, CleanInv, Fits, EP!Lost
  <2>2. ~EP!NextBut(k) /\ ~UNCHANGED encoder
    BY <1>1, SameVars, EncoderIsSound, EP!CompletedIsKept DEF IInv
  <2>3. ~E!Create(k)
    BY <1>1 DEF E!Create, E!Register
  <2>4. ~E!UploadStart(k)
    BY <1>1 DEF E!UploadStart
  <2>5. CASE ControlRestart \/ EncoderStops \/ EncoderCrashes \/ EncoderBoots \/ UNCHANGED vars
    BY <2>2, <2>5, SameStarts
       DEF ControlRestart, EncoderStops, EncoderCrashes, EncoderBoots, vars, EP!NextBut
  <2>6. ASSUME NEW j \in Keys, UploadProceeds(j) \/ UploadBreaks(j) \/ Expires(j)
        PROVE  FALSE
    BY <2>2, <2>6, SameUploads, SameRequests
       DEF UploadProceeds, UploadBreaks, Expires, EP!NextBut, EP!UploadStep
  <2>7. ASSUME NEW w \in Workers, WorkerEnters(w) \/ WorkerProceeds(w) \/ WorkerRaises(w)
        PROVE  FALSE
    BY <2>2, <2>7, SameRuns
       DEF WorkerEnters, WorkerProceeds, WorkerRaises, EP!NextBut, EP!RunStep
  <2>8. ASSUME NEW j \in Keys, JobStep(j) \/ JobMishap(j)
        PROVE  j = k /\ at[k] = "aborting"
    <3>1. E!Create(j) \/ E!UploadStart(j) \/ (Abort(j) /\ E!Cancel(j))
      BY <2>2, <2>8
         DEF JobStep, JobMishap, PostNew, PostAgain, PostRefused, PostLost, PutStart,
             PutRefused, PutEnds, PutLost, SourceChanged, Recheck, Poll, GiveUp, Fetch, FetchFails, Fetched,
             Pack, Abort, SaveFailure
    <3>2. j = k
      BY <2>2, <3>1, SameRequests DEF EP!NextBut
    <3> QED  BY <2>3, <2>4, <3>1, <3>2 DEF Abort
  <2> QED  BY <1>1, <2>1, <2>5, <2>6, <2>7, <2>8 DEF Next
<1>2. IInv /\ [Next]_vars
        => [\A k \in Keys : state[k] = "completed" /\ state'[k] = "cancelled"
                               => at[k] = "aborting" /\ mishap[k] # "none"]_vars
  BY <1>1
<1> QED  BY <1>2, Invariance, PTL DEF Spec, KeptForReattachment

=============================================================================
