------------------------- MODULE NewsAnalysisProofs -------------------------
(***************************************************************************)
(* The safety properties of NewsAnalysis, for any jobs, number of chunks   *)
(* and number of events.  The invariant has three parts: what holds of a   *)
(* pipeline (PipelineInv), how its place and that of its job fit together  *)
(* (PlaceInv), and where results come from (OriginInv).                    *)
(***************************************************************************)
EXTENDS NewsAnalysis, FiniteSetTheorems, TLAPS

(* The producer is done with chunk c.                                      *)
Sent(j, c) == c < next[j] \/ (c = next[j] /\ producer[j] = "ended")

Delivered(j) == heard[j] \cup ({held[j], queue[j]} \ {0})

(* Every audio file has a slot; the chunk that is consumed and the one in  *)
(* the channel are two different files that were sent.                     *)
SlotsInv(j) ==
    /\ Cardinality(P!InFlight(j)) <= slots[j]
    /\ held[j] # 0 <=> ear[j] = "consuming"
    /\ held[j] # 0 => held[j] \in wav[j] /\ Sent(j, held[j])
    /\ queue[j] # 0 => queue[j] \in wav[j] /\ Sent(j, queue[j]) /\ queue[j] # held[j]
    /\ producer[j] = "sending" => next[j] \in wav[j]

EndInv(j) ==
    /\ ear[j] = "off" => /\ producer[j] = "none" /\ next[j] = 1 /\ heard[j] = {}
                         /\ queue[j] = 0 /\ ~broken[j]
    /\ ear[j] # "off" => producer[j] # "none"
    /\ ear[j] \in {"left", "over"} => producer[j] = "ended"
    /\ ear[j] = "over" => wav[j] = {}

(* Nothing is skipped as long as nobody cancels and nothing fails.         *)
WholeInv(j) ==
    ~cancelled[j] /\ ~broken[j] =>
        /\ ear[j] \in {"receiving", "consuming"} =>
              /\ Delivered(j) = {c \in 1 .. Chunks : Sent(j, c)}
              /\ producer[j] = "ended" =>
                    (spoilt[j] /\ queue[j] = next[j]) \/ next[j] = Chunks
        /\ ear[j] \in {"leaving", "left"} => heard[j] = 1 .. Chunks

PipelineInv(j) == SlotsInv(j) /\ EndInv(j) /\ WholeInv(j)

PlaceInv(j) ==
    /\ at[j] \in {"open", "hash", "stat", "lock", "lookup"} => ear[j] = "off"
    /\ at[j] \in {"group", "align", "cleaning"} => ear[j] = "left"
    /\ at[j] = "analyse" => ear[j] \in {"off", "receiving", "consuming", "leaving"}
    /\ at[j] \in {"recheck", "store", "unlock"} => ear[j] \in {"off", "over"}
    /\ at[j] \in {"group", "align"} => ~broken[j]
    /\ at[j] \in {"open", "hash", "stat", "lock", "lookup", "analyse", "group", "align", "failed"}
          => result[j] = NoResult
    /\ at[j] \in {"recheck", "store", "done"} => result[j] # NoResult
    /\ at[j] \in {"lock", "lookup", "recheck", "store", "unlock"} => key[j] # 0

WholeResult(r) == r # NoResult => r.heard = 1 .. Chunks

(* Versions grow: what was read since the job opened the recording lies    *)
(* between the version it opened and the present one.                      *)
OriginInv(j) ==
    /\ before[j] <= version
    /\ at[j] = "open" => from[j] = {}
    /\ from[j] \subseteq before[j] .. version
    /\ at[j] = "stat" => key[j] \in before[j] .. version
    /\ at[j] \in {"lock", "lookup", "analyse", "group", "align", "cleaning", "recheck", "store"}
          /\ key[j] # 0 => key[j] = before[j]
    /\ at[j] \in {"cleaning", "recheck"} => result[j].from \subseteq before[j] .. version
    /\ at[j] = "store" => result[j].from \subseteq {key[j]}
    /\ WholeResult(result[j])

CacheInv ==
    \A v \in Versions : WholeResult(cache[v]) /\ cache[v].from \subseteq {v}

EventInv == version <= events + 1 /\ life <= events

IInv ==
    /\ TypeOK
    /\ EventInv
    /\ CacheInv
    /\ \A j \in Jobs : PipelineInv(j) /\ PlaceInv(j) /\ OriginInv(j)

-----------------------------------------------------------------------------
(* The pipeline.                                                           *)

SamePipe(i) ==
    /\ producer'[i] = producer[i] /\ next'[i] = next[i] /\ spoilt'[i] = spoilt[i]
    /\ queue'[i] = queue[i] /\ slots'[i] = slots[i] /\ wav'[i] = wav[i]
    /\ ear'[i] = ear[i] /\ held'[i] = held[i] /\ heard'[i] = heard[i]
    /\ broken'[i] = broken[i] /\ cancelled'[i] = cancelled[i]

LEMMA FlightIsFinite ==
    ASSUME P!TypeOK, NEW j \in Jobs
    PROVE  /\ P!InFlight(j) \subseteq 1 .. Chunks /\ IsFiniteSet(P!InFlight(j))
           /\ Cardinality(P!InFlight(j)) \in Nat
<1>1. P!InFlight(j) \subseteq 1 .. Chunks
  BY DEF P!TypeOK, P!InFlight
<1>2. IsFiniteSet(1 .. Chunks)
  BY FS_Interval, AnalysisAssumption DEF P!PipelineAssumption
<1>3. IsFiniteSet(P!InFlight(j))
  BY <1>1, <1>2, FS_Subset
<1> QED  BY <1>1, <1>3, FS_CardinalityType

LEMMA FlightGrowsAndShrinks ==
    ASSUME P!TypeOK, NEW j \in Jobs, NEW c
    PROVE  /\ Cardinality(P!InFlight(j)) \in Nat /\ Cardinality(P!InFlight(j) \cup {c}) \in Nat
           /\ Cardinality(P!InFlight(j) \cup {c}) <= Cardinality(P!InFlight(j)) + 1
           /\ c \in P!InFlight(j) => /\ Cardinality(P!InFlight(j)) > 0
                                     /\ Cardinality(P!InFlight(j) \ {c}) = Cardinality(P!InFlight(j)) - 1
<1>1. IsFiniteSet(P!InFlight(j)) /\ Cardinality(P!InFlight(j)) \in Nat
  BY FlightIsFinite
<1>2. /\ Cardinality(P!InFlight(j) \cup {c}) \in Nat
      /\ Cardinality(P!InFlight(j) \cup {c}) <= Cardinality(P!InFlight(j)) + 1
  <2>1. Cardinality(P!InFlight(j) \cup {c}) =
            IF c \in P!InFlight(j) THEN Cardinality(P!InFlight(j)) ELSE Cardinality(P!InFlight(j)) + 1
    BY <1>1, FS_AddElement
  <2> QED  BY <1>1, <2>1
<1>3. ASSUME c \in P!InFlight(j)
      PROVE  /\ Cardinality(P!InFlight(j)) > 0
             /\ Cardinality(P!InFlight(j) \ {c}) = Cardinality(P!InFlight(j)) - 1
  <2>1. Cardinality(P!InFlight(j)) # 0
    BY <1>1, <1>3, FS_EmptySet
  <2>2. Cardinality(P!InFlight(j) \ {c}) = Cardinality(P!InFlight(j)) - 1
    BY <1>1, <1>3, FS_RemoveElement
  <2> QED  BY <1>1, <2>1, <2>2
<1> QED  BY <1>1, <1>2, <1>3

LEMMA PipelineFrame ==
    ASSUME NEW i \in Jobs, PipelineInv(i), SamePipe(i)
    PROVE  PipelineInv(i)'
<1>1. P!InFlight(i)' = P!InFlight(i)
  BY DEF SamePipe, P!InFlight
<1>2. SlotsInv(i)'
  BY <1>1 DEF SamePipe, PipelineInv, SlotsInv, Sent
<1>3. EndInv(i)'
  BY DEF SamePipe, PipelineInv, EndInv
<1>4. WholeInv(i)'
  BY DEF SamePipe, PipelineInv, WholeInv, Delivered, Sent
<1> QED  BY <1>2, <1>3, <1>4 DEF PipelineInv

(* A step that leaves the audio files and slots alone.                     *)
LEMMA CancelKeeps ==
    ASSUME NEW j \in Jobs, P!TypeOK, PipelineInv(j), P!Cancel(j)
    PROVE  /\ P!TypeOK' /\ PipelineInv(j)'
           /\ \A i \in Jobs \ {j} : SamePipe(i)
<1> USE DEF P!Cancel, P!preparing, P!hearing, P!TypeOK
<1>1. P!TypeOK' /\ \A i \in Jobs \ {j} : SamePipe(i)
  BY DEF SamePipe
<1>2. P!InFlight(j)' = P!InFlight(j)
  BY DEF P!InFlight
<1>3. SlotsInv(j)'
  BY <1>2 DEF PipelineInv, SlotsInv, Sent
<1>4. EndInv(j)'
  BY DEF PipelineInv, EndInv
<1>5. WholeInv(j)'
  BY DEF PipelineInv, WholeInv
<1> QED  BY <1>1, <1>3, <1>4, <1>5 DEF PipelineInv

LEMMA BeginKeeps ==
    ASSUME NEW j \in Jobs, P!TypeOK, PipelineInv(j), P!Begin(j)
    PROVE  /\ P!TypeOK' /\ PipelineInv(j)'
           /\ \A i \in Jobs \ {j} : SamePipe(i)
<1> USE DEF P!Begin, P!TypeOK
<1>1. P!TypeOK' /\ \A i \in Jobs \ {j} : SamePipe(i)
  BY DEF SamePipe, P!ProducerPoints, P!EarPoints
<1>2. P!InFlight(j)' = P!InFlight(j)
  BY DEF P!InFlight, PipelineInv, EndInv
<1>3. SlotsInv(j)'
  BY <1>2 DEF PipelineInv, SlotsInv, EndInv, Sent
<1>4. EndInv(j)'
  BY DEF PipelineInv, EndInv
<1>5. WholeInv(j)'
  BY DEF PipelineInv, WholeInv, EndInv, SlotsInv, Delivered, Sent
<1> QED  BY <1>1, <1>3, <1>4, <1>5 DEF PipelineInv

LEMMA AcquireKeeps ==
    ASSUME NEW j \in Jobs, P!TypeOK, PipelineInv(j), P!Acquire(j)
    PROVE  /\ P!TypeOK' /\ PipelineInv(j)'
           /\ \A i \in Jobs \ {j} : SamePipe(i)
<1> USE DEF P!Acquire, P!hearing, P!TypeOK
<1>1. P!TypeOK' /\ \A i \in Jobs \ {j} : SamePipe(i)
  BY DEF SamePipe, P!ProducerPoints
<1>2. P!InFlight(j)' = P!InFlight(j) \cup {next[j]}
  BY DEF P!InFlight
<1>3. Cardinality(P!InFlight(j)') <= slots'[j]
  <2>1. /\ Cardinality(P!InFlight(j)) \in Nat /\ Cardinality(P!InFlight(j)') \in Nat
        /\ Cardinality(P!InFlight(j)') <= Cardinality(P!InFlight(j)) + 1
    BY <1>2, FlightGrowsAndShrinks
  <2> QED  BY <2>1 DEF PipelineInv, SlotsInv
<1>4. SlotsInv(j)'
  BY <1>3 DEF PipelineInv, SlotsInv, Sent
<1>5. EndInv(j)'
  BY DEF PipelineInv, EndInv
<1>6. WholeInv(j)'
  BY DEF PipelineInv, WholeInv, Delivered, Sent
<1> QED  BY <1>1, <1>4, <1>5, <1>6 DEF PipelineInv

LEMMA ExtractedKeeps ==
    ASSUME NEW j \in Jobs, P!TypeOK, PipelineInv(j), P!Extracted(j)
    PROVE  /\ P!TypeOK' /\ PipelineInv(j)'
           /\ \A i \in Jobs \ {j} : SamePipe(i)
<1> USE DEF P!Extracted, P!hearing, P!TypeOK
<1>0. PICK bad \in BOOLEAN : spoilt' = [spoilt EXCEPT ![j] = bad]
  OBVIOUS
<1>1. P!TypeOK' /\ \A i \in Jobs \ {j} : SamePipe(i)
  <2>1. producer' \in [Jobs -> P!ProducerPoints]
    BY <1>0 DEF P!ProducerPoints
  <2>2. wav' \in [Jobs -> SUBSET (1 .. Chunks)] /\ spoilt' \in [Jobs -> BOOLEAN]
    BY <1>0 DEF P!ProducerPoints
  <2>3. \A i \in Jobs \ {j} : SamePipe(i)
    BY <1>0 DEF SamePipe
  <2> QED  BY <2>1, <2>2, <2>3
<1>2. P!InFlight(j)' = P!InFlight(j)
  BY DEF P!InFlight
<1>3. SlotsInv(j)'
  BY <1>2 DEF PipelineInv, SlotsInv, Sent
<1>4. EndInv(j)'
  BY DEF PipelineInv, EndInv
<1>5. WholeInv(j)'
  BY DEF PipelineInv, WholeInv, Delivered, Sent
<1> QED  BY <1>1, <1>3, <1>4, <1>5 DEF PipelineInv

LEMMA SendKeeps ==
    ASSUME NEW j \in Jobs, P!TypeOK, PipelineInv(j), P!Send(j)
    PROVE  /\ P!TypeOK' /\ PipelineInv(j)'
           /\ \A i \in Jobs \ {j} : SamePipe(i)
<1> USE DEF P!Send, P!hearing, P!TypeOK
<1>1. P!TypeOK' /\ \A i \in Jobs \ {j} : SamePipe(i)
  BY AnalysisAssumption DEF SamePipe, P!ProducerPoints, P!PipelineAssumption
<1>2. P!InFlight(j)' = P!InFlight(j)
  BY DEF P!InFlight
<1>3. SlotsInv(j)'
  BY <1>2 DEF PipelineInv, SlotsInv, Sent
<1>4. EndInv(j)'
  BY DEF PipelineInv, EndInv
<1>5. WholeInv(j)'
  BY DEF PipelineInv, WholeInv, SlotsInv, Delivered, Sent
<1> QED  BY <1>1, <1>3, <1>4, <1>5 DEF PipelineInv

LEMMA ProducerQuitsKeeps ==
    ASSUME NEW j \in Jobs, P!TypeOK, PipelineInv(j), P!ProducerQuits(j)
    PROVE  /\ P!TypeOK' /\ PipelineInv(j)'
           /\ \A i \in Jobs \ {j} : SamePipe(i)
<1> USE DEF P!ProducerQuits, P!Quit, P!hearing, P!TypeOK
<1>1. P!TypeOK' /\ \A i \in Jobs \ {j} : SamePipe(i)
  BY DEF SamePipe, P!ProducerPoints
<1>2. P!InFlight(j)' = P!InFlight(j)
  BY DEF P!InFlight
<1>3. SlotsInv(j)'
  BY <1>2 DEF PipelineInv, SlotsInv, Sent
<1>4. EndInv(j)'
  BY DEF PipelineInv, EndInv
<1>5. WholeInv(j)'
  BY DEF PipelineInv, WholeInv
<1> QED  BY <1>1, <1>3, <1>4, <1>5 DEF PipelineInv

LEMMA ReceiveKeeps ==
    ASSUME NEW j \in Jobs, P!TypeOK, PipelineInv(j), P!ReceiveStep(j)
    PROVE  /\ P!TypeOK' /\ PipelineInv(j)'
           /\ \A i \in Jobs \ {j} : SamePipe(i)
<1> USE DEF P!ReceiveStep, P!Receive, P!ReceiveEnd, P!ReceiveQuit, P!preparing, P!TypeOK
<1>1. P!TypeOK' /\ \A i \in Jobs \ {j} : SamePipe(i)
  <2>1. ear' \in [Jobs -> P!EarPoints]
    BY DEF P!EarPoints
  <2>2. broken' \in [Jobs -> BOOLEAN]
    BY DEF P!EarPoints
  <2>3. queue' \in [Jobs -> 0 .. Chunks] /\ held' \in [Jobs -> 0 .. Chunks]
    BY AnalysisAssumption DEF P!PipelineAssumption
  <2>4. \A i \in Jobs \ {j} : SamePipe(i)
    BY DEF SamePipe
  <2> QED  BY <2>1, <2>2, <2>3, <2>4
<1>2. P!InFlight(j)' = P!InFlight(j)
  BY DEF P!InFlight
<1>3. SlotsInv(j)'
  BY <1>2 DEF PipelineInv, SlotsInv, Sent
<1>4. EndInv(j)'
  BY DEF PipelineInv, EndInv
<1>5. WholeInv(j)'
  <2>1. CASE P!Receive(j)
    BY <2>1, AnalysisAssumption
    DEF PipelineInv, WholeInv, SlotsInv, Delivered, Sent, P!PipelineAssumption
  <2>2. CASE P!ReceiveEnd(j)
    <3>1. SUFFICES ASSUME ~cancelled[j], ~broken[j]
                   PROVE  heard[j] = 1 .. Chunks
      BY <2>2 DEF WholeInv
    <3>2. next[j] = Chunks /\ held[j] = 0 /\ queue[j] = 0
      BY <2>2, <3>1, AnalysisAssumption DEF PipelineInv, WholeInv, SlotsInv, P!PipelineAssumption
    <3>3. Delivered(j) = heard[j]
      BY <3>2 DEF Delivered
    <3>4. {c \in 1 .. Chunks : Sent(j, c)} = 1 .. Chunks
      BY <2>2, <3>2, AnalysisAssumption DEF Sent, P!PipelineAssumption
    <3> QED  BY <2>2, <3>1, <3>3, <3>4 DEF PipelineInv, WholeInv
  <2>3. CASE P!ReceiveQuit(j)
    BY <2>3 DEF PipelineInv, WholeInv
  <2> QED  BY <2>1, <2>2, <2>3
<1> QED  BY <1>1, <1>3, <1>4, <1>5 DEF PipelineInv

LEMMA ConsumedKeeps ==
    ASSUME NEW j \in Jobs, NEW ok \in BOOLEAN, P!TypeOK, PipelineInv(j), P!Consumed(j, ok)
    PROVE  /\ P!TypeOK' /\ PipelineInv(j)'
           /\ \A i \in Jobs \ {j} : SamePipe(i)
<1> USE DEF P!Consumed, P!preparing, P!TypeOK
<1>1. held[j] \in P!InFlight(j) /\ held[j] # 0
  BY DEF PipelineInv, SlotsInv, P!InFlight
<1>2. P!InFlight(j)' = P!InFlight(j) \ {held[j]}
  BY DEF PipelineInv, SlotsInv, Sent, P!InFlight
<1>3. /\ Cardinality(P!InFlight(j)) \in Nat /\ Cardinality(P!InFlight(j)) > 0
      /\ Cardinality(P!InFlight(j)') = Cardinality(P!InFlight(j)) - 1
  BY <1>1, <1>2, FlightGrowsAndShrinks
<1>5. slots[j] >= 1 /\ Cardinality(P!InFlight(j)') <= slots[j] - 1
  BY <1>3 DEF PipelineInv, SlotsInv
<1>6. P!TypeOK' /\ \A i \in Jobs \ {j} : SamePipe(i)
  <2>1. ear' \in [Jobs -> P!EarPoints]
    BY <1>5 DEF P!EarPoints
  <2>2. broken' \in [Jobs -> BOOLEAN]
    BY <1>5 DEF P!EarPoints
  <2>3. held' \in [Jobs -> 0 .. Chunks]
    BY AnalysisAssumption DEF P!PipelineAssumption
  <2>4. heard' \in [Jobs -> SUBSET (1 .. Chunks)]
    BY <1>1, AnalysisAssumption DEF P!PipelineAssumption
  <2>5. wav' \in [Jobs -> SUBSET (1 .. Chunks)]
    BY <1>5 DEF P!EarPoints
  <2>6. slots' \in [Jobs -> 0 .. 2]
    BY <1>5 DEF P!EarPoints
  <2>7. \A i \in Jobs \ {j} : SamePipe(i)
    BY <1>5 DEF SamePipe
  <2> QED  BY <2>1, <2>2, <2>3, <2>4, <2>5, <2>6, <2>7
<1>7. SlotsInv(j)'
  BY <1>5 DEF PipelineInv, SlotsInv, Sent
<1>8. EndInv(j)'
  BY DEF PipelineInv, EndInv
<1>9. WholeInv(j)'
  BY <1>1 DEF PipelineInv, WholeInv, SlotsInv, Delivered, Sent
<1> QED  BY <1>6, <1>7, <1>8, <1>9 DEF PipelineInv

LEMMA JoinKeeps ==
    ASSUME NEW j \in Jobs, P!TypeOK, PipelineInv(j), P!Join(j)
    PROVE  /\ P!TypeOK' /\ PipelineInv(j)'
           /\ \A i \in Jobs \ {j} : SamePipe(i)
<1> USE DEF P!Join, P!preparing, P!TypeOK
<1>1. P!TypeOK' /\ \A i \in Jobs \ {j} : SamePipe(i)
  BY DEF SamePipe, P!EarPoints
<1>2. P!InFlight(j)' = P!InFlight(j)
  BY DEF P!InFlight
<1>3. SlotsInv(j)'
  BY <1>2 DEF PipelineInv, SlotsInv, Sent
<1>4. EndInv(j)'
  BY DEF PipelineInv, EndInv
<1>5. WholeInv(j)'
  BY DEF PipelineInv, WholeInv
<1> QED  BY <1>1, <1>3, <1>4, <1>5 DEF PipelineInv

LEMMA CleanUpKeeps ==
    ASSUME NEW j \in Jobs, P!TypeOK, PipelineInv(j), P!CleanUp(j)
    PROVE  /\ P!TypeOK' /\ PipelineInv(j)'
           /\ \A i \in Jobs \ {j} : SamePipe(i)
<1> USE DEF P!CleanUp, P!preparing, P!TypeOK
<1>1. P!TypeOK' /\ \A i \in Jobs \ {j} : SamePipe(i)
  <2>1. ear' \in [Jobs -> P!EarPoints]
    BY DEF P!EarPoints
  <2>2. wav' \in [Jobs -> SUBSET (1 .. Chunks)] /\ heard' \in [Jobs -> SUBSET (1 .. Chunks)]
    BY DEF P!EarPoints
  <2>3. queue' \in [Jobs -> 0 .. Chunks] /\ slots' \in [Jobs -> 0 .. 2]
    BY AnalysisAssumption DEF P!PipelineAssumption
  <2>4. \A i \in Jobs \ {j} : SamePipe(i)
    BY DEF SamePipe
  <2> QED  BY <2>1, <2>2, <2>3, <2>4
<1>2. P!InFlight(j)' = {}
  BY DEF P!InFlight, PipelineInv, EndInv
<1>3. SlotsInv(j)'
  BY <1>2, FS_EmptySet DEF PipelineInv, SlotsInv, EndInv
<1>4. EndInv(j)'
  BY DEF PipelineInv, EndInv
<1>5. WholeInv(j)'
  BY DEF PipelineInv, WholeInv
<1> QED  BY <1>1, <1>3, <1>4, <1>5 DEF PipelineInv

-----------------------------------------------------------------------------
(* The jobs.                                                               *)

SameJob(i) ==
    /\ at'[i] = at[i] /\ before'[i] = before[i] /\ key'[i] = key[i]
    /\ from'[i] = from[i] /\ result'[i] = result[i]

RestTypeOK ==
    /\ at \in [Jobs -> Points]
    /\ before \in [Jobs -> Versions]
    /\ key \in [Jobs -> 0 .. MaxEvents + 1]
    /\ from \in [Jobs -> SUBSET Versions]
    /\ result \in [Jobs -> Results]
    /\ lock \in [Versions -> Jobs \cup {None}]
    /\ cache \in [Versions -> Results]
    /\ asr \subseteq Requests
    /\ version \in Versions
    /\ life \in 0 .. MaxEvents /\ events \in 0 .. MaxEvents

LEMMA TypeParts == TypeOK <=> P!TypeOK /\ RestTypeOK
BY DEF TypeOK, RestTypeOK

LEMMA JobFrame ==
    ASSUME IInv, NEW i \in Jobs, SamePipe(i), SameJob(i),
           version' \in {version, version + 1}
    PROVE  PipelineInv(i)' /\ PlaceInv(i)' /\ OriginInv(i)'
<1>1. PipelineInv(i)'
  BY PipelineFrame DEF IInv
<1>2. PlaceInv(i)'
  BY DEF IInv, PlaceInv, SamePipe, SameJob
<1>3. OriginInv(i)'
  <2>1. before[i] \in Int /\ version \in Int
    BY AnalysisAssumption DEF IInv, TypeOK, Versions
  <2>2. before[i] .. version \subseteq before'[i] .. version' /\ before'[i] <= version'
    BY <2>1 DEF IInv, OriginInv, SameJob
  <2> QED  BY <2>2 DEF IInv, OriginInv, SameJob, WholeResult
<1> QED  BY <1>1, <1>2, <1>3

(* What is left to show of a step of job j.                                *)
LEMMA StepOfJob ==
    ASSUME IInv, NEW j \in Jobs, version' = version,
           P!TypeOK', PipelineInv(j)', \A i \in Jobs \ {j} : SamePipe(i) /\ SameJob(i),
           RestTypeOK', EventInv', CacheInv', PlaceInv(j)', OriginInv(j)'
    PROVE  IInv'
<1>1. TypeOK'
  BY TypeParts DEF TypeOK, RestTypeOK
<1>2. ASSUME NEW i \in Jobs
      PROVE  PipelineInv(i)' /\ PlaceInv(i)' /\ OriginInv(i)'
  BY JobFrame
<1> QED  BY <1>1, <1>2 DEF IInv

(* A step of job j outside its pipeline.                                   *)
LEMMA QuietStep ==
    ASSUME IInv, NEW j \in Jobs, UNCHANGED <<pipeline, asr, outside>>,
           \A i \in Jobs \ {j} : SameJob(i),
           RestTypeOK', CacheInv', PlaceInv(j)', OriginInv(j)'
    PROVE  IInv'
<1>1. P!TypeOK' /\ version' = version /\ EventInv'
  BY DEF IInv, TypeOK, P!TypeOK, pipeline, outside, EventInv
<1>2. \A i \in Jobs : SamePipe(i)
  BY DEF SamePipe, pipeline
<1>3. PipelineInv(j)'
  BY <1>2, PipelineFrame DEF IInv
<1> QED  BY <1>1, <1>2, <1>3, StepOfJob

LEMMA Numbers ==
    ASSUME IInv, NEW j \in Jobs
    PROVE  /\ Versions \subseteq 0 .. MaxEvents + 1 /\ 0 \in 0 .. MaxEvents + 1
           /\ version \in Int /\ before[j] \in Int /\ key[j] \in Int
           /\ key[j] # 0 => key[j] \in Versions
           /\ before[j] > 0
BY AnalysisAssumption DEF IInv, TypeOK, Versions

LEMMA OpenKeeps ==
    ASSUME IInv, NEW j \in Jobs, Open(j)
    PROVE  IInv'
<1> USE DEF Open, Goto, mine, sharing, outside, pipeline
<1>0. /\ Versions \subseteq 0 .. MaxEvents + 1 /\ 0 \in 0 .. MaxEvents + 1
      /\ version \in Int /\ before[j] \in Int /\ key[j] \in Int
      /\ key[j] # 0 => key[j] \in Versions
      /\ before[j] > 0
  BY Numbers
<1>1. RestTypeOK' /\ \A i \in Jobs \ {j} : SameJob(i)
  BY <1>0 DEF IInv, TypeOK, RestTypeOK, SameJob, Points
<1>2. CacheInv'
  BY <1>0 DEF IInv, TypeOK, CacheInv, WholeResult
<1>3. PlaceInv(j)'
  BY <1>0 DEF IInv, TypeOK, PlaceInv
<1>4. OriginInv(j)'
  BY <1>0 DEF IInv, TypeOK, OriginInv, PlaceInv, WholeResult
<1> QED  BY <1>1, <1>2, <1>3, <1>4, QuietStep

LEMMA HashKeeps ==
    ASSUME IInv, NEW j \in Jobs, Hash(j)
    PROVE  IInv'
<1> USE DEF Hash, Goto, mine, sharing, outside, pipeline
<1>0. /\ Versions \subseteq 0 .. MaxEvents + 1 /\ 0 \in 0 .. MaxEvents + 1
      /\ version \in Int /\ before[j] \in Int /\ key[j] \in Int
      /\ key[j] # 0 => key[j] \in Versions
      /\ before[j] > 0
  BY Numbers
<1>1. RestTypeOK' /\ \A i \in Jobs \ {j} : SameJob(i)
  BY <1>0 DEF IInv, TypeOK, RestTypeOK, SameJob, Points
<1>2. CacheInv'
  BY <1>0 DEF IInv, TypeOK, CacheInv, WholeResult
<1>3. PlaceInv(j)'
  BY <1>0 DEF IInv, TypeOK, PlaceInv
<1>4. OriginInv(j)'
  BY <1>0 DEF IInv, TypeOK, OriginInv, PlaceInv, WholeResult
<1> QED  BY <1>1, <1>2, <1>3, <1>4, QuietStep

LEMMA StatKeeps ==
    ASSUME IInv, NEW j \in Jobs, Stat(j)
    PROVE  IInv'
<1> USE DEF Stat, Goto, mine, sharing, outside, pipeline
<1>0. /\ Versions \subseteq 0 .. MaxEvents + 1 /\ 0 \in 0 .. MaxEvents + 1
      /\ version \in Int /\ before[j] \in Int /\ key[j] \in Int
      /\ key[j] # 0 => key[j] \in Versions
      /\ before[j] > 0
  BY Numbers
<1>1. RestTypeOK' /\ \A i \in Jobs \ {j} : SameJob(i)
  BY <1>0 DEF IInv, TypeOK, RestTypeOK, SameJob, Points
<1>2. CacheInv'
  BY <1>0 DEF IInv, TypeOK, CacheInv, WholeResult
<1>3. PlaceInv(j)'
  BY <1>0 DEF IInv, TypeOK, PlaceInv, OriginInv
<1>4. OriginInv(j)'
  BY <1>0 DEF IInv, TypeOK, OriginInv, PlaceInv, WholeResult
<1> QED  BY <1>1, <1>2, <1>3, <1>4, QuietStep

LEMMA TakeLockKeeps ==
    ASSUME IInv, NEW j \in Jobs, TakeLock(j)
    PROVE  IInv'
<1> USE DEF TakeLock, Goto, mine, sharing, outside, pipeline
<1>0. /\ Versions \subseteq 0 .. MaxEvents + 1 /\ 0 \in 0 .. MaxEvents + 1
      /\ version \in Int /\ before[j] \in Int /\ key[j] \in Int
      /\ key[j] # 0 => key[j] \in Versions
      /\ before[j] > 0
  BY Numbers
<1>1. RestTypeOK' /\ \A i \in Jobs \ {j} : SameJob(i)
  BY <1>0 DEF IInv, TypeOK, RestTypeOK, SameJob, Points, PlaceInv
<1>2. CacheInv'
  BY <1>0 DEF IInv, TypeOK, CacheInv, WholeResult
<1>3. PlaceInv(j)'
  BY <1>0 DEF IInv, TypeOK, PlaceInv
<1>4. OriginInv(j)'
  BY <1>0 DEF IInv, TypeOK, OriginInv, PlaceInv, WholeResult
<1> QED  BY <1>1, <1>2, <1>3, <1>4, QuietStep

LEMMA LookupKeeps ==
    ASSUME IInv, NEW j \in Jobs, Lookup(j)
    PROVE  IInv'
<1> USE DEF Lookup, Goto, mine, sharing, outside, pipeline
<1>0. /\ Versions \subseteq 0 .. MaxEvents + 1 /\ 0 \in 0 .. MaxEvents + 1
      /\ version \in Int /\ before[j] \in Int /\ key[j] \in Int
      /\ key[j] # 0 => key[j] \in Versions
      /\ before[j] > 0
  BY Numbers
<1>1. RestTypeOK' /\ \A i \in Jobs \ {j} : SameJob(i)
  BY <1>0 DEF IInv, TypeOK, RestTypeOK, SameJob, Points, PlaceInv
<1>2. CacheInv'
  BY <1>0 DEF IInv, TypeOK, CacheInv, WholeResult
<1>3. PlaceInv(j)'
  BY <1>0 DEF IInv, TypeOK, PlaceInv
<1>4. OriginInv(j)'
  BY <1>0 DEF IInv, TypeOK, OriginInv, PlaceInv, WholeResult, CacheInv
<1> QED  BY <1>1, <1>2, <1>3, <1>4, QuietStep

LEMMA GroupKeeps ==
    ASSUME IInv, NEW j \in Jobs, Group(j)
    PROVE  IInv'
<1> USE DEF Group, Goto, mine, sharing, outside, pipeline
<1>0. /\ Versions \subseteq 0 .. MaxEvents + 1 /\ 0 \in 0 .. MaxEvents + 1
      /\ version \in Int /\ before[j] \in Int /\ key[j] \in Int
      /\ key[j] # 0 => key[j] \in Versions
      /\ before[j] > 0
  BY Numbers
<1>1. RestTypeOK' /\ \A i \in Jobs \ {j} : SameJob(i)
  BY <1>0 DEF IInv, TypeOK, RestTypeOK, SameJob, Points
<1>2. CacheInv'
  BY <1>0 DEF IInv, TypeOK, CacheInv, WholeResult
<1>3. PlaceInv(j)'
  BY <1>0 DEF IInv, TypeOK, PlaceInv
<1>4. OriginInv(j)'
  BY <1>0 DEF IInv, TypeOK, OriginInv, PlaceInv, WholeResult, NoResult
<1> QED  BY <1>1, <1>2, <1>3, <1>4, QuietStep

LEMMA AlignKeeps ==
    ASSUME IInv, NEW j \in Jobs, Align(j)
    PROVE  IInv'
<1> USE DEF Align, Goto, mine, sharing, outside, pipeline
<1>0. /\ Versions \subseteq 0 .. MaxEvents + 1 /\ 0 \in 0 .. MaxEvents + 1
      /\ version \in Int /\ before[j] \in Int /\ key[j] \in Int
      /\ key[j] # 0 => key[j] \in Versions
      /\ before[j] > 0
  BY Numbers
<1>a. /\ from[j] \subseteq Versions /\ version \in Versions
      /\ from[j] \subseteq before[j] .. version /\ before[j] <= version
      /\ heard[j] \subseteq 1 .. Chunks
  BY DEF IInv, TypeOK, P!TypeOK, OriginInv
<1>b. ~cancelled[j] => heard[j] = 1 .. Chunks
  BY DEF IInv, PlaceInv, PipelineInv, WholeInv
<1>c. CASE cancelled[j]
  <2>1. RestTypeOK' /\ \A i \in Jobs \ {j} : SameJob(i)
    BY <1>c DEF IInv, TypeOK, RestTypeOK, SameJob, Points
  <2>2. CacheInv'
    BY <1>c DEF IInv, TypeOK, CacheInv, WholeResult
  <2>3. PlaceInv(j)'
    BY <1>c DEF IInv, TypeOK, PlaceInv
  <2>4. OriginInv(j)'
    BY <1>0, <1>c DEF IInv, TypeOK, OriginInv, PlaceInv, WholeResult, NoResult
  <2> QED  BY <2>1, <2>2, <2>3, <2>4, QuietStep
<1>d. CASE ~cancelled[j]
  <2>a. /\ from' = [from EXCEPT ![j] = from[j] \cup {version}]
        /\ result' = [result EXCEPT ![j] = [from |-> from'[j], heard |-> 1 .. Chunks]]
        /\ from'[j] = from[j] \cup {version}
    BY <1>b, <1>d DEF IInv, TypeOK
  <2>b. /\ from' \in [Jobs -> SUBSET Versions]
        /\ [from |-> from'[j], heard |-> 1 .. Chunks] \in Results
    BY <1>a, <2>a DEF IInv, TypeOK, Results
  <2>1. RestTypeOK' /\ \A i \in Jobs \ {j} : SameJob(i)
    BY <2>a, <2>b DEF IInv, TypeOK, RestTypeOK, SameJob, Points
  <2>2. CacheInv'
    BY DEF IInv, TypeOK, CacheInv, WholeResult
  <2>3. PlaceInv(j)'
    BY <2>a DEF IInv, TypeOK, PlaceInv, NoResult
  <2>4. OriginInv(j)'
    <3>1. /\ result'[j].from = from'[j] /\ result'[j].heard = 1 .. Chunks
          /\ from'[j] \subseteq before[j] .. version
          /\ at'[j] = "cleaning" /\ before' = before /\ key' = key /\ version' = version
      BY <1>0, <1>a, <2>a DEF IInv, TypeOK
    <3> QED  BY <3>1, <1>a DEF IInv, OriginInv, WholeResult
  <2> QED  BY <2>1, <2>2, <2>3, <2>4, QuietStep
<1> QED  BY <1>c, <1>d

LEMMA RecheckKeeps ==
    ASSUME IInv, NEW j \in Jobs, Recheck(j)
    PROVE  IInv'
<1> USE DEF Recheck, Goto, mine, sharing, outside, pipeline
<1>0. /\ Versions \subseteq 0 .. MaxEvents + 1 /\ 0 \in 0 .. MaxEvents + 1
      /\ version \in Int /\ before[j] \in Int /\ key[j] \in Int
      /\ key[j] # 0 => key[j] \in Versions
      /\ before[j] > 0
  BY Numbers
<1>1. RestTypeOK' /\ \A i \in Jobs \ {j} : SameJob(i)
  BY <1>0 DEF IInv, TypeOK, RestTypeOK, SameJob, Points
<1>2. CacheInv'
  BY <1>0 DEF IInv, TypeOK, CacheInv, WholeResult
<1>3. PlaceInv(j)'
  BY <1>0 DEF IInv, TypeOK, PlaceInv
<1>4. OriginInv(j)'
  BY <1>0 DEF IInv, TypeOK, OriginInv, PlaceInv, WholeResult
<1> QED  BY <1>1, <1>2, <1>3, <1>4, QuietStep

LEMMA StoreKeeps ==
    ASSUME IInv, NEW j \in Jobs, Store(j)
    PROVE  IInv'
<1> USE DEF Store, Goto, mine, sharing, outside, pipeline
<1>0. /\ Versions \subseteq 0 .. MaxEvents + 1 /\ 0 \in 0 .. MaxEvents + 1
      /\ version \in Int /\ before[j] \in Int /\ key[j] \in Int
      /\ key[j] # 0 => key[j] \in Versions
      /\ before[j] > 0
  BY Numbers
<1>1. RestTypeOK' /\ \A i \in Jobs \ {j} : SameJob(i)
  BY <1>0 DEF IInv, TypeOK, RestTypeOK, SameJob, Points, PlaceInv
<1>2. CacheInv'
  BY <1>0 DEF IInv, TypeOK, CacheInv, WholeResult, PlaceInv, OriginInv
<1>3. PlaceInv(j)'
  BY <1>0 DEF IInv, TypeOK, PlaceInv
<1>4. OriginInv(j)'
  BY <1>0 DEF IInv, TypeOK, OriginInv, PlaceInv, WholeResult
<1> QED  BY <1>1, <1>2, <1>3, <1>4, QuietStep

LEMMA UnlockKeeps ==
    ASSUME IInv, NEW j \in Jobs, Unlock(j)
    PROVE  IInv'
<1> USE DEF Unlock, Goto, mine, sharing, outside, pipeline
<1>0. /\ Versions \subseteq 0 .. MaxEvents + 1 /\ 0 \in 0 .. MaxEvents + 1
      /\ version \in Int /\ before[j] \in Int /\ key[j] \in Int
      /\ key[j] # 0 => key[j] \in Versions
      /\ before[j] > 0
  BY Numbers
<1>1. RestTypeOK' /\ \A i \in Jobs \ {j} : SameJob(i)
  BY <1>0 DEF IInv, TypeOK, RestTypeOK, SameJob, Points, PlaceInv
<1>2. CacheInv'
  BY <1>0 DEF IInv, TypeOK, CacheInv, WholeResult
<1>3. PlaceInv(j)'
  BY <1>0 DEF IInv, TypeOK, PlaceInv
<1>4. OriginInv(j)'
  BY <1>0 DEF IInv, TypeOK, OriginInv, PlaceInv, WholeResult
<1> QED  BY <1>1, <1>2, <1>3, <1>4, QuietStep

LEMMA AnalysisBegins ==
    ASSUME IInv, NEW j \in Jobs, Begin(j)
    PROVE  IInv'
<1> USE DEF Begin, Goto, mine, sharing, outside
<1>0. /\ Versions \subseteq 0 .. MaxEvents + 1 /\ 0 \in 0 .. MaxEvents + 1
      /\ version \in Int /\ before[j] \in Int /\ key[j] \in Int
      /\ version \in Versions /\ version' = version
  BY Numbers DEF IInv, TypeOK
<1>1. P!TypeOK' /\ PipelineInv(j)' /\ \A i \in Jobs \ {j} : SamePipe(i)
  BY BeginKeeps DEF IInv, TypeOK
<1>2. RestTypeOK' /\ \A i \in Jobs \ {j} : SameJob(i)
  BY <1>0 DEF IInv, TypeOK, RestTypeOK, SameJob, Points
<1>3. CacheInv' /\ EventInv'
  BY DEF IInv, CacheInv, EventInv, WholeResult
<1>4. PlaceInv(j)'
  BY DEF IInv, TypeOK, P!TypeOK, PlaceInv, P!Begin
<1>5. OriginInv(j)'
  BY <1>0 DEF IInv, TypeOK, P!TypeOK, OriginInv, PlaceInv, WholeResult, P!Begin
<1> QED  BY <1>0, <1>1, <1>2, <1>3, <1>4, <1>5, StepOfJob

LEMMA PrepareKeeps ==
    ASSUME IInv, NEW j \in Jobs, Prepare(j)
    PROVE  IInv'
<1> USE DEF Prepare, Goto, mine, sharing, outside
<1>0. /\ Versions \subseteq 0 .. MaxEvents + 1 /\ 0 \in 0 .. MaxEvents + 1
      /\ version \in Int /\ before[j] \in Int /\ key[j] \in Int
      /\ version \in Versions /\ version' = version
  BY Numbers DEF IInv, TypeOK
<1>1. P!TypeOK' /\ PipelineInv(j)' /\ \A i \in Jobs \ {j} : SamePipe(i)
  BY AcquireKeeps, ExtractedKeeps, SendKeeps, ProducerQuitsKeeps DEF IInv, TypeOK
<1>2. RestTypeOK' /\ \A i \in Jobs \ {j} : SameJob(i)
  BY <1>0 DEF IInv, TypeOK, RestTypeOK, SameJob, Points
<1>3. CacheInv' /\ EventInv'
  BY DEF IInv, CacheInv, EventInv, WholeResult
<1>4. PlaceInv(j)'
  BY DEF IInv, TypeOK, P!TypeOK, PlaceInv, P!Acquire, P!Extracted, P!Send, P!ProducerQuits, P!hearing
<1>5. OriginInv(j)'
  BY <1>0 DEF IInv, TypeOK, P!TypeOK, OriginInv, PlaceInv, WholeResult, P!Acquire, P!Extracted, P!Send, P!ProducerQuits, P!hearing, PipelineInv, EndInv
<1> QED  BY <1>0, <1>1, <1>2, <1>3, <1>4, <1>5, StepOfJob

LEMMA ListenKeeps ==
    ASSUME IInv, NEW j \in Jobs, Listen(j)
    PROVE  IInv'
<1> USE DEF Listen, Goto, mine, sharing, outside
<1>0. /\ Versions \subseteq 0 .. MaxEvents + 1 /\ 0 \in 0 .. MaxEvents + 1
      /\ version \in Int /\ before[j] \in Int /\ key[j] \in Int
      /\ version \in Versions /\ version' = version
  BY Numbers DEF IInv, TypeOK
<1>1. P!TypeOK' /\ PipelineInv(j)' /\ \A i \in Jobs \ {j} : SamePipe(i)
  BY ReceiveKeeps DEF IInv, TypeOK
<1>2. RestTypeOK' /\ \A i \in Jobs \ {j} : SameJob(i)
  BY <1>0 DEF IInv, TypeOK, RestTypeOK, SameJob, Points, Requests
<1>3. CacheInv' /\ EventInv'
  BY DEF IInv, CacheInv, EventInv, WholeResult
<1>4. PlaceInv(j)'
  BY DEF IInv, TypeOK, P!TypeOK, PlaceInv, P!ReceiveStep, P!Receive, P!ReceiveEnd, P!ReceiveQuit, P!preparing
<1>5. OriginInv(j)'
  BY <1>0 DEF IInv, TypeOK, P!TypeOK, OriginInv, PlaceInv, WholeResult, P!ReceiveStep, P!Receive, P!ReceiveEnd, P!ReceiveQuit, P!preparing
<1> QED  BY <1>0, <1>1, <1>2, <1>3, <1>4, <1>5, StepOfJob

LEMMA HangKeeps ==
    ASSUME IInv, NEW j \in Jobs, Hang(j)
    PROVE  IInv'
<1> USE DEF Hang, Goto, mine, sharing, outside
<1>0. /\ Versions \subseteq 0 .. MaxEvents + 1 /\ 0 \in 0 .. MaxEvents + 1
      /\ version \in Int /\ before[j] \in Int /\ key[j] \in Int
      /\ version \in Versions /\ version' = version
  BY Numbers DEF IInv, TypeOK
<1>1. P!TypeOK' /\ PipelineInv(j)' /\ \A i \in Jobs \ {j} : SamePipe(i)
  BY ConsumedKeeps DEF IInv, TypeOK
<1>2. RestTypeOK' /\ \A i \in Jobs \ {j} : SameJob(i)
  BY <1>0 DEF IInv, TypeOK, RestTypeOK, SameJob, Points
<1>3. CacheInv' /\ EventInv'
  BY DEF IInv, CacheInv, EventInv, WholeResult
<1>4. PlaceInv(j)'
  BY DEF IInv, TypeOK, P!TypeOK, PlaceInv, P!Consumed, P!preparing
<1>5. OriginInv(j)'
  BY <1>0 DEF IInv, TypeOK, P!TypeOK, OriginInv, PlaceInv, WholeResult, P!Consumed, P!preparing
<1> QED  BY <1>0, <1>1, <1>2, <1>3, <1>4, <1>5, StepOfJob

LEMMA PipelineEndsKeeps ==
    ASSUME IInv, NEW j \in Jobs, PipelineEnds(j)
    PROVE  IInv'
<1> USE DEF PipelineEnds, Goto, mine, sharing, outside
<1>0. /\ Versions \subseteq 0 .. MaxEvents + 1 /\ 0 \in 0 .. MaxEvents + 1
      /\ version \in Int /\ before[j] \in Int /\ key[j] \in Int
      /\ version \in Versions /\ version' = version
  BY Numbers DEF IInv, TypeOK
<1>1. P!TypeOK' /\ PipelineInv(j)' /\ \A i \in Jobs \ {j} : SamePipe(i)
  BY JoinKeeps DEF IInv, TypeOK
<1>2. RestTypeOK' /\ \A i \in Jobs \ {j} : SameJob(i)
  BY <1>0 DEF IInv, TypeOK, RestTypeOK, SameJob, Points
<1>3. CacheInv' /\ EventInv'
  BY DEF IInv, CacheInv, EventInv, WholeResult
<1>4. PlaceInv(j)'
  BY DEF IInv, TypeOK, P!TypeOK, PlaceInv, P!Join, P!preparing
<1>5. OriginInv(j)'
  BY <1>0 DEF IInv, TypeOK, P!TypeOK, OriginInv, PlaceInv, WholeResult, P!Join, P!preparing, NoResult
<1> QED  BY <1>0, <1>1, <1>2, <1>3, <1>4, <1>5, StepOfJob

LEMMA JobCleanUpKeeps ==
    ASSUME IInv, NEW j \in Jobs, CleanUp(j)
    PROVE  IInv'
<1> USE DEF CleanUp, Goto, mine, sharing, outside
<1>0. /\ Versions \subseteq 0 .. MaxEvents + 1 /\ 0 \in 0 .. MaxEvents + 1
      /\ version \in Int /\ before[j] \in Int /\ key[j] \in Int
      /\ version \in Versions /\ version' = version
  BY Numbers DEF IInv, TypeOK
<1>1. P!TypeOK' /\ PipelineInv(j)' /\ \A i \in Jobs \ {j} : SamePipe(i)
  BY CleanUpKeeps DEF IInv, TypeOK
<1>2. RestTypeOK' /\ \A i \in Jobs \ {j} : SameJob(i)
  BY <1>0 DEF IInv, TypeOK, RestTypeOK, SameJob, Points
<1>3. CacheInv' /\ EventInv'
  BY DEF IInv, CacheInv, EventInv, WholeResult
<1>4. PlaceInv(j)'
  <2>1. /\ ear'[j] = "over" /\ result' = result /\ key' = key
        /\ at'[j] \in {"failed", "done", "unlock", "recheck"}
        /\ at'[j] = "failed" => result[j] = NoResult
        /\ at'[j] \in {"done", "recheck"} => result[j] # NoResult
        /\ at'[j] \in {"unlock", "recheck"} => key[j] # 0
    BY DEF IInv, TypeOK, P!TypeOK, P!CleanUp
  <2> QED  BY <2>1 DEF PlaceInv
<1>5. OriginInv(j)'
  BY <1>0 DEF IInv, TypeOK, P!TypeOK, OriginInv, PlaceInv, WholeResult, P!CleanUp, P!preparing
<1> QED  BY <1>0, <1>1, <1>2, <1>3, <1>4, <1>5, StepOfJob

LEMMA TimeIsUpKeeps ==
    ASSUME IInv, NEW j \in Jobs, TimeIsUp(j)
    PROVE  IInv'
<1> USE DEF TimeIsUp, Event, Goto, mine, sharing, outside
<1>0. /\ Versions \subseteq 0 .. MaxEvents + 1 /\ 0 \in 0 .. MaxEvents + 1
      /\ version \in Int /\ before[j] \in Int /\ key[j] \in Int
      /\ version \in Versions /\ version' = version
      /\ MaxEvents \in Nat
  BY Numbers, AnalysisAssumption DEF IInv, TypeOK
<1>1. P!TypeOK' /\ PipelineInv(j)' /\ \A i \in Jobs \ {j} : SamePipe(i)
  BY CancelKeeps DEF IInv, TypeOK
<1>2. RestTypeOK' /\ \A i \in Jobs \ {j} : SameJob(i)
  BY <1>0 DEF IInv, TypeOK, RestTypeOK, SameJob, Points
<1>3. CacheInv' /\ EventInv'
  BY <1>0 DEF IInv, TypeOK, CacheInv, EventInv, WholeResult
<1>4. PlaceInv(j)'
  BY DEF IInv, TypeOK, P!TypeOK, PlaceInv, P!Cancel, P!preparing, P!hearing
<1>5. OriginInv(j)'
  BY <1>0 DEF IInv, TypeOK, P!TypeOK, OriginInv, PlaceInv, WholeResult, P!Cancel, P!preparing, P!hearing
<1> QED  BY <1>0, <1>1, <1>2, <1>3, <1>4, <1>5, StepOfJob

-----------------------------------------------------------------------------
(* Everyone else.                                                          *)

LEMMA StepOfOthers ==
    ASSUME IInv, UNCHANGED <<pipeline, at, mine>>, version' \in {version, version + 1},
           RestTypeOK', EventInv', CacheInv'
    PROVE  IInv'
<1>1. TypeOK'
  BY TypeParts DEF IInv, TypeOK, RestTypeOK, P!TypeOK, pipeline
<1>2. \A i \in Jobs : SamePipe(i) /\ SameJob(i)
  BY DEF SamePipe, SameJob, pipeline, mine
<1>3. \A i \in Jobs : PipelineInv(i)' /\ PlaceInv(i)' /\ OriginInv(i)'
  BY <1>2, JobFrame
<1> QED  BY <1>1, <1>3 DEF IInv

LEMMA ServeKeeps ==
    ASSUME IInv, NEW r \in asr, Serve(r)
    PROVE  IInv'
<1> USE DEF Serve, Becomes, sharing, outside
<1>1. asr' \subseteq Requests
  <2>1. r \in Requests
    BY DEF IInv, TypeOK
  <2>2. [r EXCEPT !.at = "serving"] \in Requests
    BY <2>1 DEF Requests
  <2> QED  BY <2>2 DEF IInv, TypeOK
<1>2. RestTypeOK'
  BY <1>1 DEF IInv, TypeOK, RestTypeOK, mine
<1>3. EventInv' /\ CacheInv'
  BY DEF IInv, EventInv, CacheInv, WholeResult
<1> QED  BY <1>2, <1>3, StepOfOthers

LEMMA AnswerKeeps ==
    ASSUME IInv, NEW r \in asr, Answer(r)
    PROVE  IInv'
<1> USE DEF Answer, sharing, outside
<1>1. r.job \in Jobs
  BY DEF IInv, TypeOK, Requests
<1>2. RestTypeOK'
  BY DEF IInv, TypeOK, RestTypeOK, mine
<1>3. EventInv' /\ CacheInv'
  BY DEF IInv, EventInv, CacheInv, WholeResult
<1>4. CASE UNCHANGED pipeline
  BY <1>2, <1>3, <1>4, StepOfOthers
<1>5. ASSUME NEW ok \in BOOLEAN, P!Consumed(r.job, ok)
      PROVE  IInv'
  <2>1. /\ P!TypeOK' /\ PipelineInv(r.job)'
        /\ \A i \in Jobs \ {r.job} : SamePipe(i) /\ SameJob(i)
    BY <1>1, <1>5, ConsumedKeeps DEF IInv, TypeOK, SameJob, mine
  <2>2. PlaceInv(r.job)'
    BY <1>1, <1>5 DEF IInv, TypeOK, P!TypeOK, PlaceInv, mine, P!Consumed
  <2>3. OriginInv(r.job)'
    BY <1>1, <1>5 DEF IInv, TypeOK, OriginInv, WholeResult, mine
  <2> QED  BY <1>1, <1>2, <1>3, <2>1, <2>2, <2>3, StepOfJob
<1> QED  BY <1>4, <1>5

LEMMA RewriteKeeps ==
    ASSUME IInv, Rewrite
    PROVE  IInv'
<1> USE DEF Rewrite, Event, sharing
<1>1. events' \in 0 .. MaxEvents /\ version' \in Versions /\ EventInv'
  BY AnalysisAssumption DEF IInv, TypeOK, EventInv, Versions
<1>2. RestTypeOK' /\ CacheInv'
  BY <1>1 DEF IInv, TypeOK, RestTypeOK, CacheInv, WholeResult, mine
<1> QED  BY <1>1, <1>2, StepOfOthers

LEMMA CacheExpiresKeeps ==
    ASSUME IInv, CacheExpires
    PROVE  IInv'
<1> USE DEF CacheExpires, Event
<1>1. PICK v \in Versions : cache' = [cache EXCEPT ![v] = NoResult]
  OBVIOUS
<1>2. events' \in 0 .. MaxEvents /\ EventInv'
  BY AnalysisAssumption DEF IInv, TypeOK, EventInv, Versions
<1>3. cache' \in [Versions -> Results]
  BY <1>1 DEF IInv, TypeOK, Results, NoResult
<1>4. RestTypeOK'
  BY <1>2, <1>3 DEF IInv, TypeOK, RestTypeOK, mine
<1>5. ASSUME NEW w \in Versions
      PROVE  WholeResult(cache'[w]) /\ cache'[w].from \subseteq {w}
  <2>1. CASE w = v
    <3>1. cache'[w] = NoResult
      BY <1>1, <2>1 DEF IInv, TypeOK
    <3> QED  BY <3>1 DEF WholeResult, NoResult
  <2>2. CASE w # v
    <3>1. cache'[w] = cache[w]
      BY <1>1, <2>2 DEF IInv, TypeOK
    <3> QED  BY <3>1 DEF IInv, CacheInv, WholeResult
  <2> QED  BY <2>1, <2>2
<1>6. CacheInv'
  BY <1>5 DEF CacheInv, WholeResult, NoResult, Versions
<1> QED  BY <1>2, <1>4, <1>6, StepOfOthers

(* A job that begins.                                                      *)
Fresh(j) ==
    /\ at[j] = "open" /\ before[j] = 1 /\ key[j] = 0
    /\ from[j] = {} /\ result[j] = NoResult
    /\ producer[j] = "none" /\ next[j] = 1 /\ queue[j] = 0 /\ slots[j] = 0
    /\ wav[j] = {} /\ ear[j] = "off" /\ held[j] = 0 /\ heard[j] = {} /\ ~broken[j]

LEMMA FreshIsFine ==
    ASSUME NEW j \in Jobs, Fresh(j), version \in Versions
    PROVE  PipelineInv(j) /\ PlaceInv(j) /\ OriginInv(j)
<1> USE DEF Fresh
<1>1. P!InFlight(j) = {}
  BY DEF P!InFlight
<1>2. SlotsInv(j)
  BY <1>1, FS_EmptySet DEF SlotsInv
<1>3. EndInv(j) /\ WholeInv(j)
  BY DEF EndInv, WholeInv
<1>4. PlaceInv(j)
  BY DEF PlaceInv
<1>5. OriginInv(j)
  BY AnalysisAssumption DEF OriginInv, WholeResult, Versions, NoResult
<1> QED  BY <1>2, <1>3, <1>4, <1>5 DEF PipelineInv

LEMMA FreshIsFineAfter ==
    ASSUME NEW j \in Jobs, Fresh(j)', version' \in Versions
    PROVE  PipelineInv(j)' /\ PlaceInv(j)' /\ OriginInv(j)'
<1> USE DEF Fresh
<1>1. P!InFlight(j)' = {}
  BY DEF P!InFlight
<1>2. SlotsInv(j)'
  BY <1>1, FS_EmptySet DEF SlotsInv
<1>3. EndInv(j)' /\ WholeInv(j)'
  BY DEF EndInv, WholeInv
<1>4. PlaceInv(j)'
  BY DEF PlaceInv
<1>5. OriginInv(j)'
  BY AnalysisAssumption DEF OriginInv, WholeResult, Versions, NoResult
<1> QED  BY <1>2, <1>3, <1>4, <1>5 DEF PipelineInv

LEMMA RestartKeeps ==
    ASSUME IInv, Restart
    PROVE  IInv'
<1>1. /\ events' \in 0 .. MaxEvents /\ life' \in 0 .. MaxEvents /\ EventInv'
      /\ version' = version /\ version' \in Versions
  BY AnalysisAssumption DEF Restart, Event, IInv, TypeOK, EventInv, Versions
<1>2. P!TypeOK'
  <2>0. 0 \in 0 .. Chunks /\ 1 \in 1 .. Chunks /\ 0 \in 0 .. 2
    BY AnalysisAssumption DEF P!PipelineAssumption
  <2>1. producer' \in [Jobs -> P!ProducerPoints] /\ ear' \in [Jobs -> P!EarPoints]
    BY DEF Restart, IInv, TypeOK, P!TypeOK, P!ProducerPoints, P!EarPoints
  <2>2. /\ next' \in [Jobs -> 1 .. Chunks] /\ queue' \in [Jobs -> 0 .. Chunks]
        /\ slots' \in [Jobs -> 0 .. 2] /\ held' \in [Jobs -> 0 .. Chunks]
    BY <2>0 DEF Restart, IInv, TypeOK, P!TypeOK
  <2>3. /\ wav' \in [Jobs -> SUBSET (1 .. Chunks)] /\ heard' \in [Jobs -> SUBSET (1 .. Chunks)]
    BY DEF Restart, IInv, TypeOK, P!TypeOK
  <2>4. /\ spoilt' \in [Jobs -> BOOLEAN] /\ broken' \in [Jobs -> BOOLEAN]
        /\ cancelled' \in [Jobs -> BOOLEAN]
    BY DEF Restart, IInv, TypeOK, P!TypeOK
  <2> QED  BY <2>1, <2>2, <2>3, <2>4 DEF P!TypeOK
<1>3. RestTypeOK'
  <2>1. NoResult \in Results /\ 1 \in Versions /\ 0 \in 0 .. MaxEvents + 1
    BY AnalysisAssumption DEF NoResult, Results, Versions
  <2>2. /\ at' \in [Jobs -> Points] /\ before' \in [Jobs -> Versions]
        /\ key' \in [Jobs -> 0 .. MaxEvents + 1] /\ from' \in [Jobs -> SUBSET Versions]
        /\ result' \in [Jobs -> Results]
    BY <2>1 DEF Restart, IInv, TypeOK, Points
  <2> QED  BY <1>1, <2>2 DEF Restart, IInv, TypeOK, RestTypeOK
<1>4. CacheInv'
  BY DEF Restart, IInv, CacheInv, WholeResult
<1>5. ASSUME NEW i \in Jobs
      PROVE  PipelineInv(i)' /\ PlaceInv(i)' /\ OriginInv(i)'
  <2>1. CASE Over(i)
    <3>1. SamePipe(i) /\ SameJob(i)
      BY <2>1 DEF Restart, SamePipe, SameJob
    <3> QED  BY <1>1, <3>1, JobFrame
  <2>2. CASE ~Over(i)
    <3>1. Fresh(i)'
      BY <2>2 DEF Restart, Fresh
    <3> QED  BY <1>1, <3>1, FreshIsFineAfter
  <2> QED  BY <2>1, <2>2
<1>6. TypeOK'
  BY <1>2, <1>3 DEF TypeOK, RestTypeOK
<1> QED  BY <1>1, <1>4, <1>5, <1>6 DEF IInv
-----------------------------------------------------------------------------
(* The theorems.                                                           *)

LEMMA InitImplies ==
    ASSUME Init
    PROVE  IInv
<1> USE DEF Init, P!Init
<1>0. /\ 0 \in 0 .. Chunks /\ 1 \in 1 .. Chunks /\ 0 \in 0 .. 2
      /\ 1 \in Versions /\ 0 \in 0 .. MaxEvents /\ 0 \in 0 .. MaxEvents + 1
  BY AnalysisAssumption DEF P!PipelineAssumption, Versions
<1>1. P!TypeOK
  BY <1>0 DEF P!TypeOK, P!ProducerPoints, P!EarPoints
<1>2. RestTypeOK
  BY <1>0 DEF RestTypeOK, Points, NoResult, Results
<1>3. EventInv /\ CacheInv
  BY DEF EventInv, CacheInv, WholeResult, NoResult
<1>4. ASSUME NEW j \in Jobs
      PROVE  PipelineInv(j) /\ PlaceInv(j) /\ OriginInv(j)
  <2>1. Fresh(j)
    BY DEF Fresh
  <2> QED  BY <1>2, <2>1, FreshIsFine DEF RestTypeOK
<1> QED  BY <1>1, <1>2, <1>3, <1>4, TypeParts DEF IInv

LEMMA StutterKeeps ==
    ASSUME IInv, UNCHANGED vars
    PROVE  IInv'
<1>1. RestTypeOK' /\ EventInv' /\ CacheInv' /\ version' = version
  BY DEF vars, mine, sharing, outside, IInv, TypeOK, RestTypeOK, EventInv, CacheInv, WholeResult
<1> QED  BY <1>1, StepOfOthers DEF vars

LEMMA NextKeeps ==
    ASSUME IInv, [Next]_vars
    PROVE  IInv'
<1>1. CASE UNCHANGED vars
  BY <1>1, StutterKeeps
<1>2. ASSUME NEW j \in Jobs, JobStep(j) \/ Prepare(j) \/ TimeIsUp(j)
      PROVE  IInv'
  BY <1>2, OpenKeeps, HashKeeps, StatKeeps, TakeLockKeeps, LookupKeeps, AnalysisBegins,
     ListenKeeps, HangKeeps, PipelineEndsKeeps, GroupKeeps, AlignKeeps, JobCleanUpKeeps,
     RecheckKeeps, StoreKeeps, UnlockKeeps, PrepareKeeps, TimeIsUpKeeps DEF JobStep
<1>3. CASE Service
  BY <1>3, ServeKeeps, AnswerKeeps DEF Service
<1>4. CASE Rewrite \/ CacheExpires \/ Restart
  BY <1>4, RewriteKeeps, CacheExpiresKeeps, RestartKeeps
<1> QED  BY <1>1, <1>2, <1>3, <1>4 DEF Next

(* Pipelines, jobs and results stay consistent, whatever is rewritten,     *)
(* cancelled, restarted or answered too late.                              *)
THEOREM Consistent == Spec => []IInv
BY InitImplies, NextKeeps, PTL DEF Spec

(* Every variable has its type.                                            *)
THEOREM WellTyped == Spec => []TypeOK
<1>1. IInv => TypeOK
  BY DEF IInv
<1> QED  BY <1>1, Consistent, PTL

(* Of any number of chunks at most two audio files exist or are being      *)
(* written: each has one of the two slots until it is removed.             *)
THEOREM AtMostTwoFiles == Spec => []PrefetchIsBounded
<1>1. ASSUME IInv
      PROVE  PrefetchIsBounded
  <2>1. ASSUME NEW j \in Jobs
        PROVE  Cardinality(P!InFlight(j)) <= 2
    <3>1. Cardinality(P!InFlight(j)) \in Nat
      BY <1>1, FlightIsFinite DEF IInv, TypeOK
    <3>2. slots[j] \in 0 .. 2 /\ Cardinality(P!InFlight(j)) <= slots[j]
      BY <1>1 DEF IInv, TypeOK, P!TypeOK, PipelineInv, SlotsInv
    <3> QED  BY <3>1, <3>2
  <2> QED  BY <2>1 DEF PrefetchIsBounded
<1> QED  BY <1>1, Consistent, PTL

(* When the temporary directory of a job is removed its producer is over:  *)
(* no audio file appears after it.                                         *)
THEOREM NoFileAfterCleanup == Spec => []NothingAfterCleanup
<1>1. ASSUME IInv
      PROVE  NothingAfterCleanup
  BY <1>1 DEF IInv, PipelineInv, EndInv, NothingAfterCleanup, P!NothingAfterCleanup, P!InFlight
<1> QED  BY <1>1, Consistent, PTL

(* The pipeline ends without an error only when it was cancelled or when   *)
(* it heard the whole recording.                                           *)
THEOREM NilMeansWhole == Spec => []P!NilIsWhole
<1>1. ASSUME IInv
      PROVE  P!NilIsWhole
  BY <1>1 DEF IInv, PipelineInv, WholeInv, P!NilIsWhole
<1> QED  BY <1>1, Consistent, PTL

(* No job returns, and no cache keeps, news of a part of a recording,      *)
(* although a cancelled pipeline ends without an error.                    *)
THEOREM NoPartIsReturned == Spec => []ResultIsWhole
<1>1. ASSUME IInv
      PROVE  ResultIsWhole
  BY <1>1 DEF IInv, PlaceInv, OriginInv, CacheInv, WholeResult, ResultIsWhole
<1> QED  BY <1>1, Consistent, PTL

(* What is kept for a content was made from that content, however often    *)
(* and whenever the recording is rewritten.                                *)
THEOREM NothingStaleIsShared == Spec => []CacheIsRight
<1>1. ASSUME IInv
      PROVE  CacheIsRight
  BY <1>1 DEF IInv, CacheInv, CacheIsRight
<1> QED  BY <1>1, Consistent, PTL

=============================================================================
