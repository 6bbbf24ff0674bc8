---------------------------- MODULE AudioPipeline ----------------------------
(***************************************************************************)
(* recording_asr_pipeline.go: the audio of a recording is cut into chunks  *)
(* of ten minutes; a producer goroutine has FFmpeg prepare the next chunk  *)
(* while the consumer has the present one transcribed.  Two slots bound    *)
(* what is prepared, a channel of one place hands it over, and whatever    *)
(* ends the consumer cancels and joins the producer before the temporary   *)
(* directory is removed.                                                   *)
(*                                                                         *)
(* Consumed is transcribeNews, which succeeds or fails here as it likes;   *)
(* module NewsAnalysis puts the speech service in its place.               *)
(***************************************************************************)
EXTENDS Integers

CONSTANTS
    Jobs,
    Chunks     \* chunks of a recording

PipelineAssumption == Chunks \in Nat \ {0}

VARIABLES
    producer,   \* producer[j]: where the goroutine is
    next,       \* the chunk it prepares
    spoilt,     \* prepare returned an error for it
    queue,      \* the chunk in the channel, 0 when that is empty
    slots,      \* len(slots)
    wav,        \* chunks with a file in the temporary directory
    ear,        \* where the consumer is
    held,       \* the chunk it consumes, 0 when none
    heard,      \* chunks whose sentences were appended
    broken,     \* pipelineNewsAudio returned an error
    cancelled   \* the context of the job is done

pvars == <<producer, next, spoilt, queue, slots, wav, ear, held, heard, broken, cancelled>>
hearing == <<ear, held, heard, broken>>
preparing == <<producer, next, spoilt>>

ProducerPoints == {"none", "acquiring", "extracting", "sending", "ended"}
EarPoints == {"off", "receiving", "consuming", "leaving", "left", "over"}

TypeOK ==
    /\ producer \in [Jobs -> ProducerPoints]
    /\ next \in [Jobs -> 1 .. Chunks]
    /\ spoilt \in [Jobs -> BOOLEAN]
    /\ queue \in [Jobs -> 0 .. Chunks]
    /\ slots \in [Jobs -> 0 .. 2]
    /\ wav \in [Jobs -> SUBSET (1 .. Chunks)]
    /\ ear \in [Jobs -> EarPoints]
    /\ held \in [Jobs -> 0 .. Chunks]
    /\ heard \in [Jobs -> SUBSET (1 .. Chunks)]
    /\ broken \in [Jobs -> BOOLEAN]
    /\ cancelled \in [Jobs -> BOOLEAN]

Init ==
    /\ producer = [j \in Jobs |-> "none"]
    /\ next = [j \in Jobs |-> 1]
    /\ spoilt = [j \in Jobs |-> FALSE]
    /\ queue = [j \in Jobs |-> 0]
    /\ slots = [j \in Jobs |-> 0]
    /\ wav = [j \in Jobs |-> {}]
    /\ ear = [j \in Jobs |-> "off"]
    /\ held = [j \in Jobs |-> 0]
    /\ heard = [j \in Jobs |-> {}]
    /\ broken = [j \in Jobs |-> FALSE]
    /\ cancelled = [j \in Jobs |-> FALSE]

(* The derived context: done with the job's, or by the deferred cancel.    *)
Quit(j) == cancelled[j] \/ ear[j] = "leaving"

(* Two hours are over.                                                     *)
Cancel(j) ==
    /\ ~cancelled[j]
    /\ cancelled' = [cancelled EXCEPT ![j] = TRUE]
    /\ UNCHANGED <<preparing, queue, slots, wav, hearing>>

(* os.MkdirTemp, and the goroutine starts.                                 *)
Begin(j) ==
    /\ ear[j] = "off"
    /\ ear' = [ear EXCEPT ![j] = "receiving"]
    /\ producer' = [producer EXCEPT ![j] = "acquiring"]
    /\ UNCHANGED <<next, spoilt, queue, slots, wav, held, heard, broken, cancelled>>

-----------------------------------------------------------------------------
(* The producer.                                                           *)

AcquireFreely(j) ==   \* variant: no slots, the channel alone bounds the producer
    /\ producer[j] = "acquiring"
    /\ producer' = [producer EXCEPT ![j] = "extracting"]
    /\ UNCHANGED <<next, spoilt, queue, slots, wav, hearing, cancelled>>

Acquire(j) ==
    /\ producer[j] = "acquiring" /\ slots[j] < 2
    /\ slots' = [slots EXCEPT ![j] = @ + 1]
    /\ producer' = [producer EXCEPT ![j] = "extracting"]
    /\ UNCHANGED <<next, spoilt, queue, wav, hearing, cancelled>>

(* prepareNewsAudio: FFmpeg ended, or was killed by the context; it may    *)
(* leave a file in any case.                                               *)
Extracted(j) ==
    /\ producer[j] = "extracting"
    /\ wav' = [wav EXCEPT ![j] = @ \cup {next[j]}]
    /\ spoilt' \in {[spoilt EXCEPT ![j] = bad] : bad \in BOOLEAN}
    /\ producer' = [producer EXCEPT ![j] = "sending"]
    /\ UNCHANGED <<next, queue, slots, hearing, cancelled>>

SendOneMore(j) ==   \* variant: offset <= duration
    /\ producer[j] = "sending" /\ queue[j] = 0
    /\ queue' = [queue EXCEPT ![j] = next[j]]
    /\ IF spoilt[j] \/ next[j] > Chunks
       THEN producer' = [producer EXCEPT ![j] = "ended"] /\ UNCHANGED next
       ELSE /\ producer' = [producer EXCEPT ![j] = "acquiring"]
            /\ next' = [next EXCEPT ![j] = @ + 1]
    /\ UNCHANGED <<spoilt, slots, wav, hearing, cancelled>>

(* A chunk with an error is the last one.                                  *)
Send(j) ==
    /\ producer[j] = "sending" /\ queue[j] = 0
    /\ queue' = [queue EXCEPT ![j] = next[j]]
    /\ IF spoilt[j] \/ next[j] = Chunks
       THEN producer' = [producer EXCEPT ![j] = "ended"] /\ UNCHANGED next
       ELSE /\ producer' = [producer EXCEPT ![j] = "acquiring"]
            /\ next' = [next EXCEPT ![j] = @ + 1]
    /\ UNCHANGED <<spoilt, slots, wav, hearing, cancelled>>

ProducerQuits(j) ==
    /\ producer[j] \in {"acquiring", "sending"} /\ Quit(j)
    /\ producer' = [producer EXCEPT ![j] = "ended"]
    /\ UNCHANGED <<next, spoilt, queue, slots, wav, hearing, cancelled>>

-----------------------------------------------------------------------------
(* The consumer.                                                           *)

Receive(j) ==
    /\ ear[j] = "receiving" /\ queue[j] # 0
    /\ queue' = [queue EXCEPT ![j] = 0]
    /\ IF spoilt[j] /\ queue[j] = next[j]
       THEN /\ ear' = [ear EXCEPT ![j] = "leaving"]
            /\ broken' = [broken EXCEPT ![j] = TRUE]
            /\ UNCHANGED held
       ELSE /\ ear' = [ear EXCEPT ![j] = "consuming"]
            /\ held' = [held EXCEPT ![j] = queue[j]]
            /\ UNCHANGED broken
    /\ UNCHANGED <<preparing, slots, wav, heard, cancelled>>

(* The channel is closed and empty: nil, also when it was the context that *)
(* made the producer close it.                                             *)
ReceiveEnd(j) ==
    /\ ear[j] = "receiving" /\ queue[j] = 0 /\ producer[j] = "ended"
    /\ ear' = [ear EXCEPT ![j] = "leaving"]
    /\ UNCHANGED <<preparing, queue, slots, wav, held, heard, broken, cancelled>>

ReceiveQuit(j) ==
    /\ ear[j] = "receiving" /\ cancelled[j]
    /\ ear' = [ear EXCEPT ![j] = "leaving"]
    /\ broken' = [broken EXCEPT ![j] = TRUE]
    /\ UNCHANGED <<preparing, queue, slots, wav, held, heard, cancelled>>

(* consume returned: remove the file, give the slot back.                  *)
Consumed(j, ok) ==
    /\ ear[j] = "consuming"
    /\ wav' = [wav EXCEPT ![j] = @ \ {held[j]}]
    /\ slots' = [slots EXCEPT ![j] = @ - 1]
    /\ held' = [held EXCEPT ![j] = 0]
    /\ IF ok
       THEN /\ heard' = [heard EXCEPT ![j] = @ \cup {held[j]}]
            /\ ear' = [ear EXCEPT ![j] = "receiving"]
            /\ UNCHANGED broken
       ELSE /\ ear' = [ear EXCEPT ![j] = "leaving"]
            /\ broken' = [broken EXCEPT ![j] = TRUE]
            /\ UNCHANGED heard
    /\ UNCHANGED <<preparing, queue, cancelled>>

(* defer: cancel, then wait for the producer.                              *)
LeaveAtOnce(j) ==   \* variant: cancelled, but not joined
    /\ ear[j] = "leaving"
    /\ ear' = [ear EXCEPT ![j] = "left"]
    /\ UNCHANGED <<preparing, queue, slots, wav, held, heard, broken, cancelled>>

Join(j) ==
    /\ ear[j] = "leaving" /\ producer[j] = "ended"
    /\ ear' = [ear EXCEPT ![j] = "left"]
    /\ UNCHANGED <<preparing, queue, slots, wav, held, heard, broken, cancelled>>

(* The deferred os.RemoveAll of the temporary directory; channels, slots   *)
(* and sentences are garbage from here on.                                 *)
CleanUp(j) ==
    /\ ear[j] = "left"
    /\ ear' = [ear EXCEPT ![j] = "over"]
    /\ wav' = [wav EXCEPT ![j] = {}]
    /\ queue' = [queue EXCEPT ![j] = 0]
    /\ slots' = [slots EXCEPT ![j] = 0]
    /\ heard' = [heard EXCEPT ![j] = {}]
    /\ UNCHANGED <<preparing, held, broken, cancelled>>

ProducerStep(j) == Acquire(j) \/ Extracted(j) \/ Send(j) \/ ProducerQuits(j)
ReceiveStep(j) == Receive(j) \/ ReceiveEnd(j) \/ ReceiveQuit(j)

Next ==
    \E j \in Jobs :
        \/ Cancel(j) \/ Begin(j) \/ ProducerStep(j) \/ ReceiveStep(j)
        \/ \E ok \in BOOLEAN : Consumed(j, ok)
        \/ Join(j) \/ CleanUp(j)

Spec == Init /\ [][Next]_pvars

-----------------------------------------------------------------------------
(* Properties.                                                             *)

(* Audio files on disk, the one FFmpeg writes included.                    *)
InFlight(j) == wav[j] \cup (IF producer[j] = "extracting" THEN {next[j]} ELSE {})

(* "Cancellation joins the producer before its isolated temporary          *)
(* directory is removed, so no FFmpeg process can recreate files after     *)
(* cleanup".                                                               *)
NothingAfterCleanup == \A j \in Jobs : ear[j] = "over" => InFlight(j) = {}

(* pipelineNewsAudio returns nil for the whole recording, or when it was   *)
(* cancelled: whoever uses its sentences has to look at the context.       *)
NilIsWhole ==
    \A j \in Jobs :
        ear[j] \in {"leaving", "left"} /\ ~broken[j] /\ ~cancelled[j]
            => heard[j] = 1 .. Chunks

=============================================================================
