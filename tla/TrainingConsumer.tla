---------------------------- MODULE TrainingConsumer ----------------------------
(***************************************************************************)
(* AIKafkaConsumer and its TrainingDataBuffer, python/acms/ai/integration/ *)
(* kafka_consumer.py: one partition is consumed through quality filter,    *)
(* buffer and topic handler, offsets are committed by hand, and the buffer *)
(* hands what it holds to the training callbacks from three sides: its     *)
(* periodic loop, tasks created when it is full, and stop.                 *)
(*                                                                         *)
(* One asyncio loop: a step is what a coroutine does between two awaits.   *)
(* There is one callback, and start and stop are called in turn, as the    *)
(* orchestrator does; how Kafka delivers, and when reading from it raises, *)
(* is left to aiokafka.                                                    *)
(***************************************************************************)
EXTENDS Integers, Sequences, SequencesExt

CONSTANTS
  LogEnd,        \* the partition holds the messages 1..LogEnd
  Invalid,       \* those the quality filter finds INVALID or raises on
  MaxBuffer,     \* buffer_max_size
  Backpressure,  \* backpressure_threshold
  CommitEvery,   \* messages between two commits, 100 in the code
  Sessions       \* bound: calls of start

ASSUME ConsumerAssumption ==
  /\ LogEnd \in Nat /\ Invalid \subseteq 1..LogEnd
  /\ {MaxBuffer, Backpressure, CommitEvery, Sessions} \subseteq Nat \ {0}

VARIABLES
  session,    \* starts so far
  active,     \* _running
  consuming,  \* where _consume_loop awaits: "polling", "pressed" (the sleep
              \* under backpressure), "handling", "committing"; "cancelled" by
              \* stop, or "off"
  position,   \* the next message the consumer is handed
  committed,  \* the next message a consumer of the group starts from
  consumed,   \* _consumed_count, modulo CommitEvery
  buffer,     \* _buffer
  total,      \* _total_buffered
  scheduled,  \* flush tasks that add created and that have not run yet
  forced,     \* those inside the callbacks: sequence of [since, batch]
  looping,    \* _flush_loop: "sleeping", "flushing", "cancelled" or "off"
  flushing,   \* the batch it has in the callbacks
  recent,     \* a flush was begun since the loop went to sleep
  stopping,   \* stop: "no", or what it awaits, "loop", "final" or "task"
  final,      \* the batch of its final flush
  trained     \* messages some callback has taken

consumerVars == <<session, active, consuming, position, committed, consumed, buffer, total,
                  scheduled, forced, looping, flushing, recent, stopping, final, trained>>
flushVars == <<scheduled, forced, looping, flushing, recent, final>>
groupVars == <<position, committed, consumed>>

Batches == {flushing, final} \cup {forced[i].batch : i \in DOMAIN forced}
Held == ToSet(buffer) \cup UNION {ToSet(b) : b \in Batches}

(* A callback takes the batch or raises, which is logged. *)
CallbackReturns(batch) == trained' \in {trained, trained \cup ToSet(batch)}

ConsumerInit ==
  /\ session = 0 /\ active = FALSE /\ consuming = "off"
  /\ position = 1 /\ committed = 1 /\ consumed = 0
  /\ buffer = <<>> /\ total = 0
  /\ scheduled = 0 /\ forced = <<>>
  /\ looping = "off" /\ flushing = <<>> /\ recent = FALSE
  /\ stopping = "no" /\ final = <<>>
  /\ trained = {}

-----------------------------------------------------------------------------
(* Life cycle.                                                             *)

StartConsumer ==
  /\ ~active /\ stopping = "no"
  /\ session < Sessions
  /\ session' = session + 1
  /\ active' = TRUE
  /\ consuming' = "polling" /\ looping' = "sleeping"
  /\ position' = committed
  /\ UNCHANGED <<committed, consumed, buffer, total, scheduled, forced, flushing, recent,
                 stopping, final, trained>>

(* stop stops the buffer first, whose loop may be in a callback then. *)
StopConsumer ==
  /\ active /\ stopping = "no"
  /\ active' = FALSE
  /\ stopping' = "loop"
  /\ looping' = "cancelled"
  /\ UNCHANGED <<session, consuming, groupVars, buffer, total, scheduled, forced, flushing,
                 recent, final, trained>>

(* The cancelled loop ends, and its batch with it. *)
FlushLoopEnds ==
  /\ looping = "cancelled"
  /\ looping' = "off"
  /\ flushing' = <<>>
  /\ UNCHANGED <<session, active, consuming, groupVars, buffer, total, scheduled, forced,
                 recent, stopping, final, trained>>

(* What a flush takes, and what the buffer keeps.  Mutant: the buffer is   *)
(* not replaced.                                                           *)
Batch(b) == b
Left_Kept(b) == b
Left(b) == <<>>

TakeBuffer ==
  /\ buffer' = Left(buffer)
  /\ total' = Len(Left(buffer))

(* Once the buffer is stopped the consume loop is cancelled, if it is still *)
(* there.  Mutant: stop waits for it without that.                          *)
CancelConsuming_Waits == consuming' = consuming
CancelConsuming == consuming' = IF consuming = "off" THEN "off" ELSE "cancelled"

(* stop goes on when the task it awaits has ended. *)
Stopping ==
  /\ \/ /\ stopping = "loop" /\ looping = "off"
        /\ final' = Batch(buffer)
        /\ TakeBuffer
        /\ recent' = (recent \/ buffer # <<>>)
        /\ IF buffer = <<>> THEN stopping' = "task" /\ CancelConsuming
                           ELSE stopping' = "final" /\ UNCHANGED consuming
        /\ UNCHANGED trained
     \/ /\ stopping = "final"
        /\ CallbackReturns(final)
        /\ final' = <<>>
        /\ stopping' = "task" /\ CancelConsuming
        /\ UNCHANGED <<buffer, total, recent>>
     \/ /\ stopping = "task" /\ consuming = "off"
        /\ stopping' = "no"
        /\ UNCHANGED <<consuming, final, buffer, total, recent, trained>>
  /\ UNCHANGED <<session, active, groupVars, scheduled, forced, looping, flushing>>

(* The process dies, and with it what is in memory. *)
Crash ==
  /\ session > 0
  /\ active' = FALSE /\ consuming' = "off" /\ looping' = "off" /\ stopping' = "no"
  /\ consumed' = 0 /\ buffer' = <<>> /\ total' = 0 /\ scheduled' = 0 /\ forced' = <<>>
  /\ flushing' = <<>> /\ final' = <<>> /\ recent' = FALSE
  /\ UNCHANGED <<session, position, committed, trained>>

-----------------------------------------------------------------------------
(* The consume loop.                                                       *)

(* Mutant: a loop that was told to stop takes one more message. *)
GivesUp_AfterThis == FALSE
GivesUp == ~active

Receive ==
  /\ consuming = "polling" /\ position <= LogEnd
  /\ position' = position + 1
  /\ LET pressed == total >= Backpressure
         accepted == ~GivesUp /\ ~pressed /\ position \notin Invalid
     IN /\ consuming' = IF GivesUp THEN "off"
                        ELSE IF pressed THEN "pressed"
                        ELSE IF accepted THEN "handling" ELSE "polling"
        /\ buffer' = IF accepted THEN Append(buffer, position) ELSE buffer
        /\ total' = IF accepted THEN total + 1 ELSE total
        /\ scheduled' = IF accepted /\ total + 1 >= MaxBuffer THEN scheduled + 1 ELSE scheduled
  /\ UNCHANGED <<session, active, committed, consumed, forced, looping, flushing, recent,
                 stopping, final, trained>>

(* Reading from Kafka raises: the loop ends, and nothing else does. *)
PollRaises ==
  /\ consuming = "polling"
  /\ consuming' = "off"
  /\ UNCHANGED <<session, active, groupVars, buffer, total, flushVars, stopping, trained>>

ConsumeLoopEnds ==
  /\ consuming = "cancelled"
  /\ consuming' = "off"
  /\ UNCHANGED <<session, active, groupVars, buffer, total, flushVars, stopping, trained>>

(* A handler that raises leaves the message in the buffer and uncounted. *)
HandlerReturns ==
  /\ consuming = "handling"
  /\ \/ /\ consumed' = (consumed + 1) % CommitEvery
        /\ consuming' = IF consumed' = 0 THEN "committing" ELSE "polling"
     \/ /\ consuming' = "polling"
        /\ UNCHANGED consumed
  /\ UNCHANGED <<session, active, position, committed, buffer, total, flushVars, stopping,
                 trained>>

(* What commit commits. *)
CommitPoint == position

CommitReturns ==
  /\ consuming = "committing"
  /\ consuming' = "polling"
  /\ committed' \in {committed, CommitPoint}
  /\ UNCHANGED <<session, active, position, consumed, buffer, total, flushVars, stopping,
                 trained>>

PressureSleepEnds ==
  /\ consuming = "pressed"
  /\ consuming' = "polling"
  /\ UNCHANGED <<session, active, groupVars, buffer, total, flushVars, stopping, trained>>

-----------------------------------------------------------------------------
(* The flushes.                                                            *)

(* What _should_flush may say: the interval has passed since the last      *)
(* flush, surely if there was none since the loop went to sleep, or the    *)
(* buffer is full.  Mutant: only a full one is flushed.                    *)
ShouldFlush_Full == {total >= MaxBuffer}
ShouldFlush == IF recent /\ total < MaxBuffer THEN BOOLEAN ELSE {TRUE}

FlushLoopWakes ==
  /\ looping = "sleeping"
  /\ \E due \in ShouldFlush :
       \/ ~due /\ UNCHANGED <<looping, flushing, buffer, total>>
       \/ /\ due
          /\ looping' = IF buffer = <<>> THEN "sleeping" ELSE "flushing"
          /\ flushing' = Batch(buffer)
          /\ TakeBuffer
  /\ recent' = FALSE
  /\ UNCHANGED <<session, active, consuming, groupVars, scheduled, forced, stopping, final,
                 trained>>

LoopCallbackReturns ==
  /\ looping = "flushing"
  /\ looping' = "sleeping"
  /\ CallbackReturns(flushing)
  /\ flushing' = <<>>
  /\ UNCHANGED <<session, active, consuming, groupVars, buffer, total, scheduled, forced,
                 recent, stopping, final>>

ForcedFlush ==
  /\ scheduled > 0
  /\ scheduled' = scheduled - 1
  /\ forced' = IF buffer = <<>> THEN forced
               ELSE Append(forced, [since |-> session, batch |-> Batch(buffer)])
  /\ recent' = (recent \/ buffer # <<>>)
  /\ TakeBuffer
  /\ UNCHANGED <<session, active, consuming, groupVars, looping, flushing, stopping, final,
                 trained>>

ForcedCallbackReturns ==
  \E i \in DOMAIN forced :
    /\ forced' = RemoveAt(forced, i)
    /\ CallbackReturns(forced[i].batch)
    /\ UNCHANGED <<session, active, consuming, groupVars, buffer, total, scheduled, looping,
                   flushing, recent, stopping, final>>

-----------------------------------------------------------------------------
Flushes ==
  FlushLoopWakes \/ LoopCallbackReturns \/ FlushLoopEnds \/ ForcedFlush \/ ForcedCallbackReturns

Consumption ==
  \/ Receive \/ HandlerReturns \/ CommitReturns \/ PressureSleepEnds
  \/ PollRaises \/ ConsumeLoopEnds

ConsumerNext == StartConsumer \/ StopConsumer \/ Stopping \/ Crash \/ Consumption \/ Flushes

ConsumerSpec == ConsumerInit /\ [][ConsumerNext]_consumerVars

(* Tasks that can run do, those that are cancelled end, and callbacks      *)
(* return; messages and handlers may be as slow as they like.              *)
ConsumerFairSpec ==
  /\ ConsumerSpec
  /\ WF_consumerVars(FlushLoopWakes) /\ WF_consumerVars(LoopCallbackReturns)
  /\ WF_consumerVars(ForcedFlush) /\ WF_consumerVars(ForcedCallbackReturns)
  /\ WF_consumerVars(Stopping)
  /\ WF_consumerVars(FlushLoopEnds) /\ WF_consumerVars(ConsumeLoopEnds)

-----------------------------------------------------------------------------
(* Properties.                                                             *)

(* Every part of the state is in range, and the count of the buffer that   *)
(* flushing and backpressure go by is its length.                          *)
ConsumerTypeOK ==
  /\ session \in 0..Sessions /\ active \in BOOLEAN /\ recent \in BOOLEAN
  /\ consuming \in {"polling", "pressed", "handling", "committing", "cancelled", "off"}
  /\ {position, committed} \subseteq 1..(LogEnd + 1) /\ consumed \in 0..(CommitEvery - 1)
  /\ total = Len(buffer) /\ total <= Backpressure
  /\ scheduled \in Nat
  /\ looping \in {"sleeping", "flushing", "cancelled", "off"}
  /\ looping = "flushing" => flushing # <<>>
  /\ flushing # <<>> => looping \in {"flushing", "cancelled"}
  /\ stopping \in {"no", "loop", "final", "task"}
  /\ (stopping = "final") <=> (final # <<>>)
  /\ Held \cup trained \subseteq 1..LogEnd

(* In one session, from start to the stop or the crash that ends it, a     *)
(* message is in the buffer or in one batch, never in two: three flushes   *)
(* in the callbacks at once share nothing, and what is added while they    *)
(* are there is in none of them.  (The next session reads again what was   *)
(* not committed, and a forced flush of this one may still hold that.)     *)
FlushedOnce ==
  LET Apart(s, t) == ToSet(s) \cap ToSet(t) = {}
  IN /\ \A s \in {buffer, flushing, final} :
          /\ IsInjective(s)
          /\ \A i \in DOMAIN forced : forced[i].since = session => Apart(s, forced[i].batch)
     /\ Apart(buffer, flushing) /\ Apart(buffer, final) /\ Apart(flushing, final)
     /\ \A i, j \in DOMAIN forced :
          /\ IsInjective(forced[i].batch)
          /\ i # j /\ forced[i].since = forced[j].since => Apart(forced[i].batch, forced[j].batch)

(* What was committed was processed: it was filtered, some callback has    *)
(* taken it, or it is still on its way to one.  The code says that offsets *)
(* are committed after successful processing, for exactly-once processing. *)
CommittedIsProcessed == \A m \in 1..(committed - 1) : m \in Invalid \cup Held \cup trained

(* A consumer that was stopped has nothing left in its buffer, whatever    *)
(* its handler and its flush loop were doing when stop was called, and     *)
(* whether or not its consume loop had ended before.                       *)
StoppedLeavesNothing == ~active /\ stopping = "no" => buffer = <<>>

(* What is in the buffer is handed on, by the loop if the buffer never     *)
(* fills, whoever flushed last.                                            *)
BufferIsFlushed == \A m \in 1..LogEnd : m \in ToSet(buffer) ~> m \notin ToSet(buffer)

(* stop returns, and then neither loop is left: it waits for both after    *)
(* cancelling them, in the middle of a callback, of the handler or of a    *)
(* commit, or after the consume loop has ended by itself.                  *)
ConsumerStops == stopping # "no" ~> (stopping = "no" /\ consuming = "off" /\ looping = "off")

=============================================================================
