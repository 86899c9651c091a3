---------------------------- MODULE BatchInference ----------------------------
(***************************************************************************)
(* BatchInferenceEngine of python/acms/ai/inference/server.py: calls of    *)
(* predict_batch leave requests in a list per model and version and wait   *)
(* for their futures; a loop cuts batches off the lists, and a task per    *)
(* batch runs the model once and hands the rows of its output out.         *)
(*                                                                         *)
(* A step runs up to an await that suspends: the sleep of the loop, the    *)
(* gather of a caller, the first step of a task.  The lock is free         *)
(* whenever a coroutine asks for it.                                       *)
(***************************************************************************)
EXTENDS Integers, Sequences, FiniteSets, SequencesExt

CONSTANTS
  Items,  \* the requests of all callers
  GroupOf,   \* the "model:version" of each request
  FeaturedItems,  \* the requests that have features
  BatchSize,  \* max_batch_size
  BatchStarts, \* bound: calls of start
  Unanswered, Failed, Zero

ASSUME BatchAssumption ==
  /\ IsFiniteSet(Items) /\ FeaturedItems \subseteq Items
  /\ {BatchSize, BatchStarts} \subseteq Nat \ {0}
  /\ {Unanswered, Failed, Zero} \cap Items = {} /\ Unanswered \notin {Failed, Zero}

VARIABLES
  pending,       \* _pending: the requests of each group not yet in a batch
  tasks,         \* batches whose _process_batch has been created, oldest first
  answer,        \* the future of each request
  submitted,     \* requests predict_batch has been called with, in order
  batchRunning,  \* _running
  batchLoops     \* loops created so far, the last in _batch_task

batchVars == <<pending, tasks, answer, submitted, batchRunning, batchLoops>>

-----------------------------------------------------------------------------
Groups == {GroupOf[r] : r \in Items}

BatchInit ==
  /\ pending = [g \in Groups |-> <<>>]
  /\ tasks = <<>>
  /\ answer = [r \in Items |-> Unanswered]
  /\ submitted = <<>>
  /\ batchRunning = FALSE
  /\ batchLoops = <<>>

(* A caller appends its requests, each to its group, before it waits for   *)
(* any of them.                                                            *)
PredictBatch(list) ==
  /\ \A i \in DOMAIN list : list[i] \notin ToSet(submitted)
  /\ LET after[n \in 0..Len(list)] ==
           IF n = 0 THEN pending
                    ELSE [after[n - 1] EXCEPT ![GroupOf[list[n]]] = Append(@, list[n])]
     IN pending' = after[Len(list)]
  /\ submitted' = submitted \o list
  /\ UNCHANGED <<tasks, answer, batchRunning, batchLoops>>

(* A caller that is cancelled cancels the futures it waits for; the        *)
(* requests stay where they are.                                           *)
CallerCancelled(r) ==
  /\ r \in ToSet(submitted)
  /\ answer[r] = Unanswered
  /\ answer' = [answer EXCEPT ![r] = Failed]
  /\ UNCHANGED <<pending, tasks, submitted, batchRunning, batchLoops>>

-----------------------------------------------------------------------------
(* The loop.                                                               *)

(* Mutant: the rest of a group is dropped with the batch taken from it. *)
Rest_Dropped(list) == <<>>
Rest(list) == SubSeq(list, BatchSize + 1, Len(list))
Cut(list) == SubSeq(list, 1, IF Len(list) < BatchSize THEN Len(list) ELSE BatchSize)

(* A loop that stop came upon in its sleep and did not cancel cuts once    *)
(* more before it looks at the flag.                                       *)
Dispatch(i) ==
  /\ batchLoops[i] = "alive"
  /\ \E g \in Groups : pending[g] # <<>>
  /\ LET waiting == {g \in Groups : pending[g] # <<>>}
     IN \E order \in SetToSeqs(waiting) :
          tasks' = tasks \o [j \in DOMAIN order |-> Cut(pending[order[j]])]
  /\ pending' = [g \in Groups |-> Rest(pending[g])]
  /\ batchLoops' = [batchLoops EXCEPT ![i] = IF batchRunning THEN "alive" ELSE "ended"]
  /\ UNCHANGED <<answer, submitted, batchRunning>>

BatchLoopOver(i) == batchLoops[i] = "cancelled" \/ (batchLoops[i] = "alive" /\ ~batchRunning)

BatchLoopEnds(i) ==
  /\ BatchLoopOver(i)
  /\ batchLoops' = [batchLoops EXCEPT ![i] = "ended"]
  /\ UNCHANGED <<pending, tasks, answer, submitted, batchRunning>>

(* A second start adds a loop to the first. *)
BatchStart ==
  /\ Len(batchLoops) < BatchStarts
  /\ batchRunning' = TRUE
  /\ batchLoops' = Append(batchLoops, "alive")
  /\ UNCHANGED <<pending, tasks, answer, submitted>>

BatchStop ==
  /\ batchRunning
  /\ batchRunning' = FALSE
  /\ batchLoops' = [i \in DOMAIN batchLoops |->
                      IF i = Len(batchLoops) /\ batchLoops[i] = "alive" THEN "cancelled"
                                                                        ELSE batchLoops[i]]
  /\ UNCHANGED <<pending, tasks, answer, submitted>>

-----------------------------------------------------------------------------
(* A batch.                                                                *)

Settle(r, result) == IF answer[r] = Unanswered THEN result ELSE answer[r]

(* Only requests with features have a row in the input, and the i-th row   *)
(* of the output goes to the i-th request of the batch.                    *)
Featured(batch) == {k \in DOMAIN batch : batch[k] \in FeaturedItems}
MakesRow(batch, i) == {k \in Featured(batch) : Cardinality({h \in Featured(batch) : h <= k}) = i}
RowOf(batch, made) ==
  CASE Featured(batch) = {} -> Failed
    [] Featured(batch) # {} /\ made = {} -> Zero
    [] made # {} -> batch[CHOOSE k \in made : TRUE]

(* Mutant: the row after it. *)
Row_OffByOne(batch, i) == RowOf(batch, MakesRow(batch, i + 1))
Row(batch, i) == RowOf(batch, MakesRow(batch, i))

ProcessBatch ==
  /\ tasks # <<>>
  /\ \E succeeds \in BOOLEAN :   \* the model is there and does not raise
       answer' = [r \in Items |->
                    IF r \notin ToSet(Head(tasks)) THEN answer[r]
                    ELSE LET i == CHOOSE j \in DOMAIN Head(tasks) : Head(tasks)[j] = r
                         IN Settle(r, IF succeeds THEN Row(Head(tasks), i) ELSE Failed)]
  /\ tasks' = Tail(tasks)
  /\ UNCHANGED <<pending, submitted, batchRunning, batchLoops>>

-----------------------------------------------------------------------------
(* Lists of one or two requests. *)
Lists == {<<r>> : r \in Items} \cup {<<r, s>> : r, s \in Items}

BatchLoop(i) == i \in DOMAIN batchLoops /\ (Dispatch(i) \/ BatchLoopEnds(i))

BatchNext ==
  \/ \E list \in {l \in Lists : IsInjective(l)} : PredictBatch(list)
  \/ \E r \in Items : CallerCancelled(r)
  \/ BatchStart \/ BatchStop
  \/ \E i \in 1..BatchStarts : BatchLoop(i)
  \/ ProcessBatch

BatchSpec == BatchInit /\ [][BatchNext]_batchVars

(* The event loop wakes every sleeper and runs every task. *)
BatchFairSpec ==
  /\ BatchSpec
  /\ \A i \in 1..BatchStarts : WF_batchVars(BatchLoop(i))
  /\ WF_batchVars(ProcessBatch)

-----------------------------------------------------------------------------
(* Properties.                                                             *)

(* Every part of the engine is in range. *)
BatchTypeOK ==
  /\ pending \in [Groups -> Seq(Items)]
  /\ tasks \in Seq(Seq(Items))
  /\ \A i \in DOMAIN tasks : Len(tasks[i]) \in 1..BatchSize
  /\ answer \in [Items -> Items \cup {Unanswered, Failed, Zero}]
  /\ batchLoops \in Seq({"alive", "cancelled", "ended"})

(* "distributes results back to individual requestors": a prediction goes  *)
(* to the request whose features it was computed from, unless a request    *)
(* without features came no later in its group; then it goes to an earlier *)
(* one, and never to another group.                                        *)
PredictionsAligned ==
  \A r \in Items : answer[r] \in Items \ {r} =>
    \E gap, own, other \in DOMAIN submitted :
      /\ gap <= own /\ own < other
      /\ submitted[own] = r /\ submitted[other] = answer[r]
      /\ submitted[gap] \notin FeaturedItems
      /\ \A i \in {gap, other} : GroupOf[submitted[i]] = GroupOf[r]

(* A request whose caller waits is in the list of its group or in a batch   *)
(* that is still to be processed, whatever loops ran and were stopped.     *)
RequestsAreHeld ==
  \A r \in ToSet(submitted) : answer[r] = Unanswered =>
    \/ r \in ToSet(pending[GroupOf[r]])
    \/ \E i \in DOMAIN tasks : r \in ToSet(tasks[i])

(* While the engine keeps running every caller gets its answers. *)
CallersAnswered ==
  <>[]batchRunning =>
    \A r \in Items : []((r \in ToSet(submitted)) => <>(answer[r] # Unanswered))

=============================================================================
