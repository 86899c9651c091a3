----------------------------- MODULE OnlineLearning -----------------------------
(***************************************************************************)
(* OnlineLearner of python/acms/ai/training/online_learning.py: samples    *)
(* trigger updates of the model, which are kept, rolled back to a stack of *)
(* checkpoints, or fail half way.  Its lock is never taken: one caller, so *)
(* a call is one step.  What the quality filter, the drift detectors and   *)
(* the replay buffer say of a sample is open here, and so is the           *)
(* validation loss of an updated model; the data it is measured on stay.   *)
(***************************************************************************)
EXTENDS Integers, Sequences

CONSTANTS
  Triggers,    \* update_trigger of the learners looked at
  ModelLosses, \* validation losses
  Threshold,   \* rollback_threshold
  Interval,    \* update_interval
  Degraded,    \* performance_patience
  StackSize,   \* checkpoints kept, 5 in the code
  MaxUpdates,  \* bound: updates
  Unmeasured,  \* infinity
  NotANumber

ASSUME LearningAssumption ==
  /\ Triggers \subseteq {"periodic", "drift", "performance", "hybrid"}
  /\ ModelLosses \subseteq Int /\ Threshold \in Nat
  /\ {Interval, Degraded, StackSize, MaxUpdates} \subseteq Nat \ {0}
  /\ {Unmeasured, NotANumber} \cap Int = {}

VARIABLES
  config,       \* [trigger, ab, ensemble]: update_trigger, ab_test_enabled,
                \* and whether update_strategy is ENSEMBLE_UPDATE
  model,        \* [update, whole, loss]: the update it comes from, whether
                \* that one was finished, and what _evaluate says of it
  rate,         \* the learning rate in the optimizer: "own" or "halved"
  current,      \* _current_val_loss
  sinceUpdate,  \* _steps_since_update, up to Interval
  sinceBetter,  \* _steps_since_improvement, up to Degraded
  stack,        \* _checkpoint_stack
  replay,       \* replay_buffer.size: "few" (no update is made of them),
                \* "some" (no A/B test is) or "many"
  history       \* _update_history: [kind, from], the last and how many

learnerVars == <<config, model, rate, current, sinceUpdate, sinceBetter, stack, replay, history>>

-----------------------------------------------------------------------------
Values == ModelLosses \cup {NotANumber}
Saved == [model |-> model, rate |-> rate, current |-> current]
UpTo(n, bound) == IF n < bound THEN n ELSE bound

LearnerInit ==
  /\ config \in [trigger : Triggers, ab : BOOLEAN, ensemble : BOOLEAN]
  /\ \E value \in ModelLosses : model = [update |-> 0, whole |-> TRUE, loss |-> value]
  /\ rate = "own" /\ current = Unmeasured
  /\ sinceUpdate = 0 /\ sinceBetter = 0
  /\ stack = <<>> /\ replay = "few"
  /\ history = [last |-> "none", length |-> 0]

(* _save_rollback_checkpoint. *)
Pushed(entry) ==
  LET longer == Append(stack, entry) IN IF Len(longer) > StackSize THEN Tail(longer) ELSE longer

-----------------------------------------------------------------------------
(* _perform_update.                                                        *)

(* The model after an update that went through: the same if there were too *)
(* few samples.                                                            *)
Updated ==
  IF replay = "few" THEN {model}
  ELSE {[update |-> history.length + 1, whole |-> TRUE, loss |-> value] : value \in Values}

Better(new, old) == new # NotANumber /\ old # NotANumber /\ new < old

(* A loss that is not a number is never too bad. *)
TooBad(new) == new.loss # NotANumber /\ model.loss # NotANumber /\ new.loss > model.loss + Threshold

(* The A/B test of the code compares on a sample of the replay buffer, so  *)
(* it may say anything.  It takes the place of the threshold.              *)
RollsBack(new) ==
  IF ~config.ab THEN {TooBad(new)} ELSE IF replay = "many" THEN BOOLEAN ELSE {FALSE}

(* What _rollback restores, of the checkpoints with the latest one pushed. *)
(* Mutant: the oldest one.                                                 *)
RolledBackTo_Oldest(new, checkpoints) == Head(checkpoints)
RolledBackTo(new, checkpoints) == checkpoints[Len(checkpoints)]

WithoutImprovement(better) == IF better THEN 0 ELSE UpTo(sinceBetter + 1, Degraded)

UpdateKept(new) ==
  /\ FALSE \in RollsBack(new)
  /\ model' = new /\ current' = new.loss
  /\ stack' = Pushed(Saved)
  /\ UNCHANGED rate

UpdateRolledBack(new) ==
  /\ TRUE \in RollsBack(new)
  /\ LET checkpoint == RolledBackTo(new, Pushed(Saved))
     IN model' = checkpoint.model /\ rate' = checkpoint.rate /\ current' = checkpoint.current
  /\ stack' = SubSeq(Pushed(Saved), 1, Len(Pushed(Saved)) - 1)

(* A strategy that raises leaves what it did, and the learning rate it     *)
(* set; nothing is rolled back then.                                       *)
UpdateFailed ==
  /\ model' \in {model} \cup {[update |-> history.length + 1, whole |-> FALSE, loss |-> value] :
                                value \in IF replay = "few" THEN {} ELSE Values}
  /\ rate' = IF config.ensemble THEN "halved" ELSE rate
  /\ current' = model.loss
  /\ stack' = Pushed(Saved)

PerformUpdate ==
  /\ history.length < MaxUpdates
  /\ \/ /\ UpdateFailed
        /\ sinceBetter' = WithoutImprovement(FALSE)
        /\ history' = [last |-> "failed", length |-> history.length + 1]
     \/ \E new \in Updated :
          /\ sinceBetter' = WithoutImprovement(Better(new.loss, model.loss))
          /\ \/ UpdateKept(new) /\ history' = [last |-> "kept", length |-> history.length + 1]
             \/ UpdateRolledBack(new)
                /\ history' = [last |-> "rolled back", length |-> history.length + 1]
  /\ sinceUpdate' = 0

-----------------------------------------------------------------------------
(* Samples and batches.                                                    *)

Updating(due) ==
  \/ due /\ PerformUpdate
  \/ ~due /\ UNCHANGED <<model, rate, current, sinceBetter, stack, history>>

Grown == CASE replay = "few" -> {"few", "some"}
           [] replay = "some" -> {"some", "many"}
           [] replay = "many" -> {"many"}

(* process_sample: one that is not valid is counted and no more; drift is  *)
(* what the detectors say, and without a validation loader nothing is      *)
(* updated.                                                                *)
ProcessSample(valid, drift, loader) ==
  LET since == UpTo(sinceUpdate + 1, Interval)
      due == CASE config.trigger = "periodic" -> since >= Interval
               [] config.trigger = "drift" -> drift
               [] config.trigger = "performance" -> sinceBetter >= Degraded
               [] config.trigger = "hybrid" ->
                    drift \/ since >= Interval \/ sinceBetter >= Degraded
  IN /\ IF valid THEN replay' \in Grown ELSE UNCHANGED replay
     /\ Updating(valid /\ loader /\ due)
     /\ history' = history => sinceUpdate' = since
     /\ UNCHANGED config

(* process_batch, of which n samples are valid, looks at no performance. *)
ProcessBatch(n, drift, loader) ==
  LET since == UpTo(sinceUpdate + n, Interval)
      due == \/ config.trigger \in {"periodic", "hybrid"} /\ since >= Interval
             \/ config.trigger \in {"drift", "hybrid"} /\ drift
  IN /\ replay' \in Grown
     /\ Updating(loader /\ due)
     /\ history' = history => sinceUpdate' = since
     /\ UNCHANGED config

LearnerNext ==
  \E drift, loader \in BOOLEAN :
    \/ \E valid \in BOOLEAN : ProcessSample(valid, drift, loader)
    \/ \E n \in 1..Interval : ProcessBatch(n, drift, loader)

LearnerSpec == LearnerInit /\ [][LearnerNext]_learnerVars

-----------------------------------------------------------------------------
(* Properties.                                                             *)

(* Every part of the state is in range, and there are never more           *)
(* checkpoints than are kept.                                              *)
LearnerTypeOK ==
  LET Models == [update : 0..MaxUpdates, whole : BOOLEAN, loss : Values]
      Measured == Values \cup {Unmeasured}
  IN /\ config \in [trigger : Triggers, ab : BOOLEAN, ensemble : BOOLEAN]
     /\ model \in Models /\ rate \in {"own", "halved"} /\ current \in Measured
     /\ sinceUpdate \in 0..Interval /\ sinceBetter \in 0..Degraded
     /\ stack \in Seq([model : Models, rate : {"own", "halved"}, current : Measured])
     /\ Len(stack) <= StackSize
     /\ replay \in {"few", "some", "many"}
     /\ history \in [last : {"none", "kept", "rolled back", "failed"}, length : 0..MaxUpdates]

(* An update that is rolled back leaves model, learning rate and measured  *)
(* loss as they were before it, however many kept and failed updates have  *)
(* left their checkpoints on the stack.                                    *)
RolledBackIsRestored ==
  [][history' # history /\ history'.last = "rolled back"
       => UNCHANGED <<model, rate, current>>]_learnerVars

(* The loss that samples are compared with is the one of the model in use, *)
(* if that was measured at all and no update of it broke off, and so it is *)
(* in every checkpoint.                                                    *)
Agree(c) == c.model.whole => c.current \in {Unmeasured, c.model.loss}
CurrentIsTheModels == Agree(Saved) /\ \A i \in DOMAIN stack : Agree(stack[i])

=============================================================================
