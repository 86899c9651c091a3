----------------------------- MODULE ModelTraining -----------------------------
(***************************************************************************)
(* The Trainer of python/acms/ai/training/trainer.py: batches whose        *)
(* gradients accumulate, epochs that are validated, early stopping, and    *)
(* checkpoints that a later Trainer resumes from after a crash.            *)
(*                                                                         *)
(* A process trains in one thread; a step is a batch, or what fit does     *)
(* between two points where a crash makes a difference: torch.save writes  *)
(* in place, so a crash may tear the file it writes.  A new Trainer is     *)
(* given a new model.  The learning rate has no state here: the scheduler's *)
(* is saved and never loaded, so a resumed fit begins its schedule anew.   *)
(***************************************************************************)
EXTENDS Integers, Sequences, FiniteSets, FiniteSetsExt

CONSTANTS
  Epochs,    \* config.epochs
  Batches,   \* in the training loader
  Accum,     \* gradient_accumulation_steps
  Patience,  \* early_stopping_patience
  Losses,    \* validation losses
  MinDelta,  \* in the units of Losses
  Period,    \* save_period, 0 for none; save_best_only is off
  MaxKeep,   \* max_keep
  Trainers,  \* bound: Trainers made
  NaN, NoLoss, NoFile, Torn

ASSUME TrainingAssumption ==
  /\ {Epochs, Batches, Accum, Patience, MaxKeep, Trainers} \subseteq Nat \ {0}
  /\ {MinDelta, Period} \subseteq Nat /\ Losses \subseteq Int
  /\ {NaN, NoLoss, NoFile, Torn} \cap Int = {}
  /\ \A file \in {NoFile, Torn} :   \* neither can be read as a checkpoint
       file \notin [epoch : Nat, step : Nat, weights : [epochs : SUBSET Nat, steps : Nat],
                   loss : Losses \cup {NaN}]

VARIABLES
  made,     \* Trainers so far
  at,       \* where fit is: "batch", "best", "periodic", or "off"
  epoch,    \* state.epoch
  batch,    \* batches of the epoch that are done
  step,     \* state.global_step
  grads,    \* batches whose gradients have been added up, or NaN
  weights,  \* what the model has learnt from: [epochs, steps]
  stopper,  \* EarlyStoppingCallback: [best, counter]
  saver,    \* CheckpointCallback: [best, kept]
  best,     \* best_model.pt
  periodic, \* the checkpoint_epoch files
  losses,   \* history: the validation losses of this fit
  bad       \* history: a gradient since the last boundary was not a number

trainerVars == <<made, at, epoch, batch, step, grads, weights, stopper, saver, best,
                 periodic, losses, bad>>

EpochNumbers == 0..(Epochs - 1)
Loaded(file) == file \notin {NoFile, Torn}

TrainingStateInit ==
  /\ made = 0 /\ at = "off" /\ epoch = 0 /\ batch = 0 /\ step = 0 /\ grads = 0
  /\ weights = [epochs |-> {}, steps |-> 0]
  /\ stopper = [best |-> NoLoss, counter |-> 0]
  /\ saver = [best |-> NoLoss, kept |-> <<>>]
  /\ best = NoFile
  /\ periodic = [e \in EpochNumbers |-> NoFile]
  /\ losses = <<>> /\ bad = FALSE

-----------------------------------------------------------------------------
(* fit begins.                                                             *)

(* What a checkpoint restores.  Mutant: the training state without the     *)
(* weights.                                                                *)
Restored_StateOnly(file) ==
  [epoch |-> file.epoch, step |-> file.step, weights |-> [epochs |-> {}, steps |-> 0]]
Restored(file) == [epoch |-> file.epoch, step |-> file.step, weights |-> file.weights]

Scratch == [epoch |-> 0, step |-> 0, weights |-> [epochs |-> {}, steps |-> 0]]

(* on_train_begin makes the callbacks forget earlier fits. *)
Fit(from) ==
  /\ at = "off" /\ made < Trainers
  /\ made' = made + 1
  /\ at' = "batch"
  /\ epoch' = from.epoch /\ step' = from.step /\ weights' = from.weights
  /\ batch' = 0 /\ grads' = 0
  /\ stopper' = [best |-> NoLoss, counter |-> 0]
  /\ saver' = [best |-> NoLoss, kept |-> <<>>]
  /\ losses' = <<>> /\ bad' = FALSE
  /\ UNCHANGED <<best, periodic>>

FitFresh == Fit(Scratch)

FitResumed ==
  \E file \in {best} \cup {periodic[e] : e \in EpochNumbers} :
    Loaded(file) /\ Fit(Restored(file))

-----------------------------------------------------------------------------
(* run_epoch.                                                              *)

(* Gradients after zero_grad. *)
Zeroed(n) == 0

(* At the boundary the optimizer steps, unless the gradient is not a       *)
(* number: then the gradients stay as they are, and so what is added.      *)
Accumulated(nan) == IF nan \/ grads = NaN THEN NaN ELSE grads + 1

TrainBatch(nan) ==
  /\ at = "batch" /\ batch < Batches
  /\ batch' = batch + 1
  /\ step' = step + 1
  /\ IF (batch + 1) % Accum = 0 /\ Accumulated(nan) # NaN
       THEN /\ grads' = Zeroed(Accumulated(nan))
            /\ weights' = [weights EXCEPT !.steps = @ + 1]
       ELSE /\ grads' = Accumulated(nan)
            /\ UNCHANGED weights
  /\ bad' = IF (batch + 1) % Accum = 0 THEN FALSE ELSE bad \/ nan
  /\ UNCHANGED <<made, at, epoch, stopper, saver, best, periodic, losses>>

-----------------------------------------------------------------------------
(* The end of an epoch: validation and the callbacks, in their order.      *)

(* NaN compares false with everything. *)
Improves(value, old, delta) == value # NaN /\ (old # NoLoss => value < old - delta)

Counted(value) ==
  IF Improves(value, stopper.best, MinDelta) THEN [best |-> value, counter |-> 0]
  ELSE [stopper EXCEPT !.counter = @ + 1]

(* Mutant: one epoch too late. *)
OutOfPatience_Late == stopper.counter > Patience
OutOfPatience == stopper.counter >= Patience

EndEpoch(value) ==
  /\ at = "batch" /\ batch = Batches
  /\ weights' = [weights EXCEPT !.epochs = @ \cup {epoch}]
  /\ stopper' = Counted(value)
  /\ losses' = Append(losses, value)
  /\ at' = "best"
  /\ UNCHANGED <<made, epoch, batch, step, grads, saver, best, periodic, bad>>

Checkpoint == [epoch |-> epoch, step |-> step, weights |-> weights, loss |-> losses[Len(losses)]]

(* What the callback takes for the best loss after a save.  Mutant: it is  *)
(* not remembered.                                                         *)
BestAfter_Forgotten(value) == NoLoss
BestAfter(value) == value

SaveBest ==
  /\ at = "best"
  /\ at' = "periodic"
  /\ IF Improves(losses[Len(losses)], saver.best, 0)
       THEN /\ best' = Checkpoint
            /\ saver' = [saver EXCEPT !.best = BestAfter(losses[Len(losses)])]
       ELSE UNCHANGED <<best, saver>>
  /\ UNCHANGED <<made, epoch, batch, step, grads, weights, stopper, periodic, losses, bad>>

DueAt(e) == Period > 0 /\ (e + 1) % Period = 0

(* How many checkpoints of this fit go, the oldest first.  Mutant: one    *)
(* more than are too many.                                                 *)
Surplus_OneMore(kept) == IF Len(kept) >= MaxKeep THEN Len(kept) - MaxKeep + 1 ELSE 0
Surplus(kept) == IF Len(kept) > MaxKeep THEN Len(kept) - MaxKeep ELSE 0

(* The periodic save with its clean-up, and the next epoch or the end. *)
SavePeriodic ==
  LET kept == Append(saver.kept, epoch)
      gone == {kept[i] : i \in 1..Surplus(kept)}
  IN /\ at = "periodic"
     /\ IF DueAt(epoch)
          THEN /\ periodic' = [e \in EpochNumbers |->
                                 IF e \in gone THEN NoFile
                                 ELSE IF e = epoch THEN Checkpoint ELSE periodic[e]]
               /\ saver' = [saver EXCEPT !.kept = SubSeq(kept, Surplus(kept) + 1, Len(kept))]
          ELSE UNCHANGED <<periodic, saver>>
     /\ IF OutOfPatience \/ epoch + 1 = Epochs
          THEN at' = "off" /\ UNCHANGED <<epoch, batch>>
          ELSE at' = "batch" /\ epoch' = epoch + 1 /\ batch' = 0
     /\ UNCHANGED <<made, step, grads, weights, stopper, best, losses, bad>>

(* The process dies, perhaps in the middle of a save. *)
Crash ==
  /\ at # "off"
  /\ at' = "off"
  /\ \/ at = "best" /\ Improves(losses[Len(losses)], saver.best, 0) /\ best' = Torn
        /\ UNCHANGED periodic
     \/ at = "periodic" /\ DueAt(epoch)
        /\ \E file \in {Torn, Checkpoint} : periodic' = [periodic EXCEPT ![epoch] = file]
        /\ UNCHANGED best
     \/ UNCHANGED <<best, periodic>>
  /\ losses' = <<>>
  /\ UNCHANGED <<made, epoch, batch, step, grads, weights, stopper, saver, bad>>

-----------------------------------------------------------------------------
TrainerNext ==
  \/ FitFresh \/ FitResumed
  \/ \E nan \in BOOLEAN : TrainBatch(nan)
  \/ \E value \in Losses \cup {NaN} : EndEpoch(value)
  \/ SaveBest \/ SavePeriodic \/ Crash

TrainerSpec == TrainingStateInit /\ [][TrainerNext]_trainerVars

-----------------------------------------------------------------------------
(* Properties.                                                             *)

(* Every part of the state is in range, and so is what is on disk; a fit   *)
(* that goes on has patience left.                                         *)
Weights == [epochs : SUBSET EpochNumbers, steps : Nat]
LossValues == Losses \cup {NaN}

IsFile(f) ==
  Loaded(f) => /\ f.epoch \in EpochNumbers /\ f.step \in Nat
               /\ f.weights \in Weights /\ f.loss \in LossValues

TrainerTypeOK ==
  /\ made \in 0..Trainers /\ at \in {"batch", "best", "periodic", "off"}
  /\ epoch \in EpochNumbers /\ batch \in 0..Batches /\ step \in Nat
  /\ grads \in Nat \cup {NaN} /\ weights \in Weights
  /\ stopper \in [best : Losses \cup {NoLoss}, counter : 0..Patience]
  /\ at = "batch" => stopper.counter < Patience
  /\ saver.best \in Losses \cup {NoLoss}
  /\ losses \in Seq(LossValues)
  /\ IsFile(best) /\ \A e \in EpochNumbers : IsFile(periodic[e])

Numbers(seq) == {seq[i] : i \in DOMAIN seq} \ {NaN}
Least(seq) == IF Numbers(seq) = {} THEN NoLoss ELSE Min(Numbers(seq))

(* best_model.pt is the epoch with the least validation loss of the fit    *)
(* that writes it, whatever number or not the losses were.                 *)
BestFileIsBest ==
  LET saved == IF at = "best" THEN SubSeq(losses, 1, Len(losses) - 1) ELSE losses
  IN Numbers(saved) # {} => best.loss = Least(saved)

(* Of the epochs this fit was to save, the newest MaxKeep are on disk and  *)
(* whole, and no other, whatever earlier fits left there.                  *)
KeepsNewest ==
  LET next == IF at = "off" THEN epoch + 1 ELSE epoch
      first == IF at \in {"best", "periodic"} THEN next + 1 - Len(losses) ELSE next - Len(losses)
      due == {e \in first..(next - 1) : DueAt(e)}
  IN losses # <<>> =>
       \A e \in due : (Loaded(periodic[e]) /\ periodic[e].loss = losses[e - first + 1])
                       <=> Cardinality({f \in due : f > e}) < MaxKeep

(* No epoch before the one that is trained is missing from the weights,    *)
(* and none would be after a resumption from any file on disk: however     *)
(* often the process died, nothing is trained on half of the schedule.     *)
NothingSkipped ==
  /\ at # "off" => 0..(epoch - 1) \subseteq weights.epochs
  /\ \A file \in {best} \cup {periodic[e] : e \in EpochNumbers} :
       Loaded(file) => 0..file.epoch \subseteq file.weights.epochs

Patient == SubSeq(losses, Len(losses) - Patience + 1, Len(losses))
Before == SubSeq(losses, 1, Len(losses) - Patience)

(* A fit is not stopped early while one of its last Patience epochs was    *)
(* better than all before them by more than MinDelta, and it goes on only  *)
(* if one of them was better at all.                                       *)
StopsEarly ==
  /\ at = "periodic" /\ at' = "off" /\ losses' # <<>> /\ epoch + 1 < Epochs
  /\ \/ Len(losses) < Patience
     \/ \E v \in Numbers(Patient) : Improves(v, Least(Before), MinDelta)

GoesOnTooLong ==
  /\ at = "periodic" /\ at' = "batch" /\ Len(losses) >= Patience
  /\ \A v \in Numbers(Patient) : ~Improves(v, Least(Before), 0)

PatienceIsExact == [][~StopsEarly /\ ~GoesOnTooLong]_trainerVars

(* "Skipping optimizer step": a gradient that is not a number costs the    *)
(* step at the next boundary, and no other.                                *)
NaNCostsOneStep ==
  [][step' = step + 1 /\ grads' = NaN /\ (batch' % Accum) = 0 /\ ~bad
       => grads # NaN]_trainerVars

=============================================================================
