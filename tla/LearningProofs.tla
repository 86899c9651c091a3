----------------------------- MODULE LearningProofs -----------------------------
(* Of training by epochs: that a training resumed from any file a dead one   *)
(* left skips no epoch, that best_model.pt is the best epoch of the fit,     *)
(* that early stopping is exact, and that the newest periodic checkpoints,   *)
(* and no others, are on disk, for any number of epochs, batches, trainers   *)
(* and crashes.  Of online learning: that a rolled back update leaves no     *)
(* trace, and that losses are compared with the one of the model in use, for *)
(* any stack of checkpoints, losses and number of updates.                   *)
(*                                                                           *)
(* That no epoch is skipped is inductive as the epoch just ended is in the   *)
(* weights before it is saved, and a file is either torn or holds what it    *)
(* says; the rest of training stands on what best, patience and the list of  *)
(* kept checkpoints remember of the losses so far.                           *)
EXTENDS ModelTraining, OnlineLearning, FiniteSetTheorems, SequenceTheorems, TLAPS

FileInv(f) == IsFile(f) /\ (Loaded(f) => 0..f.epoch \subseteq f.weights.epochs)

FilesInv ==
  /\ FileInv(best)
  /\ DOMAIN periodic = EpochNumbers
  /\ \A e \in EpochNumbers : FileInv(periodic[e])

EndedInv ==
  at \in {"best", "periodic"} =>
    epoch \in weights.epochs /\ losses # <<>>

TrainInv ==
  /\ TrainerTypeOK /\ NothingSkipped
  /\ FilesInv /\ EndedInv
  /\ DOMAIN saver = {"best", "kept"}

LEMMA TrainBounds ==
  /\ Epochs \in Nat \ {0} /\ Batches \in Nat \ {0} /\ Patience \in Nat \ {0}
  /\ Trainers \in Nat \ {0} /\ NaN \notin Int /\ Losses \subseteq Int
BY TrainingAssumption

LEMMA FirstEpoch == 0 \in EpochNumbers
BY TrainBounds DEF EpochNumbers

LEMMA LastLoss ==
  ASSUME NEW S, NEW s \in Seq(S), s # <<>>
  PROVE  Len(s) \in Nat \ {0} /\ s[Len(s)] \in S
BY EmptySeq, LenProperties

(* The checkpoint of an epoch that has ended holds it and all before it. *)
LEMMA CheckpointInv ==
  ASSUME TrainInv, at \in {"best", "periodic"}
  PROVE  FileInv(Checkpoint)
<1>1. losses[Len(losses)] \in LossValues
  BY LastLoss DEF TrainInv, TrainerTypeOK, EndedInv
<1>2. /\ Checkpoint.epoch = epoch /\ Checkpoint.step = step
      /\ Checkpoint.weights = weights /\ Checkpoint.loss = losses[Len(losses)]
  BY DEF Checkpoint
<1>3. epoch \in Int /\ 0..epoch \subseteq (0..(epoch - 1)) \cup {epoch}
  BY TrainBounds DEF TrainInv, TrainerTypeOK, EpochNumbers
<1>4. 0..(epoch - 1) \subseteq weights.epochs /\ epoch \in weights.epochs
  BY DEF TrainInv, NothingSkipped, EndedInv
<1>5. 0..epoch \subseteq weights.epochs
  BY <1>3, <1>4
<1> QED BY <1>1, <1>2, <1>5 DEF FileInv, IsFile, TrainInv, TrainerTypeOK

(* Files that satisfy the invariant leave nothing skipped. *)
LEMMA FilesSkipNothing ==
  ASSUME FilesInv
  PROVE  \A file \in {best} \cup {periodic[e] : e \in EpochNumbers} :
           Loaded(file) => 0..file.epoch \subseteq file.weights.epochs
BY DEF FilesInv, FileInv

(* fit begins: from scratch, or from any file. *)
LEMMA FitInv ==
  ASSUME TrainInv, NEW from, Fit(from),
         from.epoch \in EpochNumbers, from.step \in Nat, from.weights \in Weights,
         0..(from.epoch - 1) \subseteq from.weights.epochs
  PROVE  TrainInv'
<1>1. made' \in 0..Trainers
  BY TrainBounds DEF Fit, TrainInv, TrainerTypeOK
<1>2. stopper' \in [best : Losses \cup {NoLoss}, counter : 0..Patience] /\ stopper'.counter < Patience
  BY TrainBounds DEF Fit
<1>3. saver'.best \in Losses \cup {NoLoss} /\ DOMAIN saver' = {"best", "kept"}
  BY DEF Fit
<1>4. losses' \in Seq(LossValues)
  BY EmptySeq DEF Fit
<1>5. FilesInv'
  BY DEF Fit, TrainInv, FilesInv, FileInv, IsFile
<1>6. TrainerTypeOK'
  BY <1>1, <1>2, <1>3, <1>4, <1>5, TrainBounds
  DEF Fit, TrainerTypeOK, FilesInv, FileInv, LossValues, Weights, EpochNumbers
<1>7. NothingSkipped'
  BY <1>5 DEF Fit, NothingSkipped, FilesInv, FileInv
<1> QED BY <1>3, <1>5, <1>6, <1>7 DEF TrainInv, EndedInv, Fit

LEMMA FitFreshInv == TrainInv /\ FitFresh => TrainInv'
<1> SUFFICES ASSUME TrainInv, FitFresh PROVE TrainInv'
    OBVIOUS
<1>1. /\ Scratch.epoch = 0 /\ Scratch.step = 0
      /\ Scratch.weights \in [epochs : SUBSET EpochNumbers, steps : Nat]
  BY DEF Scratch
<1>2. 0..(0 - 1) = {}
  OBVIOUS
<1> QED BY <1>1, <1>2, FirstEpoch, FitInv DEF FitFresh, Weights

LEMMA FitResumedInv == TrainInv /\ FitResumed => TrainInv'
<1> SUFFICES ASSUME TrainInv, FitResumed PROVE TrainInv'
    OBVIOUS
<1>1. PICK file \in {best} \cup {periodic[e] : e \in EpochNumbers} :
        Loaded(file) /\ Fit(Restored(file))
  BY DEF FitResumed
<1>2. FileInv(file)
  BY DEF TrainInv, FilesInv
<1>3. /\ file.epoch \in EpochNumbers /\ file.step \in Nat /\ file.weights \in Weights
      /\ 0..file.epoch \subseteq file.weights.epochs
  BY <1>1, <1>2 DEF FileInv, IsFile
<1>4. /\ Restored(file).epoch = file.epoch /\ Restored(file).step = file.step
      /\ Restored(file).weights = file.weights
  BY DEF Restored
<1>5. 0..(file.epoch - 1) \subseteq 0..file.epoch
  BY <1>3, TrainBounds DEF EpochNumbers
<1> QED BY <1>1, <1>3, <1>4, <1>5, FitInv

LEMMA TrainBatchInv ==
  ASSUME TrainInv, NEW nan \in BOOLEAN, TrainBatch(nan)
  PROVE  TrainInv'
<1>0. at = "batch" /\ at' = "batch" /\ batch + 1 \in 0..Batches /\ step + 1 \in Nat
  BY TrainBounds DEF TrainBatch, TrainInv, TrainerTypeOK
<1>1. Accumulated(nan) \in Nat \cup {NaN}
  BY DEF Accumulated, TrainInv, TrainerTypeOK
<1>2. grads' \in Nat \cup {NaN}
  BY <1>1 DEF TrainBatch, Zeroed
<1>3. weights' \in Weights /\ weights'.epochs = weights.epochs
  BY DEF TrainBatch, TrainInv, TrainerTypeOK, Weights
<1>4. FilesInv'
  BY DEF TrainBatch, TrainInv, FilesInv, FileInv, IsFile
<1>5. TrainerTypeOK'
  BY <1>0, <1>2, <1>3 DEF TrainBatch, TrainInv, TrainerTypeOK, IsFile, LossValues, Weights
<1>6. NothingSkipped'
  BY <1>0, <1>3 DEF TrainBatch, TrainInv, NothingSkipped
<1> QED BY <1>0, <1>4, <1>5, <1>6 DEF TrainInv, EndedInv, TrainBatch

LEMMA EndEpochInv ==
  ASSUME TrainInv, NEW value \in Losses \cup {NaN}, EndEpoch(value)
  PROVE  TrainInv'
<1>0. at = "batch" /\ at' = "best" /\ value \in LossValues
  BY DEF EndEpoch, LossValues
<1>1. weights' \in Weights /\ weights'.epochs = weights.epochs \cup {epoch}
  BY DEF EndEpoch, TrainInv, TrainerTypeOK, Weights
<1>2. stopper' \in [best : Losses \cup {NoLoss}, counter : 0..Patience]
  <2>1. stopper.counter + 1 \in 0..Patience /\ 0 \in 0..Patience
    BY <1>0, TrainBounds DEF TrainInv, TrainerTypeOK
  <2>2. Improves(value, stopper.best, MinDelta) => value \in Losses
    BY DEF Improves
  <2> QED BY <2>1, <2>2 DEF EndEpoch, Counted, TrainInv, TrainerTypeOK
<1>3. losses' \in Seq(LossValues) /\ losses' # <<>>
  BY <1>0, AppendProperties DEF EndEpoch, TrainInv, TrainerTypeOK
<1>4. FilesInv'
  BY DEF EndEpoch, TrainInv, FilesInv, FileInv, IsFile
<1>5. TrainerTypeOK'
  BY <1>0, <1>1, <1>2, <1>3 DEF EndEpoch, TrainInv, TrainerTypeOK, IsFile, LossValues, Weights
<1>6. NothingSkipped'
  BY <1>0, <1>1 DEF EndEpoch, TrainInv, NothingSkipped
<1> QED BY <1>1, <1>3, <1>4, <1>5, <1>6 DEF TrainInv, EndedInv, EndEpoch

LEMMA SaveBestInv == TrainInv /\ SaveBest => TrainInv'
<1> SUFFICES ASSUME TrainInv, SaveBest PROVE TrainInv'
    OBVIOUS
<1>0. at = "best" /\ at' = "periodic"
  BY DEF SaveBest
<1>1. losses[Len(losses)] \in LossValues
  BY <1>0, LastLoss DEF TrainInv, TrainerTypeOK, EndedInv
<1>2. saver'.best \in Losses \cup {NoLoss} /\ DOMAIN saver' = {"best", "kept"}
  <2>1. Improves(losses[Len(losses)], saver.best, 0) => losses[Len(losses)] \in Losses
    BY <1>1 DEF Improves, LossValues
  <2> QED BY <2>1 DEF SaveBest, BestAfter, TrainInv, TrainerTypeOK
<1>3. FileInv(best')
  BY <1>0, CheckpointInv DEF SaveBest, TrainInv, FilesInv, FileInv, IsFile
<1>4. FilesInv'
  BY <1>3 DEF SaveBest, TrainInv, FilesInv, FileInv, IsFile
<1>5. TrainerTypeOK'
  BY <1>0, <1>2, <1>4
  DEF SaveBest, TrainInv, TrainerTypeOK, FilesInv, FileInv, IsFile, LossValues, Weights
<1>6. NothingSkipped'
  BY <1>0, <1>4 DEF SaveBest, TrainInv, NothingSkipped, FilesInv, FileInv
<1> QED BY <1>0, <1>2, <1>4, <1>5, <1>6 DEF TrainInv, EndedInv, SaveBest

LEMMA SavePeriodicInv == TrainInv /\ SavePeriodic => TrainInv'
<1> SUFFICES ASSUME TrainInv, SavePeriodic PROVE TrainInv'
    OBVIOUS
<1>0. at = "periodic" /\ at' \in {"batch", "off"}
  BY DEF SavePeriodic
<1>1. DOMAIN periodic' = EpochNumbers /\
      \A e \in EpochNumbers : periodic'[e] \in {NoFile, Checkpoint, periodic[e]}
  BY DEF SavePeriodic, TrainInv, FilesInv
<1>2. FilesInv'
  <2>1. FileInv(Checkpoint) /\ FileInv(NoFile)
    BY <1>0, CheckpointInv DEF FileInv, IsFile, Loaded
  <2>2. \A e \in EpochNumbers : FileInv(periodic'[e])
    BY <1>1, <2>1 DEF TrainInv, FilesInv
  <2>3. FileInv(best')
    BY DEF SavePeriodic, TrainInv, FilesInv
  <2> QED BY <1>1, <2>2, <2>3 DEF FilesInv, FileInv, IsFile
<1>3. saver'.best = saver.best /\ DOMAIN saver' = {"best", "kept"}
  BY DEF SavePeriodic, TrainInv
<1>4. epoch' \in EpochNumbers /\ batch' \in 0..Batches
  BY TrainBounds DEF SavePeriodic, TrainInv, TrainerTypeOK, EpochNumbers
<1>5. at' = "batch" => stopper'.counter < Patience
  BY TrainBounds DEF SavePeriodic, OutOfPatience, TrainInv, TrainerTypeOK
<1>6. at' # "off" => 0..(epoch' - 1) \subseteq weights'.epochs
  <2>1. SUFFICES ASSUME at' # "off" PROVE 0..(epoch' - 1) \subseteq weights'.epochs
    OBVIOUS
  <2>2. epoch' = epoch + 1 /\ weights' = weights /\ epoch \in Nat
    BY <2>1, TrainBounds DEF SavePeriodic, TrainInv, TrainerTypeOK, EpochNumbers
  <2>3. 0..(epoch' - 1) \subseteq (0..(epoch - 1)) \cup {epoch}
    BY <2>2
  <2> QED BY <1>0, <2>2, <2>3 DEF TrainInv, NothingSkipped, EndedInv
<1>7. TrainerTypeOK'
  BY <1>0, <1>2, <1>3, <1>4, <1>5
  DEF SavePeriodic, TrainInv, TrainerTypeOK, FilesInv, FileInv, IsFile, LossValues, Weights
<1>8. NothingSkipped'
  BY <1>2, <1>6 DEF NothingSkipped, FilesInv, FileInv
<1> QED BY <1>0, <1>2, <1>3, <1>7, <1>8 DEF TrainInv, EndedInv

LEMMA CrashInv == TrainInv /\ Crash => TrainInv'
<1> SUFFICES ASSUME TrainInv, Crash PROVE TrainInv'
    OBVIOUS
<1>1. at' = "off" /\ FileInv(Torn)
  BY DEF Crash, FileInv, IsFile, Loaded
<1>2. FileInv(best')
  BY <1>1 DEF Crash, TrainInv, FilesInv
<1>3. DOMAIN periodic' = EpochNumbers /\ \A e \in EpochNumbers : FileInv(periodic'[e])
  <2>1. CASE UNCHANGED periodic
    BY <2>1 DEF TrainInv, FilesInv
  <2>2. CASE at = "periodic" /\ \E file \in {Torn, Checkpoint} :
                                  periodic' = [periodic EXCEPT ![epoch] = file]
    BY <1>1, <2>2, CheckpointInv DEF TrainInv, FilesInv
  <2> QED BY <2>1, <2>2 DEF Crash
<1>4. FilesInv'
  BY <1>2, <1>3 DEF FilesInv, FileInv, IsFile
<1>5. losses' \in Seq(LossValues)
  BY EmptySeq DEF Crash
<1>6. TrainerTypeOK'
  BY <1>1, <1>4, <1>5
  DEF Crash, TrainInv, TrainerTypeOK, FilesInv, FileInv, IsFile, LossValues, Weights
<1>7. NothingSkipped'
  BY <1>1, <1>4 DEF NothingSkipped, FilesInv, FileInv
<1> QED BY <1>1, <1>4, <1>6, <1>7 DEF TrainInv, EndedInv, Crash

LEMMA TrainStepInv == TrainInv /\ [TrainerNext]_trainerVars => TrainInv'
<1>1. CASE UNCHANGED trainerVars
  BY <1>1 DEF trainerVars, TrainInv, TrainerTypeOK, NothingSkipped, FilesInv, FileInv, IsFile,
              EndedInv, LossValues, Weights
<1> QED BY <1>1, FitFreshInv, FitResumedInv, TrainBatchInv, EndEpochInv, SaveBestInv,
           SavePeriodicInv, CrashInv
        DEF TrainerNext

LEMMA TrainInitInv == TrainingStateInit => TrainInv
<1> SUFFICES ASSUME TrainingStateInit PROVE TrainInv
    OBVIOUS
<1>1. FileInv(NoFile)
  BY DEF FileInv, IsFile, Loaded
<1>2. FilesInv
  BY <1>1 DEF TrainingStateInit, FilesInv
<1>3. TrainerTypeOK
  BY <1>2, TrainBounds, FirstEpoch, EmptySeq
  DEF TrainingStateInit, TrainerTypeOK, FilesInv, FileInv, Weights
<1>4. NothingSkipped
  BY <1>2, FilesSkipNothing DEF TrainingStateInit, NothingSkipped
<1> QED BY <1>2, <1>3, <1>4 DEF TrainInv, EndedInv, TrainingStateInit

(* The trainer and what it left on disk are always in range, and a fit that *)
(* goes on has patience left.                                               *)
THEOREM TrainerTypeCorrect == TrainerSpec => []TrainerTypeOK
<1>1. TrainInv => TrainerTypeOK
  BY DEF TrainInv
<1> QED BY TrainInitInv, TrainStepInv, <1>1, PTL DEF TrainerSpec

(* However often the process dies, and in the middle of whichever save, no  *)
(* epoch before the one that is trained is missing from the weights, nor    *)
(* would one be after a resumption from any file.                           *)
THEOREM TrainerSkipsNothing == TrainerSpec => []NothingSkipped
<1>1. TrainInv => NothingSkipped
  BY DEF TrainInv
<1> QED BY TrainInitInv, TrainStepInv, <1>1, PTL DEF TrainerSpec

-----------------------------------------------------------------------------
(* What has been offered to best_model.pt, and that it kept the least of it. *)
Offered == IF at = "best" THEN SubSeq(losses, 1, Len(losses) - 1) ELSE losses

KeptBest ==
  at # "off" \/ losses # <<>> =>
    IF saver.best = NoLoss THEN Numbers(Offered) = {}
    ELSE /\ saver.best \in Numbers(Offered)
         /\ \A v \in Numbers(Offered) : saver.best <= v
         /\ best.loss = saver.best

(* The losses without the last one. *)
LEMMA AllButLast ==
  ASSUME NEW S, NEW s \in Seq(S), s # <<>>
  PROVE  /\ SubSeq(s, 1, Len(s) - 1) \in Seq(S)
         /\ Numbers(s) = Numbers(SubSeq(s, 1, Len(s) - 1)) \cup ({s[Len(s)]} \ {NaN})
<1> DEFINE n == Len(s)
           front == SubSeq(s, 1, n - 1)
<1>1. n \in Nat \ {0} /\ DOMAIN s = 1..n /\ \A i \in 1..n : s[i] \in S
  BY EmptySeq, LenProperties
<1>2. /\ front \in Seq(S) /\ Len(front) = n - 1
      /\ \A i \in 1..(n - 1) : front[i] = s[i]
  BY <1>1, SubSeqProperties
<1>3. DOMAIN front = 1..(n - 1)
  BY <1>1, <1>2, LenProperties
<1>4. 1..n = (1..(n - 1)) \cup {n}
  BY <1>1
<1> HIDE DEF n, front
<1>5. {s[i] : i \in 1..n} = {front[i] : i \in 1..(n - 1)} \cup {s[n]}
  BY <1>2, <1>4
<1> QED BY <1>1, <1>2, <1>3, <1>5 DEF Numbers, n, front

LEMMA AppendThenFront ==
  ASSUME NEW S, NEW s \in Seq(S), NEW v \in S
  PROVE  SubSeq(Append(s, v), 1, Len(Append(s, v)) - 1) = s
BY AppendProperties, SubSeqProperties, LenProperties

LEMMA NumbersOfLosses ==
  ASSUME NEW s \in Seq(LossValues)
  PROVE  Numbers(s) \subseteq Losses
BY LenProperties DEF Numbers, LossValues

LEMMA KeptBestStep ==
  ASSUME TrainInv, KeptBest, [TrainerNext]_trainerVars
  PROVE  KeptBest'
<1>0. /\ losses \in Seq(LossValues) /\ Losses \subseteq Int /\ NoLoss \notin Int
      /\ NaN \notin Int /\ saver.best \in Losses \cup {NoLoss}
  BY TrainingAssumption DEF TrainInv, TrainerTypeOK
<1>1. ASSUME NEW from, Fit(from) PROVE KeptBest'
  <2>1. losses' = <<>> /\ saver'.best = NoLoss /\ at' = "batch"
    BY <1>1 DEF Fit
  <2> QED BY <2>1 DEF KeptBest, Offered, Numbers
<1>2. ASSUME NEW nan \in BOOLEAN, TrainBatch(nan) PROVE KeptBest'
  BY <1>2 DEF TrainBatch, KeptBest, Offered
<1>3. ASSUME NEW value \in Losses \cup {NaN}, EndEpoch(value) PROVE KeptBest'
  <2>1. /\ at = "batch" /\ at' = "best" /\ losses' = Append(losses, value)
        /\ saver' = saver /\ best' = best
    BY <1>3 DEF EndEpoch
  <2>2. Offered' = Offered
    BY <1>0, <2>1, AppendThenFront DEF Offered, LossValues
  <2> QED BY <2>1, <2>2 DEF KeptBest
<1>4. CASE SaveBest
  <2> DEFINE last == losses[Len(losses)]
             front == SubSeq(losses, 1, Len(losses) - 1)
  <2>1. /\ at = "best" /\ at' = "periodic" /\ losses' = losses
        /\ losses # <<>>
    BY <1>4 DEF SaveBest, TrainInv, EndedInv
  <2>2. front \in Seq(LossValues) /\ Numbers(losses) = Numbers(front) \cup ({last} \ {NaN})
    BY <1>0, <2>1, AllButLast
  <2>3. last \in LossValues /\ Numbers(front) \subseteq Losses
    BY <1>0, <2>1, <2>2, LastLoss, NumbersOfLosses
  <2>4. Offered = front /\ Offered' = losses
    BY <2>1 DEF Offered
  <2>8. /\ last = NaN \/ last \in Int
        /\ saver.best # NoLoss => saver.best \in Int /\ saver.best - 0 = saver.best
    <3>1. last = NaN \/ last \in Int
      BY <1>0, <2>3 DEF LossValues
    <3>2. saver.best # NoLoss => saver.best \in Int
      BY <1>0
    <3>3. \A n \in Int : n - 0 = n
      OBVIOUS
    <3> QED BY <3>1, <3>2, <3>3
  <2>9. Improves(last, saver.best, 0) <=>
          last # NaN /\ (saver.best # NoLoss => last < saver.best)
    BY <2>8 DEF Improves
  <2> HIDE DEF last, front
  <2>5. IF saver.best = NoLoss THEN Numbers(front) = {}
        ELSE /\ saver.best \in Numbers(front)
             /\ \A v \in Numbers(front) : saver.best <= v
             /\ best.loss = saver.best
    BY <2>1, <2>4 DEF KeptBest
  <2>6. CASE Improves(last, saver.best, 0)
    <3>1. /\ last \in Int /\ last # NaN /\ (saver.best # NoLoss => last < saver.best)
          /\ last # NoLoss
      BY <1>0, <2>6, <2>8, <2>9
    <3>2. saver'.best = last /\ best'.loss = last
      BY <1>4, <2>6 DEF SaveBest, BestAfter, Checkpoint, TrainInv, last
    <3>3. \A v \in Numbers(losses) : last <= v
      <4> SUFFICES ASSUME NEW v \in Numbers(losses) PROVE last <= v
        OBVIOUS
      <4>1. v = last \/ v \in Numbers(front)
        BY <2>2
      <4>2. v \in Numbers(front) => v \in Int /\ saver.best # NoLoss /\ saver.best <= v
        BY <1>0, <2>3, <2>5
      <4> QED BY <2>8, <3>1, <4>1, <4>2
    <3> QED BY <2>1, <2>2, <2>4, <3>1, <3>2, <3>3 DEF KeptBest
  <2>7. CASE ~Improves(last, saver.best, 0)
    <3>1. saver' = saver /\ best' = best
      BY <1>4, <2>7 DEF SaveBest, last
    <3>2. last = NaN \/ (saver.best # NoLoss /\ last \in Int /\ saver.best <= last)
      BY <2>7, <2>8, <2>9
    <3> QED BY <2>1, <2>2, <2>4, <2>5, <3>1, <3>2 DEF KeptBest
  <2> QED BY <2>6, <2>7
<1>5. CASE SavePeriodic
  <2>1. /\ at = "periodic" /\ at' \in {"batch", "off"} /\ losses' = losses /\ best' = best
        /\ saver'.best = saver.best
    BY <1>5 DEF SavePeriodic, TrainInv
  <2>2. Offered' = Offered
    BY <2>1 DEF Offered
  <2> QED BY <2>1, <2>2 DEF KeptBest
<1>6. CASE Crash
  BY <1>6 DEF Crash, KeptBest
<1>7. CASE UNCHANGED trainerVars
  BY <1>7 DEF trainerVars, KeptBest, Offered
<1> QED BY <1>1, <1>2, <1>3, <1>4, <1>5, <1>6, <1>7 DEF TrainerNext, FitFresh, FitResumed

(* Whatever the losses were, numbers or not, and whatever an earlier fit   *)
(* left there, best_model.pt is the epoch with the least of this fit.      *)
THEOREM TrainerKeepsBest == TrainerSpec => []BestFileIsBest
<1>1. TrainingStateInit => KeptBest
  BY DEF TrainingStateInit, KeptBest, Offered, Numbers
<1>2. TrainInv /\ KeptBest => BestFileIsBest
  <2> SUFFICES ASSUME TrainInv, KeptBest, Numbers(Offered) # {}
               PROVE  best.loss = Least(Offered)
    BY DEF BestFileIsBest, Offered
  <2>0. losses \in Seq(LossValues)
    BY DEF TrainInv, TrainerTypeOK
  <2>1. losses # <<>>
    <3>1. at = "best" => losses # <<>>
      BY DEF TrainInv, EndedInv
    <3>2. Numbers(<<>>) = {}
      BY DEF Numbers
    <3> QED BY <3>1, <3>2 DEF Offered
  <2>2. Offered \in Seq(LossValues)
    BY <2>0, <2>1, AllButLast DEF Offered
  <2>3. Numbers(Offered) \subseteq Int
    BY <2>2, NumbersOfLosses, TrainBounds
  <2>4. /\ saver.best \in Numbers(Offered) /\ best.loss = saver.best
        /\ \A v \in Numbers(Offered) : saver.best <= v
    BY <2>1 DEF KeptBest
  <2>5. \A x \in Numbers(Offered) :
          (\A v \in Numbers(Offered) : x <= v) => x = saver.best
    BY <2>3, <2>4
  <2>6. Min(Numbers(Offered)) = saver.best
    BY <2>4, <2>5 DEF Min
  <2> QED BY <2>4, <2>6 DEF Least
<1> QED BY <1>1, <1>2, TrainInitInv, TrainStepInv, KeptBestStep, PTL DEF TrainerSpec

-----------------------------------------------------------------------------
(* Integers bounded from below have a least one, as naturals are well       *)
(* ordered.                                                                 *)
LEMMA LeastNatural ==
  ASSUME NEW T \in SUBSET Nat, T # {}
  PROVE  \E n \in T : \A m \in T : n <= m
<1> DEFINE R == {ss \in Nat \X Nat : ss[1] < ss[2]}
<1>1. IsWellFoundedOn(R, Nat)
  BY NatLessThanWellFounded DEF OpToRel
<1>2. \A x, y \in Nat : y < x => <<y, x>> \in R
  OBVIOUS
<1> HIDE DEF R
<1>3. \E n \in T : \A m \in T : ~(<<m, n>> \in R)
  BY <1>1, WFMin
<1>4. PICK n \in T : \A m \in T : ~(<<m, n>> \in R)
  BY <1>3
<1>5. \A m \in T : n \in Nat /\ m \in Nat /\ ~(m < n)
  BY <1>2, <1>4
<1> QED BY <1>5

LEMMA MinOfBounded ==
  ASSUME NEW S \in SUBSET Int, S # {}, NEW b \in Int, \A s \in S : b <= s
  PROVE  Min(S) \in S /\ \A s \in S : Min(S) <= s
<1> DEFINE T == {s - b : s \in S}
<1>1. T \in SUBSET Nat
  <2> SUFFICES ASSUME NEW s \in S PROVE s - b \in Nat
    OBVIOUS
  <2>1. s \in Int /\ b <= s
    OBVIOUS
  <2> QED BY <2>1
<1>2. T # {}
  OBVIOUS
<1>3. \A r \in S : r - b \in T
  OBVIOUS
<1> HIDE DEF T
<1>4. PICK n \in T : \A m \in T : n <= m
  BY <1>1, <1>2, LeastNatural
<1>5. PICK s \in S : n = s - b
  BY DEF T
<1>6. \A r \in S : s <= r
  <2> SUFFICES ASSUME NEW r \in S PROVE s <= r
    OBVIOUS
  <2>1. n <= r - b /\ s \in Int /\ r \in Int
    BY <1>3, <1>4
  <2> QED BY <1>5, <2>1
<1> QED BY <1>6 DEF Min

(* The early stopping counts the epochs since one was better than all       *)
(* before it; nothing since was better than that by more than MinDelta.     *)
Since == Len(losses) - stopper.counter

CountedRight ==
  at # "off" \/ losses # <<>> =>
    /\ Since \in 0..Len(losses)
    /\ Since = 0 => stopper.best = NoLoss /\ Numbers(losses) = {}
    /\ Since > 0 =>
         /\ losses[Since] = stopper.best /\ stopper.best \in Int
         /\ \A i \in 1..Len(losses) : losses[i] # NaN =>
              /\ i < Since => stopper.best < losses[i]
              /\ stopper.best - MinDelta <= losses[i]

LEMMA CountedStep ==
  ASSUME TrainInv, CountedRight, [TrainerNext]_trainerVars
  PROVE  CountedRight'
<1>0. /\ losses \in Seq(LossValues) /\ Len(losses) \in Nat /\ Losses \subseteq Int
      /\ NoLoss \notin Int /\ NaN \notin Int /\ MinDelta \in Nat
      /\ stopper \in [best : Losses \cup {NoLoss}, counter : 0..Patience]
  BY TrainingAssumption, LenProperties DEF TrainInv, TrainerTypeOK
<1>1. ASSUME NEW from, Fit(from) PROVE CountedRight'
  <2>1. losses' = <<>> /\ stopper' = [best |-> NoLoss, counter |-> 0]
    BY <1>1 DEF Fit
  <2> QED BY <2>1 DEF CountedRight, Since, Numbers
<1>2. CASE at # "off" /\ UNCHANGED <<stopper, losses>>
  BY <1>2 DEF CountedRight, Since
<1>3. ASSUME NEW nan \in BOOLEAN, TrainBatch(nan) PROVE CountedRight'
  BY <1>2, <1>3 DEF TrainBatch
<1>4. ASSUME NEW value \in Losses \cup {NaN}, EndEpoch(value) PROVE CountedRight'
  <2> DEFINE n == Len(losses)
             old == stopper.best
  <2>1. /\ at = "batch" /\ losses' = Append(losses, value) /\ stopper' = Counted(value)
    BY <1>4 DEF EndEpoch
  <2>2. /\ Len(losses') = n + 1 /\ losses'[n + 1] = value
        /\ \A i \in 1..n : losses'[i] = losses[i] /\ losses[i] \in LossValues
        /\ losses' \in Seq(LossValues)
    BY <1>0, <2>1, AppendProperties, LenProperties DEF LossValues
  <2>3. /\ Since \in 0..n
        /\ Since = 0 => old = NoLoss /\ Numbers(losses) = {}
        /\ Since > 0 =>
             /\ losses[Since] = old /\ old \in Int
             /\ \A i \in 1..n : losses[i] # NaN =>
                  /\ i < Since => old < losses[i]
                  /\ old - MinDelta <= losses[i]
    BY <2>1 DEF CountedRight
  <2>4. Since' = Len(losses') - stopper'.counter
    BY DEF Since
  <2>5. \A i \in 1..n : losses[i] # NaN => losses[i] \in Int /\ losses[i] \in Numbers(losses)
    BY <1>0, <2>2, LenProperties DEF Numbers, LossValues
  <2>6. DOMAIN losses = 1..n /\ DOMAIN losses' = 1..(n + 1)
    BY <1>0, <2>2, LenProperties
  <2>7. CASE Improves(value, old, MinDelta)
    <3>1. stopper'.best = value /\ stopper'.counter = 0 /\ value \in Int
      BY <1>0, <2>1, <2>7 DEF Counted, Improves
    <3>2. Since' = n + 1
      BY <1>0, <2>2, <2>4, <3>1
    <3>3. \A i \in 1..n : losses[i] # NaN => value < losses[i]
      <4>1. CASE Since = 0
        BY <2>3, <2>5, <4>1
      <4>2. CASE Since > 0
        <5>1. old \in Int /\ old # NoLoss /\ value < old - MinDelta
          BY <1>0, <2>3, <2>7, <4>2 DEF Improves
        <5> SUFFICES ASSUME NEW i \in 1..n, losses[i] # NaN PROVE value < losses[i]
          OBVIOUS
        <5>2. losses[i] \in Int /\ old - MinDelta <= losses[i]
          BY <2>3, <2>5, <4>2
        <5> QED BY <1>0, <3>1, <5>1, <5>2
      <4> QED BY <1>0, <2>3, <4>1, <4>2
    <3>4. \A i \in 1..(n + 1) : losses'[i] # NaN =>
            /\ i < n + 1 => value < losses'[i]
            /\ value - MinDelta <= losses'[i]
      <4> SUFFICES ASSUME NEW i \in 1..(n + 1), losses'[i] # NaN
                   PROVE  /\ i < n + 1 => value < losses'[i]
                          /\ value - MinDelta <= losses'[i]
        OBVIOUS
      <4>1. CASE i = n + 1
        BY <1>0, <2>2, <3>1, <4>1
      <4>2. CASE i \in 1..n
        <5>1. losses'[i] \in Int /\ value < losses'[i]
          BY <2>2, <2>5, <3>3, <4>2
        <5> QED BY <1>0, <3>1, <5>1
      <4> QED BY <1>0, <4>1, <4>2
    <3> QED BY <1>0, <2>2, <3>1, <3>2, <3>4 DEF CountedRight
  <2>8. CASE ~Improves(value, old, MinDelta)
    <3>1. stopper'.best = old /\ stopper'.counter = stopper.counter + 1
      BY <1>0, <2>1, <2>8 DEF Counted
    <3>2. Since' = Since
      BY <1>0, <2>2, <2>4, <3>1 DEF Since
    <3>3. CASE Since = 0
      <4>1. old = NoLoss /\ Numbers(losses) = {} /\ value = NaN
        BY <2>3, <2>8, <3>3 DEF Improves
      <4>2. \A i \in 1..(n + 1) : losses'[i] = NaN
        BY <1>0, <2>2, <2>5, <4>1
      <4>3. Numbers(losses') = {}
        BY <2>6, <4>2 DEF Numbers
      <4> QED BY <1>0, <2>2, <3>1, <3>2, <3>3, <4>1, <4>3 DEF CountedRight
    <3>4. CASE Since > 0
      <4>1. old \in Int /\ losses'[Since] = old
        BY <2>2, <2>3, <3>4
      <4>2. value # NaN => value \in Int /\ old - MinDelta <= value
        BY <1>0, <2>8, <4>1 DEF Improves
      <4>3. \A i \in 1..(n + 1) : losses'[i] # NaN =>
              /\ i < Since => old < losses'[i]
              /\ old - MinDelta <= losses'[i]
        <5> SUFFICES ASSUME NEW i \in 1..(n + 1), losses'[i] # NaN
                     PROVE  /\ i < Since => old < losses'[i]
                            /\ old - MinDelta <= losses'[i]
          OBVIOUS
        <5>1. CASE i = n + 1
          BY <1>0, <2>2, <2>3, <4>2, <5>1
        <5>2. CASE i \in 1..n
          BY <2>2, <2>3, <3>4, <5>2
        <5> QED BY <1>0, <5>1, <5>2
      <4> QED BY <1>0, <2>2, <2>3, <3>1, <3>2, <3>4, <4>1, <4>3 DEF CountedRight
    <3> QED BY <1>0, <2>3, <3>3, <3>4
  <2> QED BY <2>7, <2>8
<1>5. CASE SaveBest
  BY <1>2, <1>5 DEF SaveBest
<1>6. CASE SavePeriodic
  BY <1>2, <1>6 DEF SavePeriodic
<1>7. CASE Crash
  BY <1>7 DEF Crash, CountedRight
<1>8. CASE UNCHANGED trainerVars
  BY <1>8 DEF trainerVars, CountedRight, Since
<1> QED BY <1>1, <1>3, <1>4, <1>5, <1>6, <1>7, <1>8 DEF TrainerNext, FitFresh, FitResumed

(* The losses split at the last Patience epochs. *)
LEMMA SplitLosses ==
  ASSUME NEW s \in Seq(LossValues), NEW m \in 0..Len(s)
  PROVE  /\ Numbers(SubSeq(s, 1, m)) = {s[i] : i \in 1..m} \ {NaN}
         /\ Numbers(SubSeq(s, m + 1, Len(s))) = {s[i] : i \in (m + 1)..Len(s)} \ {NaN}
<1>1. Len(s) \in Nat /\ m \in Int /\ \A i \in 1..Len(s) : s[i] \in LossValues
  BY LenProperties
<1>2. /\ SubSeq(s, 1, m) \in Seq(LossValues) /\ Len(SubSeq(s, 1, m)) = m
      /\ \A i \in 1..m : SubSeq(s, 1, m)[i] = s[i]
  BY <1>1, SubSeqProperties
<1>3. DOMAIN SubSeq(s, 1, m) = 1..m
  BY <1>2, LenProperties
<1>4. /\ SubSeq(s, m + 1, Len(s)) \in Seq(LossValues)
      /\ Len(SubSeq(s, m + 1, Len(s))) = Len(s) - m
      /\ \A i \in 1..(Len(s) - m) : SubSeq(s, m + 1, Len(s))[i] = s[m + i]
  BY <1>1, SubSeqProperties
<1>5. DOMAIN SubSeq(s, m + 1, Len(s)) = 1..(Len(s) - m)
  BY <1>4, LenProperties
<1>6. {SubSeq(s, m + 1, Len(s))[i] : i \in 1..(Len(s) - m)} = {s[i] : i \in (m + 1)..Len(s)}
  <2>1. \A i \in 1..(Len(s) - m) : m + i \in (m + 1)..Len(s)
    BY <1>1
  <2>2. \A i \in (m + 1)..Len(s) : i - m \in 1..(Len(s) - m) /\ m + (i - m) = i
    BY <1>1
  <2> DEFINE back == SubSeq(s, m + 1, Len(s))
  <2>3. \A i \in 1..(Len(s) - m) : back[i] = s[m + i]
    BY <1>4
  <2>4. \A i \in (m + 1)..Len(s) : back[i - m] = s[i]
    BY <2>2, <2>3
  <2> HIDE DEF back
  <2>5. {back[i] : i \in 1..(Len(s) - m)} \subseteq {s[i] : i \in (m + 1)..Len(s)}
    BY <2>1, <2>3
  <2>6. {s[i] : i \in (m + 1)..Len(s)} \subseteq {back[i] : i \in 1..(Len(s) - m)}
    BY <2>2, <2>4
  <2> QED BY <2>5, <2>6 DEF back
<1> QED BY <1>2, <1>3, <1>5, <1>6 DEF Numbers

(* A step that ends or goes on with a fit decides rightly. *)
LEMMA PatienceStep ==
  ASSUME TrainInv, CountedRight, [TrainerNext]_trainerVars
  PROVE  ~StopsEarly /\ ~GoesOnTooLong
<1> DEFINE n == Len(losses)
           m == n - Patience
<1>0. /\ losses \in Seq(LossValues) /\ n \in Nat /\ Losses \subseteq Int
      /\ NoLoss \notin Int /\ NaN \notin Int /\ MinDelta \in Nat /\ Patience \in Nat \ {0}
      /\ stopper.counter \in 0..Patience
      /\ \A i \in 1..n : losses[i] \in LossValues
  BY TrainingAssumption, LenProperties DEF TrainInv, TrainerTypeOK
<1>1. CASE at # "periodic"
  BY <1>1 DEF StopsEarly, GoesOnTooLong
<1>2. CASE Crash
  BY <1>2 DEF Crash, StopsEarly, GoesOnTooLong
<1>3. CASE UNCHANGED trainerVars
  BY <1>3 DEF trainerVars, StopsEarly, GoesOnTooLong
<1>4. CASE at = "periodic" /\ SavePeriodic
  <2>1. /\ Since = n - stopper.counter /\ Since \in 0..n
        /\ Since = 0 => Numbers(losses) = {}
        /\ Since > 0 =>
             /\ losses[Since] = stopper.best /\ stopper.best \in Int
             /\ \A i \in 1..n : losses[i] # NaN =>
                  /\ i < Since => stopper.best < losses[i]
                  /\ stopper.best - MinDelta <= losses[i]
    BY <1>4 DEF CountedRight, Since
  <2>2. m \in 0..n =>
          /\ Numbers(Before) = {losses[i] : i \in 1..m} \ {NaN}
          /\ Numbers(Patient) = {losses[i] : i \in (m + 1)..n} \ {NaN}
    BY <1>0, SplitLosses DEF Before, Patient
  <2>3. \A i \in 1..n : losses[i] # NaN => losses[i] \in Int
    BY <1>0 DEF LossValues
  <2> HIDE DEF m
  <2>4. ~StopsEarly
    <3> SUFFICES ASSUME StopsEarly PROVE FALSE
      OBVIOUS
    <3>1. at' = "off" /\ epoch + 1 # Epochs
      BY TrainBounds DEF StopsEarly, TrainInv, TrainerTypeOK, EpochNumbers
    <3>2. stopper.counter >= Patience
      BY <1>4, <3>1 DEF SavePeriodic, OutOfPatience
    <3>3. n >= Patience /\ m \in 0..n /\ Since <= m
      BY <1>0, <2>1, <3>2 DEF m
    <3>4. PICK v \in Numbers(Patient) : Improves(v, Least(Before), MinDelta)
      BY <1>0, <3>3 DEF StopsEarly
    <3>5. PICK j \in (m + 1)..n : v = losses[j] /\ v # NaN
      BY <2>2, <3>3
    <3>6. v \in Int /\ j \in 1..n /\ Since < j
      BY <1>0, <2>1, <2>3, <3>3, <3>5
    <3>7. CASE Since = 0
      <4>1. losses[j] \in Numbers(losses)
        BY <1>0, <3>5, <3>6, LenProperties DEF Numbers
      <4> QED BY <2>1, <3>7, <4>1
    <3>8. CASE Since > 0
      <4>1. stopper.best \in Numbers(Before) /\ stopper.best \in Int
        BY <1>0, <2>1, <2>2, <3>3, <3>8
      <4>2. Numbers(Before) \subseteq Int
        BY <1>0, <2>2, <2>3, <3>3
      <4>3. \A w \in Numbers(Before) : stopper.best - MinDelta <= w
        <5> SUFFICES ASSUME NEW w \in Numbers(Before) PROVE stopper.best - MinDelta <= w
          OBVIOUS
        <5>1. PICK i \in 1..m : w = losses[i] /\ w # NaN
          BY <2>2, <3>3
        <5>2. i \in 1..n
          BY <1>0, <3>3, <5>1
        <5> QED BY <2>1, <3>8, <5>1, <5>2
      <4>4. stopper.best - MinDelta \in Int
        BY <1>0, <4>1
      <4>5. Min(Numbers(Before)) \in Int /\ Min(Numbers(Before)) <= stopper.best
        BY <4>1, <4>2, <4>3, <4>4, MinOfBounded
      <4>6. Least(Before) = Min(Numbers(Before)) /\ Least(Before) # NoLoss
        BY <1>0, <4>1, <4>5 DEF Least
      <4>7. v < Min(Numbers(Before)) - MinDelta
        BY <3>4, <4>6 DEF Improves
      <4>8. stopper.best - MinDelta <= v
        BY <2>1, <3>5, <3>6, <3>8
      <4> QED BY <1>0, <3>6, <4>1, <4>5, <4>7, <4>8
    <3> QED BY <2>1, <3>7, <3>8
  <2>5. ~GoesOnTooLong
    <3> SUFFICES ASSUME GoesOnTooLong PROVE FALSE
      OBVIOUS
    <3>1. at' = "batch" /\ n >= Patience
      BY DEF GoesOnTooLong
    <3>2. stopper.counter < Patience
      BY <1>0, <1>4, <3>1 DEF SavePeriodic, OutOfPatience
    <3>3. m \in 0..n /\ m < Since /\ Since > 0
      BY <1>0, <2>1, <3>1, <3>2 DEF m
    <3>4. /\ stopper.best \in Int /\ stopper.best # NaN
          /\ stopper.best \in Numbers(Patient)
      BY <1>0, <2>1, <2>2, <3>3
    <3>5. ~Improves(stopper.best, Least(Before), 0)
      BY <3>4 DEF GoesOnTooLong
    <3>6. Least(Before) # NoLoss /\ ~(stopper.best < Least(Before) - 0)
      BY <3>4, <3>5 DEF Improves
    <3>7. Numbers(Before) # {} /\ Least(Before) = Min(Numbers(Before))
      BY <3>6 DEF Least
    <3>8. Numbers(Before) \subseteq Int
      BY <1>0, <2>2, <2>3, <3>3
    <3>9. \A w \in Numbers(Before) : stopper.best < w /\ stopper.best <= w
      <4> SUFFICES ASSUME NEW w \in Numbers(Before) PROVE stopper.best < w /\ stopper.best <= w
        OBVIOUS
      <4>1. PICK i \in 1..m : w = losses[i] /\ w # NaN
        BY <2>2, <3>3
      <4>2. i \in 1..n /\ i < Since
        BY <1>0, <2>1, <3>3, <4>1
      <4>3. stopper.best < w /\ w \in Int
        BY <2>1, <2>3, <3>3, <4>1, <4>2
      <4> QED BY <3>4, <4>3
    <3>10. Min(Numbers(Before)) \in Numbers(Before)
      BY <3>4, <3>7, <3>8, <3>9, MinOfBounded
    <3>11. stopper.best < Least(Before) /\ Least(Before) \in Int
      BY <3>7, <3>8, <3>9, <3>10
    <3> QED BY <3>4, <3>6, <3>11
  <2> QED BY <2>4, <2>5
<1>5. at = "periodic" => SavePeriodic \/ Crash \/ UNCHANGED trainerVars
  BY DEF TrainerNext, FitFresh, FitResumed, Fit, TrainBatch, EndEpoch, SaveBest
<1> QED BY <1>1, <1>2, <1>3, <1>4, <1>5

(* Early stopping is exact, for any losses, patience and MinDelta: a fit    *)
(* ends too early after no sequence of validations, and goes on too long    *)
(* after none.                                                              *)
THEOREM TrainerStopsInTime == TrainerSpec => PatienceIsExact
<1>1. TrainingStateInit => CountedRight
  BY DEF TrainingStateInit, CountedRight, Numbers
<1>2. TrainInv /\ CountedRight /\ [TrainerNext]_trainerVars =>
        [~StopsEarly /\ ~GoesOnTooLong]_trainerVars
  BY PatienceStep
<1> QED BY <1>1, <1>2, TrainInitInv, TrainStepInv, CountedStep, PTL DEF TrainerSpec, PatienceIsExact

-----------------------------------------------------------------------------
(* The periodic checkpoints: the epochs of this fit that were due, of which *)
(* kept lists the newest in their order; the files of the others are gone.  *)
First == IF at = "batch" THEN epoch - Len(losses) ELSE epoch + 1 - Len(losses)
Due == {e \in First..(IF at = "off" THEN epoch ELSE epoch - 1) : DueAt(e)}
Kept == {saver.kept[i] : i \in DOMAIN saver.kept}

KeptInOrder ==
  /\ saver.kept \in Seq(Int) /\ Len(saver.kept) <= MaxKeep
  /\ \A i, j \in DOMAIN saver.kept : i < j => saver.kept[i] < saver.kept[j]

Newest ==
  /\ Kept \subseteq Due
  /\ \A e \in Due \ Kept : Len(saver.kept) = MaxKeep /\ \A k \in Kept : e < k

OnDisk ==
  /\ \A e \in Due \ Kept : ~Loaded(periodic[e])
  /\ \A e \in Kept : Loaded(periodic[e]) /\ periodic[e].loss = losses[e - First + 1]

KeptInv ==
  at # "off" \/ losses # <<>> =>
    First \in Nat /\ KeptInOrder /\ Newest /\ OnDisk

(* A sequence in its order has each of its elements once. *)
LEMMA KeptIs ==
  ASSUME KeptInOrder
  PROVE  /\ Len(saver.kept) \in Nat /\ DOMAIN saver.kept = 1..Len(saver.kept)
         /\ \A i \in 1..Len(saver.kept) : saver.kept[i] \in Int /\ saver.kept[i] \in Kept
         /\ \A e \in Kept : \E i \in 1..Len(saver.kept) : e = saver.kept[i]
BY LenProperties DEF KeptInOrder, Kept

LEMMA DueIs ==
  ASSUME TrainInv, First \in Nat
  PROVE  /\ \A e \in Due : e \in EpochNumbers /\ e \in Int /\ First <= e
         /\ Len(losses) \in Nat /\ epoch \in Int
         /\ epoch = IF at = "batch" THEN First + Len(losses) ELSE First + Len(losses) - 1
<1>1. /\ epoch \in EpochNumbers /\ epoch \in Int /\ Len(losses) \in Nat
  BY TrainBounds, LenProperties DEF TrainInv, TrainerTypeOK, EpochNumbers
<1>2. epoch = IF at = "batch" THEN First + Len(losses) ELSE First + Len(losses) - 1
  BY <1>1 DEF First
<1>3. \A e \in Due : e \in EpochNumbers /\ e \in Int /\ First <= e
  BY <1>1, TrainBounds DEF Due, EpochNumbers
<1> QED BY <1>1, <1>2, <1>3

(* What neither saves nor ends an epoch changes nothing of it. *)
LEMMA KeptStays ==
  ASSUME TrainInv, KeptInv, at # "off" \/ losses # <<>>,
         First' = First, Due' = Due, saver'.kept = saver.kept, periodic' = periodic,
         \A e \in Due : losses'[e - First + 1] = losses[e - First + 1]
  PROVE  KeptInv'
<1>1. First \in Nat /\ KeptInOrder /\ Newest /\ OnDisk
  BY DEF KeptInv
<1>2. Kept' = Kept
  BY DEF Kept
<1>3. KeptInOrder'
  BY <1>1 DEF KeptInOrder
<1>4. Newest'
  BY <1>1, <1>2 DEF Newest
<1>5. OnDisk'
  <2>1. \A e \in Kept : e \in Due
    BY <1>1 DEF Newest
  <2> QED BY <1>1, <1>2, <2>1 DEF OnDisk
<1> QED BY <1>1, <1>3, <1>4, <1>5 DEF KeptInv

LEMMA EndEpochKept ==
  ASSUME TrainInv, KeptInv, NEW value \in Losses \cup {NaN}, EndEpoch(value)
  PROVE  KeptInv'
<1>1. /\ at = "batch" /\ at' = "best" /\ losses' = Append(losses, value) /\ epoch' = epoch
      /\ saver' = saver /\ periodic' = periodic
  BY DEF EndEpoch
<1>2. First \in Nat /\ losses \in Seq(LossValues) /\ value \in LossValues
  BY <1>1 DEF KeptInv, TrainInv, TrainerTypeOK, LossValues
<1>3. Len(losses) \in Nat /\ epoch \in Int /\ epoch = First + Len(losses)
  BY <1>1, <1>2, DueIs
<1>4. Len(losses') = Len(losses) + 1 /\ \A i \in 1..Len(losses) : losses'[i] = losses[i]
  BY <1>1, <1>2, AppendProperties
<1>5. First' = First
  BY <1>1, <1>3, <1>4 DEF First
<1>6. Due' = Due
  BY <1>1, <1>5 DEF Due
<1>7. \A e \in Due : e - First + 1 \in 1..Len(losses)
  BY <1>1, <1>2, <1>3 DEF Due
<1> QED BY <1>1, <1>4, <1>5, <1>6, <1>7, KeptStays

(* What is kept after one more epoch was saved. *)
LEMMA KeptAfter ==
  ASSUME KeptInOrder, NEW n \in Int, \A k \in Kept : k < n
  PROVE  LET all == Append(saver.kept, n)
             gone == Surplus(all)
             rest == SubSeq(all, gone + 1, Len(all))
         IN /\ Len(all) = Len(saver.kept) + 1 /\ all[Len(all)] = n
            /\ \A i \in 1..Len(saver.kept) : all[i] = saver.kept[i]
            /\ gone = IF Len(saver.kept) = MaxKeep THEN 1 ELSE 0
            /\ rest \in Seq(Int) /\ Len(rest) <= MaxKeep
            /\ Len(rest) = Len(saver.kept) + 1 - gone
            /\ \A i \in 1..Len(rest) : rest[i] = all[i + gone]
            /\ \A i, j \in 1..Len(rest) : i < j => rest[i] < rest[j]
<1> DEFINE size == Len(saver.kept)
           all == Append(saver.kept, n)
           gone == Surplus(all)
           rest == SubSeq(all, gone + 1, Len(all))
<1>0. size \in Nat /\ size <= MaxKeep /\ MaxKeep \in Nat \ {0} /\ saver.kept \in Seq(Int)
  BY KeptIs, TrainingAssumption DEF KeptInOrder
<1>1. /\ all \in Seq(Int) /\ Len(all) = size + 1 /\ all[size + 1] = n
      /\ \A i \in 1..size : all[i] = saver.kept[i]
  BY <1>0, AppendProperties
<1>2. gone = IF size = MaxKeep THEN 1 ELSE 0
  BY <1>0, <1>1 DEF Surplus
<1>3. \A i \in 1..(size + 1) : all[i] \in Int
  BY <1>0, <1>1, KeptIs
<1>4. \A i, j \in 1..(size + 1) : i < j => all[i] < all[j]
  <2> SUFFICES ASSUME NEW i \in 1..(size + 1), NEW j \in 1..(size + 1), i < j
               PROVE  all[i] < all[j]
    OBVIOUS
  <2> HIDE DEF all, size
  <2>0. i \in 1..size /\ (j = size + 1 \/ j \in 1..size)
    BY <1>0
  <2>1. all[i] = saver.kept[i] /\ saver.kept[i] \in Kept
    BY <1>0, <1>1, <2>0, KeptIs DEF size
  <2>2. CASE j = size + 1
    BY <1>1, <2>1, <2>2
  <2>3. CASE j \in 1..size
    <3>1. all[j] = saver.kept[j] /\ saver.kept[i] < saver.kept[j]
      BY <1>1, <2>0, <2>3, KeptIs DEF KeptInOrder, size
    <3> QED BY <2>1, <3>1
  <2> QED BY <2>0, <2>2, <2>3
<1> HIDE DEF all, gone, size
<1>5. /\ rest \in Seq(Int) /\ Len(rest) = size + 1 - gone
      /\ \A i \in 1..(size + 1 - gone) : rest[i] = all[gone + 1 + i - 1]
  <2>0. gone \in {0, 1} /\ gone <= size
    BY <1>0, <1>2
  <2>1. gone + 1 \in Int /\ Len(all) \in Int /\ gone + 1 <= Len(all)
    BY <1>0, <1>1, <2>0
  <2>2. \A i \in (gone + 1)..Len(all) : all[i] \in Int
    BY <1>0, <1>1, <1>3, <2>0
  <2>3. Len(all) - (gone + 1) + 1 = size + 1 - gone
    BY <1>0, <1>1, <2>0
  <2> QED BY <2>1, <2>2, <2>3, SubSeqProperties
<1> HIDE DEF rest
<1>6. \A i \in 1..Len(rest) : rest[i] = all[i + gone] /\ i + gone \in 1..(size + 1)
  BY <1>0, <1>2, <1>5
<1>7. \A i, j \in 1..Len(rest) : i < j => rest[i] < rest[j]
  <2> SUFFICES ASSUME NEW i \in 1..Len(rest), NEW j \in 1..Len(rest), i < j
               PROVE  rest[i] < rest[j]
    OBVIOUS
  <2>1. i + gone < j + gone
    BY <1>0, <1>2
  <2> QED BY <1>4, <1>6, <2>1
<1>8. Len(rest) = size + 1 - gone /\ Len(rest) <= MaxKeep
  <2>1. size + 1 - gone \in Nat
    BY <1>0, <1>2
  <2> QED BY <1>0, <1>2, <1>5, <2>1, LenProperties
<1>9. /\ Len(all) = size + 1 /\ all[Len(all)] = n
      /\ \A i \in 1..size : all[i] = saver.kept[i]
  BY <1>1
<1>10. \A i \in 1..Len(rest) : rest[i] = all[i + gone]
  BY <1>6
<1>11. rest \in Seq(Int)
  BY <1>5
<1> QED BY <1>2, <1>7, <1>8, <1>9, <1>10, <1>11 DEF all, gone, rest, size

(* As sets: the epoch comes in, and if there are too many the oldest goes. *)
LEMMA KeptAfterwards ==
  ASSUME KeptInOrder, NEW n \in Int, \A k \in Kept : k < n
  PROVE  LET all == Append(saver.kept, n)
             rest == SubSeq(all, Surplus(all) + 1, Len(all))
             gone == {all[i] : i \in 1..Surplus(all)}
         IN /\ gone \subseteq Kept
            /\ {rest[i] : i \in DOMAIN rest} = (Kept \cup {n}) \ gone
            /\ \A e \in gone : \A k \in (Kept \cup {n}) \ gone : e < k
            /\ rest \in Seq(Int) /\ Len(rest) <= MaxKeep
            /\ \A i, j \in DOMAIN rest : i < j => rest[i] < rest[j]
            /\ gone # {} => Len(rest) = MaxKeep
            /\ Len(saver.kept) = MaxKeep => Len(rest) = MaxKeep
<1> DEFINE size == Len(saver.kept)
           all == Append(saver.kept, n)
           s == Surplus(all)
           rest == SubSeq(all, s + 1, Len(all))
           gone == {all[i] : i \in 1..s}
<1>0. size \in Nat /\ size <= MaxKeep /\ MaxKeep \in Nat \ {0}
  BY KeptIs, TrainingAssumption DEF KeptInOrder
<1>1. /\ Len(all) = size + 1 /\ all[Len(all)] = n
      /\ \A i \in 1..size : all[i] = saver.kept[i]
      /\ s = IF size = MaxKeep THEN 1 ELSE 0
      /\ rest \in Seq(Int) /\ Len(rest) = size + 1 - s /\ Len(rest) <= MaxKeep
      /\ \A i \in 1..Len(rest) : rest[i] = all[i + s]
      /\ \A i, j \in 1..Len(rest) : i < j => rest[i] < rest[j]
  BY KeptAfter
<1>2. DOMAIN rest = 1..Len(rest)
  BY <1>1, LenProperties
<1>3. /\ \A i \in 1..size : all[i] \in Int /\ all[i] \in Kept
      /\ \A e \in Kept : \E i \in 1..size : e = all[i]
      /\ \A i, j \in 1..size : i < j => all[i] < all[j]
  BY <1>1, KeptIs DEF KeptInOrder
<1>4. Len(rest) = size + 1 - s /\ all[size + 1] = n
  BY <1>1
<1>5. gone = IF s = 1 THEN {all[1]} ELSE {}
  BY <1>0, <1>1
<1> HIDE DEF gone, rest, s, all, size
<1>6. gone \subseteq Kept
  BY <1>0, <1>1, <1>3, <1>5
<1>7. \A i \in 1..Len(rest) : rest[i] \in (Kept \cup {n}) \ gone
  <2> SUFFICES ASSUME NEW i \in 1..Len(rest) PROVE rest[i] \in (Kept \cup {n}) \ gone
    OBVIOUS
  <2>1. rest[i] = all[i + s] /\ i + s \in 1..(size + 1)
    BY <1>0, <1>1, <1>4
  <2>2. rest[i] \in Kept \cup {n}
    <3>1. CASE i + s = size + 1
      BY <1>4, <2>1, <3>1
    <3>2. CASE i + s \in 1..size
      BY <1>3, <2>1, <3>2
    <3> QED BY <1>0, <2>1, <3>1, <3>2
  <2>3. rest[i] \notin gone
    <3>1. CASE s = 1
      <4>1. i + s > 1 /\ 1 \in 1..size
        BY <1>0, <1>1, <3>1
      <4>2. CASE i + s = size + 1
        BY <1>3, <1>4, <1>5, <2>1, <3>1, <4>1, <4>2
      <4>3. CASE i + s \in 1..size
        BY <1>3, <1>5, <2>1, <3>1, <4>1, <4>3
      <4> QED BY <1>0, <2>1, <4>2, <4>3
    <3>2. CASE s # 1
      BY <1>5, <3>2
    <3> QED BY <3>1, <3>2
  <2> QED BY <2>2, <2>3
<1>8. \A e \in (Kept \cup {n}) \ gone : \E i \in 1..Len(rest) : e = rest[i]
  <2> SUFFICES ASSUME NEW e \in (Kept \cup {n}) \ gone PROVE \E i \in 1..Len(rest) : e = rest[i]
    OBVIOUS
  <2>1. PICK i \in 1..(size + 1) : e = all[i]
    BY <1>0, <1>3, <1>4
  <2>2. i > s
    BY <1>1, <1>5, <2>1
  <2>3. i - s \in 1..Len(rest) /\ (i - s) + s = i
    BY <1>0, <1>1, <1>4, <2>2
  <2> QED BY <1>1, <2>1, <2>3
<1>9. {rest[i] : i \in DOMAIN rest} = (Kept \cup {n}) \ gone
  BY <1>2, <1>7, <1>8
<1>10. \A e \in gone : \A k \in (Kept \cup {n}) \ gone : e < k
  <2> SUFFICES ASSUME NEW e \in gone, NEW k \in (Kept \cup {n}) \ gone PROVE e < k
    OBVIOUS
  <2>1. s = 1 /\ e = all[1] /\ 1 \in 1..size
    BY <1>0, <1>1, <1>5
  <2>2. CASE k \in Kept
    <3>1. PICK i \in 1..size : k = all[i]
      BY <1>3, <2>2
    <3>2. i # 1
      BY <1>5, <2>1, <3>1
    <3> QED BY <1>0, <1>3, <2>1, <3>1, <3>2
  <2>3. CASE k = n
    BY <1>3, <2>1, <2>3
  <2> QED BY <2>2, <2>3
<1>11. (gone # {} => Len(rest) = MaxKeep) /\ (size = MaxKeep => Len(rest) = MaxKeep)
  BY <1>0, <1>1, <1>4, <1>5
<1>12. \A i, j \in DOMAIN rest : i < j => rest[i] < rest[j]
  BY <1>1, <1>2
<1>13. rest \in Seq(Int) /\ Len(rest) <= MaxKeep
  BY <1>1
<1> QED BY <1>6, <1>9, <1>10, <1>11, <1>12, <1>13 DEF gone, rest, s, all, size

LEMMA SavePeriodicKept ==
  ASSUME TrainInv, KeptInv, SavePeriodic
  PROVE  KeptInv'
<1>1. at = "periodic" /\ losses' = losses /\ at' \in {"batch", "off"}
      /\ epoch' = IF at' = "batch" THEN epoch + 1 ELSE epoch
  BY DEF SavePeriodic
<1>2. /\ First \in Nat /\ KeptInOrder /\ Newest /\ OnDisk /\ losses # <<>>
      /\ DOMAIN saver = {"best", "kept"} /\ epoch \in EpochNumbers
      /\ losses \in Seq(LossValues)
  BY <1>1 DEF KeptInv, TrainInv, EndedInv, TrainerTypeOK
<1>3. /\ Len(losses) \in Nat \ {0} /\ epoch \in Int /\ epoch = First + Len(losses) - 1
      /\ \A e \in Due : e \in EpochNumbers /\ e \in Int /\ First <= e
  BY <1>1, <1>2, DueIs, LastLoss
<1>4. First' = First
  BY <1>1, <1>3 DEF First
<1>5. Due = {e \in First..(epoch - 1) : DueAt(e)} /\ Due' = {e \in First..epoch : DueAt(e)}
  BY <1>1, <1>3, <1>4 DEF Due
<1>6. \A e \in Due : e < epoch
  BY <1>2, <1>3, <1>5
<1>7. \A k \in Kept : k < epoch /\ k \in Due
  BY <1>2, <1>6 DEF Newest
<1>8. CASE ~DueAt(epoch)
  <2>1. saver'.kept = saver.kept /\ periodic' = periodic
    BY <1>8 DEF SavePeriodic
  <2>2. Due' = Due
    BY <1>2, <1>3, <1>5, <1>8
  <2> QED BY <1>1, <1>2, <1>4, <2>1, <2>2, KeptStays
<1>9. CASE DueAt(epoch)
  <2> DEFINE all == Append(saver.kept, epoch)
             rest == SubSeq(all, Surplus(all) + 1, Len(all))
             gone == {all[i] : i \in 1..Surplus(all)}
  <2>1. /\ gone \subseteq Kept
        /\ {rest[i] : i \in DOMAIN rest} = (Kept \cup {epoch}) \ gone
        /\ \A e \in gone : \A k \in (Kept \cup {epoch}) \ gone : e < k
        /\ rest \in Seq(Int) /\ Len(rest) <= MaxKeep
        /\ \A i, j \in DOMAIN rest : i < j => rest[i] < rest[j]
        /\ gone # {} => Len(rest) = MaxKeep
        /\ Len(saver.kept) = MaxKeep => Len(rest) = MaxKeep
    BY <1>2, <1>3, <1>7, KeptAfterwards
  <2>2. saver'.kept = rest
    BY <1>2, <1>9 DEF SavePeriodic
  <2>3. periodic' = [e \in EpochNumbers |->
                       IF e \in gone THEN NoFile
                       ELSE IF e = epoch THEN Checkpoint ELSE periodic[e]]
    BY <1>9 DEF SavePeriodic
  <2> HIDE DEF rest, gone, all
  <2>4. Kept' = (Kept \cup {epoch}) \ gone
    BY <2>1, <2>2 DEF Kept
  <2>5. Due' = Due \cup {epoch} /\ epoch \notin Due
    <3>1. First..epoch = First..(epoch - 1) \cup {epoch}
      BY <1>2, <1>3
    <3> QED BY <1>5, <1>6, <1>3, <1>9, <3>1
  <2>6. KeptInOrder'
    BY <2>1, <2>2 DEF KeptInOrder
  <2>7. \A e \in Due' \ Kept' : e \in EpochNumbers /\ e # epoch /\ (e \in Due \ Kept \/ e \in gone)
    BY <1>3, <1>7, <2>1, <2>4, <2>5
  <2>8. Newest'
    <3>1. Kept' \subseteq Due'
      BY <1>7, <2>4, <2>5
    <3>2. ASSUME NEW e \in Due' \ Kept'
          PROVE  Len(saver'.kept) = MaxKeep /\ \A k \in Kept' : e < k
      <4>1. CASE e \in Due \ Kept
        BY <1>2, <1>6, <2>1, <2>2, <2>4, <4>1 DEF Newest
      <4>2. CASE e \in gone
        BY <2>1, <2>2, <2>4, <4>2
      <4> QED BY <2>7, <4>1, <4>2
    <3> QED BY <3>1, <3>2 DEF Newest
  <2>9. OnDisk'
    <3>1. ASSUME NEW e \in Due' \ Kept' PROVE ~Loaded(periodic'[e])
      <4>1. CASE e \in gone
        BY <2>3, <2>7, <4>1 DEF Loaded
      <4>2. CASE e \in Due \ Kept /\ e \notin gone
        <5>1. ~Loaded(periodic[e])
          BY <1>2, <4>2 DEF OnDisk
        <5> QED BY <2>3, <2>7, <4>2, <5>1
      <4> QED BY <2>7, <4>1, <4>2
    <3>2. ASSUME NEW e \in Kept'
          PROVE  Loaded(periodic'[e]) /\ periodic'[e].loss = losses[e - First + 1]
      <4>1. CASE e = epoch
        <5>1. periodic'[e] = Checkpoint
          BY <1>2, <2>3, <2>4, <4>1
        <5>2. Loaded(Checkpoint)
          <6>1. FileInv(Checkpoint)
            BY <1>1, CheckpointInv
          <6>2. losses[Len(losses)] \in LossValues
            BY <1>2, LastLoss
          <6>3. Checkpoint \in [epoch : Nat, step : Nat,
                                weights : [epochs : SUBSET Nat, steps : Nat],
                                loss : Losses \cup {NaN}]
            BY <6>2, TrainBounds
            DEF Checkpoint, TrainInv, TrainerTypeOK, Weights, LossValues, EpochNumbers
          <6> QED BY <6>3, TrainingAssumption DEF Loaded
        <5>3. Checkpoint.loss = losses[Len(losses)] /\ e - First + 1 = Len(losses)
          BY <1>2, <1>3, <4>1 DEF Checkpoint
        <5> QED BY <5>1, <5>2, <5>3
      <4>2. CASE e \in Kept /\ e \notin gone /\ e # epoch
        <5>1. e \in EpochNumbers
          BY <1>3, <1>7, <4>2
        <5>2. periodic'[e] = periodic[e]
          BY <2>3, <4>2, <5>1
        <5> QED BY <1>2, <4>2, <5>2 DEF OnDisk
      <4> QED BY <2>4, <4>1, <4>2
    <3> QED BY <1>1, <1>4, <3>1, <3>2 DEF OnDisk
  <2> QED BY <1>2, <1>4, <2>6, <2>8, <2>9 DEF KeptInv
<1> QED BY <1>8, <1>9

LEMMA FitKept ==
  ASSUME NEW from, Fit(from), from.epoch \in EpochNumbers
  PROVE  KeptInv'
<1>1. /\ at' = "batch" /\ losses' = <<>> /\ saver' = [best |-> NoLoss, kept |-> <<>>]
      /\ epoch' = from.epoch /\ from.epoch \in Nat
  BY TrainBounds DEF Fit, EpochNumbers
<1>2. Len(losses') = 0 /\ saver'.kept = <<>> /\ saver'.kept \in Seq(Int)
      /\ Len(saver'.kept) = 0 /\ DOMAIN saver'.kept = {}
  BY <1>1, EmptySeq
<1>3. First' \in Nat /\ First' = epoch'
  BY <1>1, <1>2 DEF First
<1>4. Due' = {} /\ Kept' = {}
  BY <1>1, <1>2, <1>3 DEF Due, Kept
<1>5. KeptInOrder'
  BY <1>2, TrainingAssumption DEF KeptInOrder
<1> QED BY <1>3, <1>4, <1>5 DEF KeptInv, Newest, OnDisk

LEMMA KeptStep == TrainInv /\ KeptInv /\ [TrainerNext]_trainerVars => KeptInv'
<1> SUFFICES ASSUME TrainInv, KeptInv, [TrainerNext]_trainerVars PROVE KeptInv'
  OBVIOUS
<1>1. CASE FitFresh
  <2>1. Scratch.epoch \in EpochNumbers
    BY FirstEpoch DEF Scratch
  <2> QED BY <1>1, <2>1, FitKept DEF FitFresh
<1>2. CASE FitResumed
  <2>1. PICK file \in {best} \cup {periodic[e] : e \in EpochNumbers} :
          Loaded(file) /\ Fit(Restored(file))
    BY <1>2 DEF FitResumed
  <2>2. file.epoch \in EpochNumbers /\ Restored(file).epoch = file.epoch
    BY <2>1 DEF TrainInv, FilesInv, FileInv, IsFile, Restored
  <2> QED BY <2>1, <2>2, FitKept
<1>3. ASSUME NEW nan \in BOOLEAN, TrainBatch(nan) PROVE KeptInv'
  <2>1. UNCHANGED <<at, epoch, losses, saver, periodic>> /\ at = "batch"
    BY <1>3 DEF TrainBatch
  <2>2. First' = First /\ Due' = Due
    BY <2>1 DEF First, Due
  <2> QED BY <2>1, <2>2, KeptStays
<1>4. ASSUME NEW value \in Losses \cup {NaN}, EndEpoch(value) PROVE KeptInv'
  BY <1>4, EndEpochKept
<1>5. CASE SaveBest
  <2>1. /\ at = "best" /\ at' = "periodic" /\ UNCHANGED <<epoch, losses, periodic>>
        /\ saver'.kept = saver.kept
    BY <1>5 DEF SaveBest, TrainInv
  <2>2. First' = First
    BY <2>1 DEF First
  <2>3. Due' = Due
    BY <2>1, <2>2 DEF Due
  <2> QED BY <2>1, <2>2, <2>3, KeptStays
<1>6. CASE SavePeriodic
  BY <1>6, SavePeriodicKept
<1>7. CASE Crash
  BY <1>7 DEF Crash, KeptInv
<1>8. CASE UNCHANGED trainerVars
  <2>1. UNCHANGED <<at, epoch, losses, saver, periodic>>
    BY <1>8 DEF trainerVars
  <2>2. CASE at # "off" \/ losses # <<>>
    <3>1. First' = First /\ Due' = Due
      BY <2>1 DEF First, Due
    <3> QED BY <2>1, <2>2, <3>1, KeptStays
  <2>3. CASE ~(at # "off" \/ losses # <<>>)
    BY <2>1, <2>3 DEF KeptInv
  <2> QED BY <2>2, <2>3
<1> QED BY <1>1, <1>2, <1>3, <1>4, <1>5, <1>6, <1>7, <1>8 DEF TrainerNext

(* kept counts what it holds, as no epoch is in it twice. *)
LEMMA KeptCounted ==
  ASSUME KeptInOrder
  PROVE  IsFiniteSet(Kept) /\ Cardinality(Kept) = Len(saver.kept) /\ Len(saver.kept) \in Nat
<1> DEFINE s == saver.kept
           n == Len(s)
<1>1. n \in Nat /\ DOMAIN s = 1..n /\ s = [i \in 1..n |-> s[i]]
  BY KeptIs, LenProperties DEF KeptInOrder
<1>2. s \in [1..n -> Kept]
  BY <1>1 DEF Kept
<1>3. ASSUME NEW i \in 1..n, NEW j \in 1..n, i # j PROVE s[i] # s[j]
  <2>1. i < j \/ j < i
    BY <1>1, <1>3
  <2>2. s[i] \in Int /\ s[j] \in Int /\ (s[i] < s[j] \/ s[j] < s[i])
    BY <1>1, <1>3, <2>1, KeptIs DEF KeptInOrder
  <2> QED BY <2>2
<1>4. \A e \in Kept : \E i \in 1..n : s[i] = e
  BY KeptIs
<1>5. s \in Bijection(1..n, Kept)
  BY <1>1, <1>2, <1>3, <1>4 DEF Bijection, Injection, IsInjective, Surjection
<1>6. ExistsBijection(1..n, Kept)
  BY <1>5 DEF ExistsBijection
<1> QED BY <1>1, <1>6, FS_CountingElements, FS_NatBijection

LEMMA KeptGivesNewest == TrainInv /\ KeptInv => KeepsNewest
<1> SUFFICES ASSUME TrainInv, KeptInv, losses # <<>> PROVE KeepsNewest
  BY DEF KeepsNewest
<1>1. First \in Nat /\ KeptInOrder /\ Newest /\ OnDisk
  BY DEF KeptInv
<1>2. /\ Len(losses) \in Nat /\ epoch \in Int /\ at \in {"batch", "best", "periodic", "off"}
      /\ \A e \in Due : e \in Int /\ e \in EpochNumbers
  BY <1>1, DueIs DEF TrainInv, TrainerTypeOK
<1>3. /\ Len(saver.kept) \in Nat /\ Len(saver.kept) <= MaxKeep /\ MaxKeep \in Nat
      /\ IsFiniteSet(Kept) /\ Cardinality(Kept) = Len(saver.kept)
  BY <1>1, KeptCounted, TrainingAssumption DEF KeptInOrder
<1>4. IsFiniteSet(Due)
  <2>1. IsFiniteSet(EpochNumbers)
    BY TrainBounds, FS_Interval, 0 \in Int, Epochs - 1 \in Int DEF EpochNumbers
  <2>2. Due \subseteq EpochNumbers
    BY <1>2
  <2> QED BY <2>1, <2>2, FS_Subset
<1>5. ASSUME NEW e \in Due
      PROVE  (Loaded(periodic[e]) /\ periodic[e].loss = losses[e - First + 1])
               <=> Cardinality({f \in Due : f > e}) < MaxKeep
  <2> DEFINE later == {f \in Due : f > e}
  <2>1. IsFiniteSet(later) /\ Cardinality(later) \in Nat
    BY <1>4, FS_Subset, FS_CardinalityType
  <2>2. CASE e \in Kept
    <3>1. later \subseteq Kept \ {e}
      BY <1>1, <1>2, <2>2 DEF Newest
    <3>2. IsFiniteSet(Kept \ {e}) /\ Cardinality(Kept \ {e}) = Len(saver.kept) - 1
      BY <1>3, <2>2, FS_RemoveElement
    <3>3. Cardinality(later) <= Len(saver.kept) - 1
      BY <3>1, <3>2, FS_Subset
    <3>4. Loaded(periodic[e]) /\ periodic[e].loss = losses[e - First + 1]
      BY <1>1, <2>2 DEF OnDisk
    <3>5. Cardinality(later) < MaxKeep
      BY <1>3, <2>1, <3>3
    <3> QED BY <3>4, <3>5
  <2>3. CASE e \notin Kept
    <3>1. /\ ~Loaded(periodic[e]) /\ Len(saver.kept) = MaxKeep
          /\ Kept \subseteq Due /\ \A k \in Kept : e < k
      BY <1>1, <2>3 DEF OnDisk, Newest
    <3>2. Kept \subseteq later
      BY <1>2, <3>1
    <3>3. MaxKeep <= Cardinality(later)
      BY <1>3, <2>1, <3>1, <3>2, FS_Subset
    <3>4. ~(Cardinality(later) < MaxKeep)
      BY <1>3, <2>1, <3>3
    <3> QED BY <3>1, <3>4
  <2> QED BY <2>2, <2>3
<1>6. LET next == IF at = "off" THEN epoch + 1 ELSE epoch
          first == IF at \in {"best", "periodic"} THEN next + 1 - Len(losses)
                   ELSE next - Len(losses)
      IN first = First /\ {e \in first..(next - 1) : DueAt(e)} = Due
  BY <1>2 DEF First, Due
<1> QED BY <1>5, <1>6 DEF KeepsNewest

(* Of the epochs a fit was to save, exactly the newest MaxKeep are on disk  *)
(* and whole, with the loss of their epoch, for any number of epochs, any   *)
(* period and any MaxKeep, and whatever files earlier fits and crashes      *)
(* left under the same names.                                               *)
THEOREM TrainerKeepsNewest == TrainerSpec => []KeepsNewest
<1>1. TrainingStateInit => KeptInv
  BY DEF TrainingStateInit, KeptInv
<1> QED BY <1>1, TrainInitInv, TrainStepInv, KeptStep, KeptGivesNewest, PTL DEF TrainerSpec

-----------------------------------------------------------------------------
(* Online learning: the learner and its stack of checkpoints.               *)
Models == [update : 0..MaxUpdates, whole : BOOLEAN, loss : Values]
Measured == Values \cup {Unmeasured}
Entries == [model : Models, rate : {"own", "halved"}, current : Measured]

StackInv == stack \in Seq(Entries) /\ Len(stack) <= StackSize

LEMMA Bounds ==
  /\ Interval \in Nat \ {0} /\ Degraded \in Nat \ {0}
  /\ StackSize \in Nat \ {0} /\ MaxUpdates \in Nat \ {0}
  /\ Threshold \in Nat /\ ModelLosses \subseteq Int /\ NotANumber \notin Int
BY LearningAssumption

LEMMA TypeParts ==
  LearnerTypeOK <=>
    /\ config \in [trigger : Triggers, ab : BOOLEAN, ensemble : BOOLEAN]
    /\ model \in Models /\ rate \in {"own", "halved"} /\ current \in Measured
    /\ sinceUpdate \in 0..Interval /\ sinceBetter \in 0..Degraded
    /\ StackInv
    /\ replay \in {"few", "some", "many"}
    /\ history \in [last : {"none", "kept", "rolled back", "failed"}, length : 0..MaxUpdates]
BY DEF LearnerTypeOK, Models, Measured, Entries, StackInv

LEMMA Counters ==
  ASSUME LearnerTypeOK
  PROVE  /\ history.length \in 0..MaxUpdates /\ history.length \in Nat
         /\ sinceBetter \in 0..Degraded /\ sinceBetter \in Nat
         /\ sinceUpdate \in 0..Interval /\ sinceUpdate \in Nat
         /\ MaxUpdates \in Nat /\ Degraded \in Nat /\ Interval \in Nat
<1>1. /\ history.length \in 0..MaxUpdates
      /\ sinceBetter \in 0..Degraded
      /\ sinceUpdate \in 0..Interval
  BY DEF LearnerTypeOK
<1> QED BY <1>1, Bounds

LEMMA UpToBound ==
  ASSUME NEW n \in Nat, NEW bound \in Nat
  PROVE  UpTo(n, bound) \in 0..bound
BY DEF UpTo

(* The checkpoint pushed last is the one on top, however many had to go,    *)
(* and below it are checkpoints that were there.                            *)
LEMMA PushedOnTop ==
  ASSUME NEW S, stack \in Seq(S), Len(stack) <= StackSize, NEW entry \in S
  PROVE  /\ Pushed(entry) \in Seq(S)
         /\ Len(Pushed(entry)) \in 1..StackSize
         /\ Pushed(entry)[Len(Pushed(entry))] = entry
         /\ \A i \in 1..Len(Pushed(entry)) - 1 :
              \E j \in 1..Len(stack) : Pushed(entry)[i] = stack[j]
<1> DEFINE longer == Append(stack, entry)
<1>0. Len(stack) \in Nat
  BY LenProperties
<1>1. /\ longer \in Seq(S) /\ longer # <<>> /\ Len(longer) = Len(stack) + 1
      /\ \A i \in 1..Len(stack) : longer[i] = stack[i]
      /\ longer[Len(stack) + 1] = entry
  BY AppendProperties
<1>2. Pushed(entry) = IF Len(longer) > StackSize THEN Tail(longer) ELSE longer
  BY DEF Pushed
<1>3. /\ Tail(longer) \in Seq(S) /\ Len(Tail(longer)) = Len(longer) - 1
      /\ \A i \in 1..Len(Tail(longer)) : Tail(longer)[i] = longer[i + 1]
  BY <1>1, HeadTailProperties
<1> HIDE DEF longer
<1>4. CASE Len(longer) > StackSize
  <2>1. Pushed(entry) = Tail(longer)
    BY <1>2, <1>4
  <2>2. Len(Tail(longer)) = Len(stack) /\ Len(stack) = StackSize
    BY <1>0, <1>1, <1>3, <1>4, Bounds
  <2>3. Tail(longer)[Len(stack)] = entry
    BY <1>1, <1>3, <2>2, Bounds
  <2>4. \A i \in 1..Len(stack) - 1 : Tail(longer)[i] = stack[i + 1] /\ i + 1 \in 1..Len(stack)
    BY <1>0, <1>1, <1>3, <2>2
  <2> QED BY <1>3, <2>1, <2>2, <2>3, <2>4, Bounds
<1>5. CASE ~(Len(longer) > StackSize)
  <2>1. Pushed(entry) = longer
    BY <1>2, <1>5
  <2> QED BY <1>0, <1>1, <1>5, <2>1, Bounds
<1> QED BY <1>4, <1>5

(* Without the checkpoint on top. *)
LEMMA Popped ==
  ASSUME NEW S, NEW s \in Seq(S), NEW n \in Nat, n <= Len(s)
  PROVE  LET t == SubSeq(s, 1, n)
         IN t \in Seq(S) /\ Len(t) = n /\ \A i \in 1..n : t[i] = s[i]
<1>1. 1 \in Int /\ n \in Int /\ \A i \in 1..n : s[i] \in S
  BY LenProperties
<1>2. /\ SubSeq(s, 1, n) \in Seq(S)
      /\ Len(SubSeq(s, 1, n)) = IF 1 <= n THEN n - 1 + 1 ELSE 0
      /\ \A i \in 1..n - 1 + 1 : SubSeq(s, 1, n)[i] = s[1 + i - 1]
  BY <1>1, SubSeqProperties
<1>3. \A i \in 1..n : SubSeq(s, 1, n)[i] = s[i]
  BY <1>2
<1> QED BY <1>2, <1>3

LEMMA SavedType == LearnerTypeOK => Saved \in Entries
BY TypeParts DEF Saved, Entries

LEMMA SavedOnTop ==
  ASSUME LearnerTypeOK
  PROVE  /\ Pushed(Saved) \in Seq(Entries)
         /\ Len(Pushed(Saved)) \in 1..StackSize
         /\ Pushed(Saved)[Len(Pushed(Saved))] = Saved
         /\ \A i \in 1..Len(Pushed(Saved)) - 1 :
              \E j \in 1..Len(stack) : Pushed(Saved)[i] = stack[j]
<1>1. stack \in Seq(Entries) /\ Len(stack) <= StackSize /\ Saved \in Entries
  BY SavedType, TypeParts DEF StackInv
<1> QED BY <1>1, PushedOnTop, Zenon

(* A rollback restores what was saved just before the update. *)
LEMMA RollbackRestores ==
  ASSUME LearnerTypeOK, NEW new, UpdateRolledBack(new)
  PROVE  UNCHANGED <<model, rate, current>>
<1>1. RolledBackTo(new, Pushed(Saved)) = Saved
  BY SavedOnTop DEF RolledBackTo
<1> QED BY <1>1 DEF UpdateRolledBack, Saved

-----------------------------------------------------------------------------
(* The updates keep every part in range. *)
LEMMA ModelKinds ==
  ASSUME LearnerTypeOK, history.length < MaxUpdates, NEW whole \in BOOLEAN, NEW value \in Values
  PROVE  [update |-> history.length + 1, whole |-> whole, loss |-> value] \in Models
<1>1. history.length + 1 \in 0..MaxUpdates
  BY Counters
<1> QED BY <1>1 DEF Models

LEMMA UpdatedType ==
  ASSUME LearnerTypeOK, history.length < MaxUpdates, NEW new \in Updated
  PROVE  new \in Models
<1>1. new = model \/ \E value \in Values :
        new = [update |-> history.length + 1, whole |-> TRUE, loss |-> value]
  BY DEF Updated, Values
<1> QED BY <1>1, ModelKinds, TypeParts

LEMMA UpdateType ==
  ASSUME LearnerTypeOK, UNCHANGED config, replay' \in {"few", "some", "many"},
         Updating(TRUE), sinceUpdate' \in 0..Interval
  PROVE  LearnerTypeOK'
<1>0. PerformUpdate /\ history.length < MaxUpdates
  BY DEF Updating, PerformUpdate
<1>00. history.length + 1 \in 0..MaxUpdates
  <2>1. history.length < MaxUpdates
    BY <1>0
  <2> QED BY <2>1, Counters
<1>1. \A better \in BOOLEAN : WithoutImprovement(better) \in 0..Degraded
  <2>1. sinceBetter + 1 \in Nat /\ 0 \in 0..Degraded /\ Degraded \in Nat
    BY Counters
  <2> QED BY <2>1, UpToBound DEF WithoutImprovement
<1>2. ASSUME NEW last \in {"kept", "rolled back", "failed"}
      PROVE  [last |-> last, length |-> history.length + 1]
               \in [last : {"none", "kept", "rolled back", "failed"}, length : 0..MaxUpdates]
  BY <1>00
<1>3. CASE UpdateFailed /\ sinceBetter' = WithoutImprovement(FALSE)
           /\ history' = [last |-> "failed", length |-> history.length + 1]
  <2>1. model' \in Models
    <3>1. model' = model \/ \E value \in Values :
            model' = [update |-> history.length + 1, whole |-> FALSE, loss |-> value]
      BY <1>3 DEF UpdateFailed
    <3> QED BY <3>1, <1>0, ModelKinds, TypeParts
  <2>2. rate' \in {"own", "halved"} /\ current' \in Measured
    BY <1>3, TypeParts DEF UpdateFailed, Models, Measured
  <2>3. StackInv'
    BY <1>3, SavedOnTop, Bounds DEF UpdateFailed, StackInv, Entries, Models, Measured, Values
  <2> QED BY <1>1, <1>2, <1>3, <2>1, <2>2, <2>3, TypeParts
          DEF LearnerTypeOK, Models, Measured, Entries, StackInv, Values
<1>4. ASSUME NEW new \in Updated, UpdateKept(new),
             sinceBetter' = WithoutImprovement(Better(new.loss, model.loss)),
             history' = [last |-> "kept", length |-> history.length + 1]
      PROVE  LearnerTypeOK'
  <2>1. new \in Models
    BY <1>0, UpdatedType
  <2>2. model' \in Models /\ rate' \in {"own", "halved"} /\ current' \in Measured
    BY <1>4, <2>1, TypeParts DEF UpdateKept, Models, Measured
  <2>3. StackInv'
    BY <1>4, SavedOnTop, Bounds DEF UpdateKept, StackInv, Entries, Models, Measured, Values
  <2>4. sinceBetter' \in 0..Degraded
    BY <1>1, <1>4 DEF Better
  <2> QED BY <1>2, <1>4, <2>2, <2>3, <2>4, TypeParts
          DEF LearnerTypeOK, Models, Measured, Entries, StackInv, Values
<1>5. ASSUME NEW new \in Updated, UpdateRolledBack(new),
             sinceBetter' = WithoutImprovement(Better(new.loss, model.loss)),
             history' = [last |-> "rolled back", length |-> history.length + 1]
      PROVE  LearnerTypeOK'
  <2>1. UNCHANGED <<model, rate, current>>
    BY <1>5, RollbackRestores
  <2>2. StackInv'
    <3> DEFINE n == Len(Pushed(Saved)) - 1
    <3>0. n \in Nat /\ n <= Len(Pushed(Saved)) /\ n <= StackSize /\ Pushed(Saved) \in Seq(Entries)
      BY SavedOnTop, Bounds
    <3>1. stack' = SubSeq(Pushed(Saved), 1, n)
      BY <1>5 DEF UpdateRolledBack
    <3> HIDE DEF n
    <3>2. stack' \in Seq(Entries) /\ Len(stack') = n
      BY <3>0, <3>1, Popped
    <3> QED BY <3>0, <3>2 DEF StackInv, Entries, Models, Measured, Values
  <2>4. sinceBetter' \in 0..Degraded
    BY <1>1, <1>5 DEF Better
  <2> QED BY <1>2, <1>5, <2>1, <2>2, <2>4, TypeParts
          DEF LearnerTypeOK, Models, Measured, Entries, StackInv, Values
<1> QED BY <1>0, <1>3, <1>4, <1>5 DEF PerformUpdate

(* A step either updates the model or counts the samples. *)
LEMMA StepKinds ==
  ASSUME LearnerTypeOK, LearnerNext
  PROVE  /\ UNCHANGED config /\ replay' \in {"few", "some", "many"}
         /\ \/ PerformUpdate /\ sinceUpdate' = 0
            \/ /\ UNCHANGED <<model, rate, current, sinceBetter, stack, history>>
               /\ sinceUpdate' \in 0..Interval
<1>1. Grown \subseteq {"few", "some", "many"} /\ replay \in {"few", "some", "many"}
  BY DEF Grown, LearnerTypeOK
<1>2. ASSUME NEW n \in 1..Interval PROVE UpTo(sinceUpdate + n, Interval) \in 0..Interval
  <2>1. sinceUpdate + n \in Nat /\ Interval \in Nat
    BY Counters
  <2> QED BY <2>1, UpToBound
<1>3. 1 \in 1..Interval
  BY Bounds
<1>4. ASSUME NEW due \in BOOLEAN, NEW n \in 1..Interval, Updating(due),
             history' = history => sinceUpdate' = UpTo(sinceUpdate + n, Interval)
      PROVE  \/ PerformUpdate /\ sinceUpdate' = 0
             \/ /\ UNCHANGED <<model, rate, current, sinceBetter, stack, history>>
                /\ sinceUpdate' \in 0..Interval
  <2>1. CASE due
    BY <1>4, <2>1 DEF Updating, PerformUpdate
  <2>2. CASE ~due
    BY <1>2, <1>4, <2>2 DEF Updating
  <2> QED BY <2>1, <2>2
<1>5. ASSUME NEW valid \in BOOLEAN, NEW drift \in BOOLEAN, NEW loader \in BOOLEAN,
             ProcessSample(valid, drift, loader)
      PROVE  /\ UNCHANGED config /\ replay' \in {"few", "some", "many"}
             /\ \E due \in BOOLEAN :
                  /\ Updating(due)
                  /\ history' = history => sinceUpdate' = UpTo(sinceUpdate + 1, Interval)
  <2>1. config' = config /\ replay' \in Grown \cup {replay}
    BY <1>5 DEF ProcessSample
  <2>2. history' = history => sinceUpdate' = UpTo(sinceUpdate + 1, Interval)
    BY <1>5 DEF ProcessSample
  <2>3. Updating(TRUE) \/ Updating(FALSE)
    BY <1>5 DEF ProcessSample, Updating
  <2> QED BY <1>1, <2>1, <2>2, <2>3
<1>6. ASSUME NEW n \in 1..Interval, NEW drift \in BOOLEAN, NEW loader \in BOOLEAN,
             ProcessBatch(n, drift, loader)
      PROVE  /\ UNCHANGED config /\ replay' \in {"few", "some", "many"}
             /\ \E due \in BOOLEAN :
                  /\ Updating(due)
                  /\ history' = history => sinceUpdate' = UpTo(sinceUpdate + n, Interval)
  <2>1. config' = config /\ replay' \in Grown
    BY <1>6 DEF ProcessBatch
  <2>2. history' = history => sinceUpdate' = UpTo(sinceUpdate + n, Interval)
    BY <1>6 DEF ProcessBatch
  <2>3. Updating(TRUE) \/ Updating(FALSE)
    BY <1>6 DEF ProcessBatch, Updating
  <2> QED BY <1>1, <2>1, <2>2, <2>3
<1>7. UNCHANGED config /\ replay' \in {"few", "some", "many"}
  BY <1>5, <1>6 DEF LearnerNext
<1>8. \E due \in BOOLEAN, n \in 1..Interval :
        /\ Updating(due)
        /\ history' = history => sinceUpdate' = UpTo(sinceUpdate + n, Interval)
  BY <1>3, <1>5, <1>6 DEF LearnerNext
<1>9. \/ PerformUpdate /\ sinceUpdate' = 0
      \/ /\ UNCHANGED <<model, rate, current, sinceBetter, stack, history>>
         /\ sinceUpdate' \in 0..Interval
  <2>1. PICK due \in BOOLEAN, n \in 1..Interval :
          /\ Updating(due)
          /\ history' = history => sinceUpdate' = UpTo(sinceUpdate + n, Interval)
    BY <1>8
  <2> QED BY <1>4, <2>1
<1> QED BY <1>7, <1>9

LEMMA LearnerTypeStep == LearnerTypeOK /\ [LearnerNext]_learnerVars => LearnerTypeOK'
<1> SUFFICES ASSUME LearnerTypeOK, [LearnerNext]_learnerVars PROVE LearnerTypeOK'
    OBVIOUS
<1>1. CASE LearnerNext /\ PerformUpdate /\ sinceUpdate' = 0
  <2>1. Updating(TRUE) /\ sinceUpdate' \in 0..Interval
    BY <1>1, Counters DEF Updating
  <2> QED BY <1>1, <2>1, StepKinds, UpdateType
<1>2. CASE /\ LearnerNext
           /\ UNCHANGED <<model, rate, current, sinceBetter, stack, history>>
           /\ sinceUpdate' \in 0..Interval
  BY <1>2, StepKinds DEF LearnerTypeOK
<1>3. CASE UNCHANGED learnerVars
  BY <1>3 DEF learnerVars, LearnerTypeOK
<1> QED BY <1>1, <1>2, <1>3, StepKinds

LEMMA LearnerTypeInit == LearnerInit => LearnerTypeOK
<1> SUFFICES ASSUME LearnerInit PROVE LearnerTypeOK
    OBVIOUS
<1>1. 0 \in 0..MaxUpdates /\ 0 \in 0..Interval /\ 0 \in 0..Degraded /\ 0 <= StackSize
  BY Bounds
<1>2. stack \in Seq(Entries) /\ Len(stack) = 0
  BY EmptySeq DEF LearnerInit
<1>3. model \in Models /\ current \in Measured
  BY <1>1 DEF LearnerInit, Models, Measured, Values
<1> QED BY <1>1, <1>2, <1>3, TypeParts DEF LearnerInit, StackInv

(* The learner's state is always in range, and never more checkpoints are   *)
(* kept than may be.                                                        *)
THEOREM LearnerTypeCorrect == LearnerSpec => []LearnerTypeOK
BY LearnerTypeInit, LearnerTypeStep, PTL DEF LearnerSpec

(* An update that is rolled back leaves model, learning rate and measured   *)
(* loss as they were before it, however many kept and failed updates have   *)
(* left their checkpoints on the stack.                                     *)
THEOREM LearnerRollsBackWhole == LearnerSpec => RolledBackIsRestored
<1>1. LearnerTypeOK /\ [LearnerNext]_learnerVars
        => [history' # history /\ history'.last = "rolled back"
              => UNCHANGED <<model, rate, current>>]_learnerVars
  <2> SUFFICES ASSUME LearnerTypeOK, LearnerNext, history' # history,
                      history'.last = "rolled back"
               PROVE  UNCHANGED <<model, rate, current>>
      BY DEF learnerVars
  <2>1. PerformUpdate
    BY StepKinds
  <2>2. ASSUME NEW last, history' = [last |-> last, length |-> history.length + 1]
        PROVE  last = "rolled back"
    BY <2>2
  <2>3. PICK new : UpdateRolledBack(new)
    BY <2>1, <2>2 DEF PerformUpdate
  <2> QED BY <2>3, RollbackRestores
<1> QED BY <1>1, LearnerTypeCorrect, PTL DEF LearnerSpec, RolledBackIsRestored

-----------------------------------------------------------------------------
(* The losses of checkpoints and of the model in use. *)
AgreeNow == model.whole => current \in {Unmeasured, model.loss}

LEMMA SavedAgrees == Agree(Saved) <=> AgreeNow
BY DEF Agree, Saved, AgreeNow

LEMMA SeqDomain == ASSUME NEW S, NEW s \in Seq(S) PROVE DOMAIN s = 1..Len(s)
BY LenProperties

(* What is on the stack with the latest checkpoint agrees. *)
LEMMA PushedAgrees ==
  ASSUME LearnerTypeOK, CurrentIsTheModels, NEW i \in 1..Len(Pushed(Saved))
  PROVE  Agree(Pushed(Saved)[i])
<1>1. Agree(Saved) /\ \A j \in 1..Len(stack) : Agree(stack[j])
  <2>1. stack \in Seq(Entries)
    BY TypeParts DEF StackInv
  <2>2. DOMAIN stack = 1..Len(stack)
    BY <2>1, SeqDomain
  <2> QED BY <2>2 DEF CurrentIsTheModels
<1>2. CASE i = Len(Pushed(Saved))
  BY <1>1, <1>2, SavedOnTop
<1>3. CASE i # Len(Pushed(Saved))
  <2>1. i \in 1..Len(Pushed(Saved)) - 1
    BY <1>3, SavedOnTop
  <2>2. PICK j \in 1..Len(stack) : Pushed(Saved)[i] = stack[j]
    BY <2>1, SavedOnTop
  <2> QED BY <1>1, <2>2
<1> QED BY <1>2, <1>3

LEMMA AgreeStep ==
  LearnerTypeOK /\ CurrentIsTheModels /\ [LearnerNext]_learnerVars => CurrentIsTheModels'
<1> SUFFICES ASSUME LearnerTypeOK, CurrentIsTheModels, [LearnerNext]_learnerVars
             PROVE  CurrentIsTheModels'
    OBVIOUS
<1>0. LearnerTypeOK' /\ AgreeNow
  BY LearnerTypeStep, SavedAgrees DEF CurrentIsTheModels
<1>a. ASSUME AgreeNow', NEW n \in Nat, n <= Len(Pushed(Saved)),
             Len(stack') = n, \A i \in 1..n : stack'[i] = Pushed(Saved)[i]
      PROVE  CurrentIsTheModels'
  <2>1. (Agree(Saved))'
    BY <1>a, SavedAgrees DEF Agree, Saved, AgreeNow
  <2>2. DOMAIN stack' = 1..n
    <3>1. stack' \in Seq(Entries)
      BY <1>0 DEF LearnerTypeOK, Entries, Models, Measured
    <3>2. DOMAIN stack' = 1..Len(stack')
      BY <3>1, SeqDomain
    <3> QED BY <1>a, <3>2
  <2>3. \A i \in 1..n : i \in 1..Len(Pushed(Saved))
    BY <1>a, SavedOnTop
  <2>4. \A i \in 1..n : Agree(stack'[i])
    BY <1>a, <2>3, PushedAgrees
  <2>5. \A i \in 1..n : (stack'[i].model.whole => stack'[i].current \in {Unmeasured, stack'[i].model.loss})
    BY <2>4 DEF Agree
  <2> QED BY <2>1, <2>2, <2>5 DEF CurrentIsTheModels, Agree
<1>b. Len(Pushed(Saved)) \in Nat /\ Len(Pushed(Saved)) - 1 \in Nat
  BY SavedOnTop, Bounds
<1>1. CASE LearnerNext /\ UpdateFailed
  <2>1. AgreeNow'
    BY <1>1 DEF UpdateFailed, AgreeNow
  <2> QED BY <1>a, <1>b, <1>1, <2>1 DEF UpdateFailed
<1>2. ASSUME LearnerNext, NEW new, UpdateKept(new) PROVE CurrentIsTheModels'
  <2>1. AgreeNow'
    BY <1>2 DEF UpdateKept, AgreeNow
  <2> QED BY <1>a, <1>b, <1>2, <2>1 DEF UpdateKept
<1>3. ASSUME LearnerNext, NEW new, UpdateRolledBack(new) PROVE CurrentIsTheModels'
  <2>1. AgreeNow'
    BY <1>0, <1>3, RollbackRestores DEF AgreeNow
  <2> DEFINE n == Len(Pushed(Saved)) - 1
  <2>2. n \in Nat /\ n <= Len(Pushed(Saved)) /\ Pushed(Saved) \in Seq(Entries)
    BY <1>b, SavedOnTop
  <2>3. stack' = SubSeq(Pushed(Saved), 1, n)
    BY <1>3 DEF UpdateRolledBack
  <2> HIDE DEF n
  <2>4. Len(stack') = n /\ \A i \in 1..n : stack'[i] = Pushed(Saved)[i]
    BY <2>2, <2>3, Popped
  <2> QED BY <1>a, <2>1, <2>2, <2>4
<1>4. CASE UNCHANGED <<model, rate, current, stack>>
  BY <1>4 DEF CurrentIsTheModels, Agree, Saved
<1> QED BY <1>1, <1>2, <1>3, <1>4, StepKinds DEF PerformUpdate, learnerVars

(* The loss that samples are compared with is the one of the model in use,  *)
(* if that was measured at all and no update of it broke off, and so it is  *)
(* in every checkpoint.                                                     *)
THEOREM LearnerComparesOwnLoss == LearnerSpec => []CurrentIsTheModels
<1>1. LearnerInit => CurrentIsTheModels
  BY DEF LearnerInit, CurrentIsTheModels, Agree, Saved
<1> QED BY <1>1, LearnerTypeInit, LearnerTypeStep, AgreeStep, PTL DEF LearnerSpec

=============================================================================
