------------------------------ MODULE MCLearning ------------------------------
(* How models come about, for TLC: training by epochs with its checkpoints *)
(* and online updates with theirs.  They share no state, so each behaviour *)
(* is about the one that part names, and the other keeps its initial       *)
(* state.                                                                  *)
EXTENDS ModelTraining, OnlineLearning

VARIABLE part

learningVars == <<part, trainerVars, learnerVars>>

LearningInit ==
  /\ part \in {"offline", "online"}
  /\ TrainingStateInit
  /\ LearnerInit
  /\ part = "offline" => /\ config = [trigger |-> "hybrid", ab |-> FALSE, ensemble |-> FALSE]
                         /\ model.loss = 0

LearningNext ==
  /\ \/ part = "offline" /\ TrainerNext /\ UNCHANGED learnerVars
     \/ part = "online" /\ LearnerNext /\ UNCHANGED trainerVars
  /\ UNCHANGED part

LearningSpec == LearningInit /\ [][LearningNext]_learningVars

=============================================================================
