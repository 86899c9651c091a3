------------------------------- MODULE ABTesting -------------------------------
(***************************************************************************)
(* The A/B tests of model variants of python/acms/ai/inference/            *)
(* ab_testing.py: the life cycle of a test, the evidence its results add   *)
(* up to, and the two ways a challenger is promoted, by evaluate_test and  *)
(* by the periodic check.                                                  *)
(*                                                                         *)
(* No method suspends before it returns (set_default_version is not even a *)
(* coroutine), so each is one step, and so is a whole pass of the check.   *)
(***************************************************************************)
EXTENDS Integers, Sequences, SequencesExt

CONSTANTS
  Order,        \* the tests in the order they are created, as in the dict
  AutoPromote,  \* tests configured to promote, on a manager that may
  VersionNamed  \* tests whose model_b_id is also a version name of model_a

Tests == ToSet(Order)

ASSUME TestsAssumption == AutoPromote \subseteq Tests /\ VersionNamed \subseteq Tests

VARIABLES
  testStatus,   \* _statuses, or "absent"
  evidence,     \* what ModelComparison holds: "few" results, enough of them
                \* but too many "errors" among them, or "enough"
  long,         \* both variants also have the min_samples of the config
  lead,         \* what the results say: "A" or "B" significantly, or "none"
  served,       \* the variant the server uses by default for model_a
  checking,     \* _running
  stray         \* some loop of an earlier start, which _check_task no longer
                \* names, is in its sleep

checkVars == <<checking, stray>>
abVars == <<testStatus, evidence, long, lead, served, checking, stray>>

-----------------------------------------------------------------------------
Created == {t \in Tests : testStatus[t] # "absent"}

ABInit ==
  /\ testStatus = [t \in Tests |-> "absent"]
  /\ evidence = [t \in Tests |-> "few"]
  /\ long = [t \in Tests |-> FALSE]
  /\ lead = [t \in Tests |-> "none"]
  /\ served = [t \in Tests |-> "A"]
  /\ checking = FALSE /\ stray = FALSE

CreateTest(i) ==
  /\ Order[i] \notin Created
  /\ \A j \in 1..(i - 1) : Order[j] \in Created
  /\ testStatus' = [testStatus EXCEPT ![Order[i]] = "running"]
  /\ UNCHANGED <<evidence, long, lead, served, checkVars>>

(* Any test can be paused, one that is over too. *)
PauseTest(t) ==
  /\ t \in Created
  /\ testStatus' = [testStatus EXCEPT ![t] = "paused"]
  /\ UNCHANGED <<evidence, long, lead, served, checkVars>>

ResumeTest(t) ==
  /\ testStatus[t] = "paused"
  /\ testStatus' = [testStatus EXCEPT ![t] = "running"]
  /\ UNCHANGED <<evidence, long, lead, served, checkVars>>

(* A result, recorded whatever the status of the test by then. *)
RecordResult(t) ==
  /\ t \in Created
  /\ \E e \in {"few", "errors", "enough"}, l \in BOOLEAN, w \in {"A", "B", "none"} :
       /\ evidence[t] = "enough" => e = "enough"
       /\ evidence[t] = "errors" => e # "few"
       /\ long[t] => l
       /\ e # "enough" => w = "none"
       /\ evidence' = [evidence EXCEPT ![t] = e]
       /\ long' = [long EXCEPT ![t] = l]
       /\ lead' = [lead EXCEPT ![t] = w]
  /\ UNCHANGED <<testStatus, served, checkVars>>

-----------------------------------------------------------------------------
(* Evaluation and promotion.                                               *)

(* _promote_winner asks the server for a version called like the model B;  *)
(* its refusal is logged and the status stays.                             *)
ServedAfter(t) == IF t \in VersionNamed THEN "B" ELSE served[t]

Wins(t) == evidence[t] = "enough" /\ lead[t] = "B" /\ t \in AutoPromote

(* With enough results but fewer than two usable ones a significance test  *)
(* reads fields of None and raises.                                        *)
Raises(t) == evidence[t] = "errors"

EvaluateAs(t, status) ==
  IF ~Raises(t) /\ Wins(t)
    THEN /\ testStatus' = [testStatus EXCEPT ![t] = "auto_promoted"]
         /\ served' = [served EXCEPT ![t] = ServedAfter(t)]
    ELSE /\ testStatus' = [testStatus EXCEPT ![t] = status]
         /\ UNCHANGED served

EvaluateTest(t) ==
  /\ t \in Created
  /\ EvaluateAs(t, testStatus[t])
  /\ UNCHANGED <<evidence, long, lead, checkVars>>

StopTest(t) ==
  /\ t \in Created
  /\ EvaluateAs(t, "completed")
  /\ UNCHANGED <<evidence, long, lead, checkVars>>

-----------------------------------------------------------------------------
(* The periodic check.                                                     *)

Looked(t) == testStatus[t] = "running" /\ long[t] /\ evidence[t] # "few"

(* A test that raises ends the pass; the tests behind it are not reached.  *)
(* Mutant: none is reached when any raises.                                *)
Reached_AllOrNone == IF \E t \in Tests : Looked(t) /\ Raises(t) THEN {} ELSE Created
Reached ==
  {Order[i] : i \in {j \in DOMAIN Order : /\ Order[j] \in Created
                                          /\ \A h \in 1..j : ~(Looked(Order[h]) /\ Raises(Order[h]))}}

Decided == {t \in Reached \cap AutoPromote : Looked(t) /\ lead[t] # "none"}

(* A loop that stop came upon in its sleep and did not cancel makes one    *)
(* more pass; there may be others.                                         *)
PeriodicCheck ==
  /\ checking \/ stray
  /\ Decided # {}
  /\ testStatus' = [t \in Tests |-> IF t \notin Decided THEN testStatus[t]
                                    ELSE IF Wins(t) THEN "auto_promoted" ELSE "completed"]
  /\ served' = [t \in Tests |-> IF t \in Decided /\ Wins(t) THEN ServedAfter(t) ELSE served[t]]
  /\ stray' \in {stray, stray /\ checking}
  /\ UNCHANGED <<evidence, long, lead, checking>>

StrayEnds ==
  /\ stray /\ ~checking
  /\ stray' = FALSE
  /\ UNCHANGED <<testStatus, evidence, long, lead, served, checking>>

(* start forgets the loop of a start before it; stop cancels the last one. *)
StartChecking ==
  /\ checking' = TRUE
  /\ stray' = (stray \/ checking)
  /\ UNCHANGED <<testStatus, evidence, long, lead, served>>

StopChecking ==
  /\ checking
  /\ checking' = FALSE
  /\ UNCHANGED <<testStatus, evidence, long, lead, served, stray>>

-----------------------------------------------------------------------------
ABNext ==
  \/ \E i \in DOMAIN Order : CreateTest(i)
  \/ \E t \in Tests : \/ PauseTest(t) \/ ResumeTest(t) \/ StopTest(t)
                      \/ RecordResult(t) \/ EvaluateTest(t)
  \/ PeriodicCheck \/ StrayEnds
  \/ StartChecking \/ StopChecking

ABSpec == ABInit /\ [][ABNext]_abVars

(* The check wakes up every interval. *)
ABFairSpec == ABSpec /\ WF_abVars(PeriodicCheck)

-----------------------------------------------------------------------------
(* Properties.                                                             *)

(* Every part of a test is in range. *)
ABTypeOK ==
  /\ testStatus \in [Tests -> {"absent", "running", "paused", "completed", "auto_promoted"}]
  /\ evidence \in [Tests -> {"few", "errors", "enough"}]
  /\ long \in [Tests -> BOOLEAN]
  /\ lead \in [Tests -> {"A", "B", "none"}]
  /\ served \in [Tests -> {"A", "B"}]
  /\ checking \in BOOLEAN /\ stray \in BOOLEAN

(* A running test whose results lead stays no longer undecided than the    *)
(* check takes to wake up, as long as no earlier test makes the check      *)
(* raise.                                                                  *)
Leads(t) == Looked(t) /\ lead[t] # "none" /\ t \in AutoPromote
Blocked(i) == \E h \in 1..(i - 1) : Looked(Order[h]) /\ Raises(Order[h])

LeadIsDecided ==
  \A i \in DOMAIN Order : ~ <>[](checking /\ Leads(Order[i]) /\ ~Blocked(i))

=============================================================================
