-------------------------- MODULE MCAlertPipeline --------------------------
(* Instances of AlertPipeline: the capture thread with a rule's key, and   *)
(* the evaluation loop and the thread that stops the service with a        *)
(* detector's key.                                                         *)
EXTENDS AlertPipeline, TLC

CONSTANTS capture, evaluator, main, k1, k2

OnlyCapture == {capture}
Evaluators == {evaluator, main}
RuleKey == {k1}
DetectorKey == {k2}

Symmetry == Permutations(Evaluators)
=============================================================================
