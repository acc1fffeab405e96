---------------------------- MODULE MCEvaluator ----------------------------
(***************************************************************************)
(* Small instances of Evaluator.                                           *)
(***************************************************************************)
EXTENDS Evaluator

CONSTANTS ifIn, ifOut

OneOrder == <<ifIn>>
TwoOrder == <<ifIn, ifOut>>
=============================================================================
