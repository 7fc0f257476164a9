------------------------ MODULE MCConditionEvaluation ------------------------
(***************************************************************************)
(* One redraft while a pass holds the rows of the first draft is enough    *)
(* for a write to land on another condition, or past the end of the array. *)
(***************************************************************************)
EXTENDS ConditionEvaluation
=============================================================================
