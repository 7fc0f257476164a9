-------------------------- MODULE MCDerivedRefresh --------------------------
(***************************************************************************)
(* Two tasks and two workers: a batch can hold both, a pass can die with   *)
(* one done and one not, and a fact can change at every point between.     *)
(***************************************************************************)
EXTENDS DerivedRefresh

CONSTANTS k1, k2, w1, w2
=============================================================================
