-------------------------- MODULE MCStrategyRunner --------------------------
(***************************************************************************)
(* Two strategies on one symbol: they share its cap and its simulator      *)
(* position.                                                               *)
(***************************************************************************)
EXTENDS StrategyRunner, TLC

CONSTANTS p1, p2, technical, thesis, aapl

MCSymbolOf == [p \in Permissions |-> aapl]
MCStrategyOf == p1 :> technical @@ p2 :> thesis
=============================================================================
