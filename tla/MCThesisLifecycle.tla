------------------------- MODULE MCThesisLifecycle -------------------------
(***************************************************************************)
(* Small instances of ThesisLifecycle: two thesis ids of one symbol, so    *)
(* that a closed thesis can be followed by another, or be put back.        *)
(***************************************************************************)
EXTENDS ThesisLifecycle, TLC

CONSTANTS t1, t2, aapl, h1, h2, d1, d2

MCSymbolOf == [t \in Theses |-> aapl]

\* A draft with every slot filled, one with nothing to promote, and one that
\* lost its sizing: enough to pass and to fail each substance gate.
MCDrafts == {Slots, {}, Slots \ {"size"}}

\* One draft with everything, when the gates are not the question.
MCFullDrafts == {Slots}

MCSymmetry == Permutations({h1, h2}) \union Permutations({t1, t2})
=============================================================================
