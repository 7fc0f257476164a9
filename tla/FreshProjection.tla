-------------------------- MODULE FreshProjection --------------------------
(***************************************************************************)
(* What the derived refresh queue promises to the surfaces that read from  *)
(* it (brain links, the journal, the trade desk, review packets): a        *)
(* projection that is called fresh reflects every fact committed so far,   *)
(* and a projection never steps back to older facts.  How projections are  *)
(* scheduled, claimed, retried or lost is not mentioned.                   *)
(***************************************************************************)
EXTENDS Naturals

CONSTANT Projections

VARIABLES
    facts,   \* how many changes to its source facts have been committed
    shown,   \* how many of them the stored result reflects
    fresh    \* is the projection called up to date?

Init ==
    /\ facts = [p \in Projections |-> 0]
    /\ shown = [p \in Projections |-> 0]
    /\ fresh = [p \in Projections |-> FALSE]

Change(p) ==
    /\ facts' = [facts EXCEPT ![p] = @ + 1]
    /\ fresh' = [fresh EXCEPT ![p] = FALSE]
    /\ UNCHANGED shown

Publish(p) ==
    \E v \in shown[p]..facts[p], f \in BOOLEAN :
        /\ f => v = facts[p]
        /\ shown' = [shown EXCEPT ![p] = v]
        /\ fresh' = [fresh EXCEPT ![p] = f]
        /\ UNCHANGED facts

Next == \E p \in Projections : Change(p) \/ Publish(p)

Spec == Init /\ [][Next]_<<facts, shown, fresh>>
=============================================================================
