----------------------------- MODULE MCWorkbench -----------------------------
(***************************************************************************)
(* The attention queue with the candidates of one symbol and one card of   *)
(* another kind.  The cards of the other kinds share no statement with     *)
(* those of discovery but the resurfacing, which treats each card by       *)
(* itself: of the steps of Workbench an instance takes either those of     *)
(* discovery or those of the one other card, chosen in the initial state.  *)
(***************************************************************************)
EXTENDS Workbench, MCReadModels

CONSTANTS c1, c2, other

VARIABLE watched

watchedVars == <<watched, benchVars>>

\* The rows are numbered: what is left from before has the first number.
WatchedInit ==
    /\ watched \in {"discovery", "other"}
    /\ BenchInit
    /\ watched = "discovery" => kindOf[other] = "risk_review"
    /\ candidate[c2] = Absent

OtherCard ==
    \/ OnCards(Produce(other))
    \/ OnCards(Handle(other) \/ DateIsReached(other))
    \/ OnCards(ResurfaceDue)

Discovering(A) == watched = "discovery" /\ A /\ UNCHANGED <<watched, kindOf>>

WatchedNext ==
    \/ Discovering(DiscoveryNext)
    \/ watched = "other" /\ OtherCard /\ UNCHANGED <<watched, kindOf>>

\* The scanner and the pool loop are timers; a pass ends.
WatchedSpec ==
    /\ WatchedInit
    /\ [][WatchedNext]_watchedVars
    /\ WF_watchedVars(Discovering(ScanStep))
    /\ WF_watchedVars(Discovering(NominateStep))

Hit(volume, breakout, estimate) ==
    [volume |-> volume, breakout |-> breakout, estimate |-> estimate, sentiment |-> 0]

\* Nothing, noise, a breakout, and falling estimates.
FourHits == {Hit(FALSE, FALSE, 0), Hit(TRUE, FALSE, 0), Hit(FALSE, TRUE, 0),
             Hit(FALSE, FALSE, -1)}

\* High enough for exhaustion, low enough for a breakout.
OneMark == {[known |-> TRUE, raw |-> 62, stretched |-> FALSE]}
=============================================================================
