------------------------------ MODULE Workbench ------------------------------
(***************************************************************************)
(* The whole attention queue: the discovery of a symbol next to the cards  *)
(* of every other kind, which the thesis engine, the staler, the           *)
(* consensus, the risk service and the price alerts raise and others       *)
(* close, in any order.  The operator may do to any card what the gateway  *)
(* offers, also to a candidate's, and resurfacing takes all cards that are *)
(* due at once.                                                            *)
(*                                                                         *)
(* The trigger that the scanner raises is the thesis_actionable card of    *)
(* the symbol's thesis, which a transition and a decision move as well.    *)
(***************************************************************************)
EXTENDS Discovery

VARIABLE kindOf   \* what each card is for that is not a candidate's; fixed

benchVars == <<kindOf, workbenchVars>>

Others == Cards \ Candidates
OtherKinds == {"thesis_incomplete", "thesis_actionable", "thesis_review",
               "context_stale", "risk_review", "price_alert"}

KindsFixed ==
    /\ kindOf \in [Others -> OtherKinds]
    /\ kindOf[Trigger] = "thesis_actionable"

BenchInit == KindsFixed /\ DiscoveryInit

-----------------------------------------------------------------------------
\* Consensus asks for a thesis that is missing, a decline of cognition says
\* what it waits for, a draft settles both.
MissingThesis(k) ==
    \/ Refresh(k, InitialState("thesis_incomplete"))
    \/ Refresh(k, "waiting_on_data")
    \/ Refresh(k, "ready_for_review")
    \/ Resolve(k)

\* A transition inserts, the scanner inserts and refreshes; a transition or a
\* decision resolves.
ActionableThesis(k) ==
    \/ Upsert(k, InitialState("thesis_actionable"))
    \/ Refresh(k, InitialState("thesis_actionable"))
    \/ Resolve(k)

\* A veto blocks, a warning is to be reviewed.
RiskVerdict(k) ==
    Upsert(k, "blocked") \/ Upsert(k, InitialState("risk_review"))

\* Who raises, moves and closes a card of each kind.
Produce(k) ==
    \/ kindOf[k] = "thesis_incomplete" /\ MissingThesis(k)
    \/ kindOf[k] = "thesis_actionable" /\ ActionableThesis(k)
    \/ kindOf[k] = "thesis_review" /\ Revise(k)
    \/ kindOf[k] = "context_stale" /\ UpsertLogged(k, InitialState("context_stale"))
    \/ kindOf[k] = "risk_review" /\ RiskVerdict(k)
    \/ kindOf[k] = "price_alert" /\ Upsert(k, InitialState("price_alert"))

BenchNext ==
    /\ \/ DiscoveryNext
       \/ \E k \in Others : OnCards(Produce(k))
       \/ \E k \in Cards : OnCards(Handle(k) \/ DateIsReached(k))
    /\ UNCHANGED kindOf

\* Without the fairness of the timers of discovery, which safety does not need.
BenchSpec == BenchInit /\ [][BenchNext]_benchVars

-----------------------------------------------------------------------------
WorkbenchTypeOK == AttentionTypeOK /\ DiscoveryTypeOK
=============================================================================
