---------------------------- MODULE MCMarketFeed ----------------------------
(***************************************************************************)
(* Of the behaviours of MarketFeed, those of the alerts alone and those of *)
(* the tasks alone, chosen in the initial state: the two share no          *)
(* variable, so the interleavings of their steps reach no value of either  *)
(* that it does not reach alone.                                           *)
(*                                                                         *)
(* Alerts: one rule, two bars, each stored in either interval, one edit    *)
(* and one fault.  Tasks: the loop that an error ends, with two actions on *)
(* one symbol, and a benchmark loop.                                       *)
(***************************************************************************)
EXTENDS MarketFeed

CONSTANTS r1, x

VARIABLE watched

watchedVars == <<watched, alertVars, taskVars>>

WatchedInit == watched \in {"alerts", "tasks"} /\ AlertInit /\ TaskInit

Alerting(A) == watched = "alerts" /\ A /\ UNCHANGED <<watched, taskVars>>
Fetching(A) == watched = "tasks" /\ A /\ UNCHANGED <<watched, alertVars>>

\* AlertFairness and TaskFairness, of the machine that runs.
WatchedSpec ==
    /\ WatchedInit
    /\ [][Alerting(AlertNext) \/ Fetching(TaskNext)]_watchedVars
    /\ WF_watchedVars(Alerting(Loop))
    /\ \A c \in Callers : WF_watchedVars(Alerting(Work(c)))
    /\ \A l \in Loops :
          /\ WF_watchedVars(Fetching(\E X \in SUBSET Subjects : StartPass(l, X)))
          /\ WF_watchedVars(Fetching(FinishPass(l)))
    /\ \A t \in Tasks :
          /\ WF_watchedVars(Fetching(ComesDue(t)))
          /\ WF_watchedVars(Fetching(GrowsStale(t)))

\* A bar below the target and one that trades through it.
TwoBars == {[low |-> 1, high |-> 1], [low |-> 1, high |-> 2]}

\* Every loop of the code, also those that do not run in this instance: a pass
\* that runs to its end answers each task of each symbol it listed.
ASSUME \A l \in DOMAIN Serves : \A v \in Verdicts(l, {"a", "b"}) :
           DOMAIN v = Serves[l] \X {"a", "b"} /\ \A t \in DOMAIN v : v[t] \in Settled
=============================================================================
