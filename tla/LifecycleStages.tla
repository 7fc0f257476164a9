--------------------------- MODULE LifecycleStages ---------------------------
(***************************************************************************)
(* The stages of a strategy and of an environment, from draft to           *)
(* expanded_live, and the two a strategy is taken out of service in.       *)
(***************************************************************************)
EXTENDS Integers

Rank == [draft |-> 0, shadow |-> 1, paper |-> 2, canary_live |-> 3,
         expanded_live |-> 4]

Ladder == DOMAIN Rank
Off == {"frozen", "retired"}
Stages == Ladder \union Off
IsOff(s) == s \in Off

IsLiveCapable(s) == s \in {"canary_live", "expanded_live"}
IsRunnable(s) == s \in Ladder \ {"draft"}

\* An environment scope has the rank of the stage of its name.
AllowsEnvironmentScope(s, scope) ==
    IsRunnable(s) /\ IsRunnable(scope) /\ Rank[scope] <= Rank[s]

\* next_stage, as the set of at most one stage.
NextStage(s) ==
    {t \in Ladder : s \in Ladder /\ Rank[t] = Rank[s] + 1}

Rises(from, to) == {from, to} \subseteq Ladder /\ Rank[to] > Rank[from]

\* manual_stage_change
ManualChangeAllowed(from, to) ==
    /\ from # to
    /\ \/ to \in Off
       \/ Rises(to, from)
=============================================================================
