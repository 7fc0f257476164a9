----------------------------- MODULE Automation -----------------------------
(***************************************************************************)
(* The automation as a whole: the runner with its sleeves, and the         *)
(* readiness gate of one strategy, two processes on one database.          *)
(*                                                                         *)
(* What they share is the stage of the strategy.  The gate and the         *)
(* operator's changes of stage move it, statement by statement; a pass of  *)
(* the runner loads the permissions of strategies in stage shadow.  The    *)
(* stages of the other strategies change as StrategyRunner!ChangeStage     *)
(* allows, which abstracts a gate for each of them.  The live permissions  *)
(* that a gate freezes are not those of the shadow runner.                 *)
(***************************************************************************)
EXTENDS StrategyRunner, StrategyPromotion

CONSTANT Gated  \* the strategy whose gate is followed step by step

ASSUME GatedAssumption == Gated \in Strategies

automationVars == <<vars, promotionVars>>

AutomationInit == Init /\ PromotionInit /\ stage[Gated] = status

\* The runner, its operator, and the stages of the other strategies.
Trading == Next /\ UNCHANGED <<stage[Gated], promotionVars>>

\* The gate, its operator, and the stage of the strategy.
Gating ==
    /\ PromotionNext
    /\ stage' = [stage EXCEPT ![Gated] = status']
    /\ UNCHANGED <<kill, permission, changes, runner, desired, books, counters>>

AutomationNext == Trading \/ Gating

AutomationSpec == AutomationInit /\ [][AutomationNext]_automationVars
-----------------------------------------------------------------------------
AutomationTypeOK == TypeOK /\ PromotionTypeOK

\* The runner reads what the gate wrote.
OneStage == stage[Gated] = status

\* What the runner promises and what the gate promises, while both run.
AutomationIsSafe ==
    /\ AllocatorIsHardGate
    /\ PositionsCoverSleeves
    /\ SleeveFollowsDesired
    /\ StrandedNeedsDeath
    /\ EmissionIsNews
    /\ SwitchesLetOneThrough
    /\ PromotionsAreAccounted

\* A pass takes up permissions of the strategy only while its stage is shadow:
\* a promotion stops the shadow trading as a freeze does, and nothing starts
\* it again once the strategy is off.
StageGovernsRunner ==
    [][\A c \in candidates' \ candidates :
          StrategyOf[c.permission] = Gated => status = "shadow"]_automationVars
=============================================================================
