-------------------------- MODULE StrategyPromotion --------------------------
(***************************************************************************)
(* The readiness gate of the automation: how one strategy version moves    *)
(* between draft, shadow, paper, canary_live and expanded_live.            *)
(*                                                                         *)
(* A pass of automation-readiness reads the stage, the approval of the     *)
(* edge above it and the metrics, decides, and then writes in separate     *)
(* statements: the stage, the approval, the lifecycle event, or the        *)
(* freeze of live permissions.  The service and a run by hand may pass at  *)
(* the same time, while the operator approves, revokes and changes stages. *)
(*                                                                         *)
(* Rates and percentages are integers in hundredths; an optional value is  *)
(* a set of at most one element.                                           *)
(***************************************************************************)
EXTENDS LifecycleStages, FiniteSets

CONSTANTS
    Approvals,      \* identities of rows of automation_strategy_promotion_approval
    Passes,         \* processes that evaluate readiness
    Measured,       \* metrics a pass may read
    MaxHands,       \* bound: changes of stage begun by hand, and thaws
    MaxCrashes,     \* bound: failed statements and crashes
    NoRow

-----------------------------------------------------------------------------
(***************************************************************************)
(* evaluate_readiness                                                      *)
(***************************************************************************)
Optional(S) == {v \in SUBSET S : \A a, b \in v : a = b}

Metrics == [outcomes : Nat, critical : Nat, orders : Nat,
            quality : Optional(Nat), forward : Optional(Int),
            excess : Optional(Int), churn : Optional(Nat),
            proofs : Optional(Nat), incidents : Optional(Nat),
            drawdown : Optional(Int), fills : Optional(Nat),
            slippage : Optional(Nat)]

\* require_min and require_max: a value that is missing does not pass.
AtLeast(value, threshold) == \E v \in value : v >= threshold
AtMost(value, threshold) == \E v \in value : v <= threshold

\* The gates whose failure freezes live permissions.
Safety(m) == AtLeast(m.proofs, 80) /\ AtMost(m.incidents, 5) /\ m.critical = 0

Edge(m) ==
    /\ m.outcomes >= 20
    /\ AtLeast(m.quality, 55)
    /\ AtLeast(m.forward, 0)
    /\ AtLeast(m.excess, 0)
    /\ AtMost(m.churn, 35)
    /\ AtLeast(m.drawdown, -800)

\* A slippage that is not known passes.
Execution(m) ==
    /\ m.orders >= 5
    /\ AtLeast(m.fills, 80)
    /\ \A v \in m.slippage : v <= 25

\* No blocker but those of the approval.
MetricsPass(s, m) ==
    /\ s \in Ladder
    /\ Edge(m)
    /\ Safety(m)
    /\ \A t \in NextStage(s) : IsLiveCapable(t) => Execution(m)

FreezesLive(s, m) == IsLiveCapable(s) /\ ~Safety(m)

\* ratio_score, inverted_ratio_score and non_negative_score, in hundredths and
\* rounded down; a missing value scores like the worst.
Percent(n) == IF n < 0 THEN 0 ELSE IF n > 100 THEN 100 ELSE n
RatioScore(value, threshold) == Percent((100 * value) \div threshold)
Ratio(value, threshold) == \* of an optional value
    IF value = {} THEN 0 ELSE RatioScore(CHOOSE v \in value : TRUE, threshold)
Inverted(value, threshold) ==
    IF value = {} THEN 0 ELSE 100 - RatioScore(CHOOSE v \in value : TRUE, threshold)
\* A negative return scores one half, however deep it is.
NonNegative(value) == IF AtLeast(value, 0) THEN 100 ELSE 50

ReadinessScore(s, m, approved) ==
    LET toLive == \E t \in NextStage(s) : IsLiveCapable(t)
        common == RatioScore(m.outcomes, 20) + Ratio(m.quality, 55)
                  + NonNegative(m.forward) + NonNegative(m.excess)
                  + Inverted(m.churn, 35) + Ratio(m.proofs, 80)
                  + Inverted(m.incidents, 5) + IF approved THEN 100 ELSE 0
        live == RatioScore(m.orders, 5) + Ratio(m.fills, 80)
    IN  IF toLive THEN (common + live) \div 10 ELSE common \div 8

-----------------------------------------------------------------------------
ASSUME PassAssumption == IsFiniteSet(Passes)
ASSUME MetricsAssumption == Measured \subseteq Metrics
ASSUME PromotionBoundAssumption == {MaxHands, MaxCrashes} \subseteq Nat
ASSUME NoneAssumption == NoRow \notin Approvals

VARIABLES
    status,     \* the stage, in automation_strategy_definition.status
    approval,   \* automation_strategy_promotion_approval
    pass,       \* what each pass holds in memory
    hand,       \* a change of stage by hand in progress
    iced,       \* manual_freeze of the strategy's approved live permissions
    spent,      \* per approval, the promotions it paid for
    moves,      \* changes of the stage
    events,     \* lifecycle events of a change
    hands, crashes

promotionVars == <<status, approval, pass, hand, iced, spent, moves, events,
                  hands, crashes>>

Edges == {e \in Ladder \X Ladder : e[2] \in NextStage(e[1])}

NoApproval == [status |-> "absent"]
ApprovalRows == [status : {"approved", "used", "revoked"}, edge : Edges,
                 expired : BOOLEAN]

\* `lapsed` are the approvals that had expired when the pass took its `now`.
AtRest == [step |-> "rest"]
PassSteps == {"approval", "metrics", "promote", "use", "record", "freeze"}
PassRows == [step : PassSteps, from : Stages, lapsed : SUBSET Approvals,
             holds : Approvals \union {NoRow}]
HandRows == [step : {"write", "record"}, from : Stages, to : Stages]

PromotionTypeOK ==
    /\ status \in Stages
    /\ approval \in [Approvals -> ApprovalRows \union {NoApproval}]
    /\ pass \in [Passes -> PassRows \union {AtRest}]
    /\ hand \in HandRows \union {AtRest}
    /\ iced \in BOOLEAN
    /\ spent \in [Approvals -> Nat]
    /\ moves \in Nat
    /\ events \in Nat
    /\ hands \in 0..MaxHands
    /\ crashes \in 0..MaxCrashes

\* The built-in strategies start in shadow; any stage of the ladder may have
\* been reached since.
PromotionInit ==
    /\ status \in Ladder
    /\ approval = [a \in Approvals |-> NoApproval]
    /\ pass = [p \in Passes |-> AtRest]
    /\ hand = AtRest
    /\ iced = FALSE
    /\ spent = [a \in Approvals |-> 0]
    /\ moves = 0
    /\ events = 0
    /\ hands = 0
    /\ crashes = 0

-----------------------------------------------------------------------------
(***************************************************************************)
(* A pass                                                                  *)
(***************************************************************************)
\* The rows that are not retired, and the time.
StartEvaluation(p) ==
    /\ pass[p] = AtRest
    /\ status # "retired"
    /\ pass' = [pass EXCEPT ![p] =
           [step |-> "approval", from |-> status, holds |-> NoRow,
            lapsed |-> {a \in Approvals : approval[a] # NoApproval
                                              /\ approval[a].expired}]]
    /\ UNCHANGED <<status, approval, hand, iced, spent, moves, events, hands, crashes>>

IsActive(a, edge) == approval[a].status = "approved" /\ approval[a].edge = edge

\* automation_promotion_approval, for the stage as it was read.
ReadApproval(p) ==
    /\ pass[p].step = "approval"
    /\ LET from == pass[p].from
           found == {a \in Approvals : \E t \in NextStage(from) :
                        IsActive(a, <<from, t>>)}
       IN  \E a \in IF found = {} THEN {NoRow} ELSE found :
              pass' = [pass EXCEPT ![p].step = "metrics", ![p].holds = a]
    /\ UNCHANGED <<status, approval, hand, iced, spent, moves, events, hands, crashes>>

ApprovalValid(p) == pass[p].holds \notin pass[p].lapsed \union {NoRow}

\* evaluate_readiness, and the rows of the evaluation and its event.
Decide(p, m) ==
    /\ pass[p].step = "metrics"
    /\ pass' = [pass EXCEPT ![p] =
           IF MetricsPass(@.from, m) /\ ApprovalValid(p) THEN [@ EXCEPT !.step = "promote"]
           ELSE IF FreezesLive(@.from, m) THEN [@ EXCEPT !.step = "freeze"]
           ELSE AtRest]
    /\ UNCHANGED <<status, approval, hand, iced, spent, moves, events, hands, crashes>>

PromoteBlindly(p) ==   \* deliberate error: no AND status = from
    /\ pass[p].step = "promote"
    /\ \E t \in NextStage(pass[p].from) :
          /\ status' = t
          /\ spent' = [spent EXCEPT ![pass[p].holds] = @ + 1]
          /\ moves' = moves + 1
          /\ pass' = [pass EXCEPT ![p].step = "use"]
    /\ UNCHANGED <<approval, hand, iced, events, hands, crashes>>

\* promote_automation_strategy_after_readiness: three statements.
Promote(p) ==
    /\ pass[p].step = "promote"
    /\ IF status = pass[p].from
       THEN \E t \in NextStage(status) :
               /\ status' = t
               /\ spent' = [spent EXCEPT ![pass[p].holds] = @ + 1]
               /\ moves' = moves + 1
               /\ pass' = [pass EXCEPT ![p].step = "use"]
       ELSE /\ pass' = [pass EXCEPT ![p] = AtRest]
            /\ UNCHANGED <<status, spent, moves>>
    /\ UNCHANGED <<approval, hand, iced, events, hands, crashes>>

MarkUsedForgets(p) ==   \* deliberate error: the approval stays active
    /\ pass[p].step = "use"
    /\ pass' = [pass EXCEPT ![p].step = "record"]
    /\ UNCHANGED <<status, approval, hand, iced, spent, moves, events, hands, crashes>>

MarkUsed(p) ==
    /\ pass[p].step = "use"
    /\ approval' = [approval EXCEPT ![pass[p].holds].status = "used"]
    /\ pass' = [pass EXCEPT ![p].step = "record"]
    /\ UNCHANGED <<status, hand, iced, spent, moves, events, hands, crashes>>

RecordPromotionSilently(p) ==   \* deliberate error: no lifecycle event
    /\ pass[p].step = "record"
    /\ pass' = [pass EXCEPT ![p] = AtRest]
    /\ UNCHANGED <<status, approval, hand, iced, spent, moves, events, hands, crashes>>

RecordPromotion(p) ==
    /\ pass[p].step = "record"
    /\ events' = events + 1
    /\ pass' = [pass EXCEPT ![p] = AtRest]
    /\ UNCHANGED <<status, approval, hand, iced, spent, moves, hands, crashes>>

\* freeze_live_automation_permissions
FreezeLive(p) ==
    /\ pass[p].step = "freeze"
    /\ iced' = TRUE
    /\ pass' = [pass EXCEPT ![p] = AtRest]
    /\ UNCHANGED <<status, approval, hand, spent, moves, events, hands, crashes>>

\* A statement fails, which ends the process, or the process dies.
PassCrashes(p) ==
    /\ pass[p] # AtRest
    /\ crashes < MaxCrashes
    /\ crashes' = crashes + 1
    /\ pass' = [pass EXCEPT ![p] = AtRest]
    /\ UNCHANGED <<status, approval, hand, iced, spent, moves, events, hands>>

-----------------------------------------------------------------------------
(***************************************************************************)
(* The operator.  Approvals are rows entered by hand.                      *)
(***************************************************************************)
\* ux_automation_strategy_promotion_active: one active approval per edge.
EnterApproval(a, edge) ==
    /\ approval[a] = NoApproval
    /\ \A b \in Approvals : ~IsActive(b, edge)
    /\ approval' = [approval EXCEPT ![a] =
           [status |-> "approved", edge |-> edge, expired |-> FALSE]]
    /\ UNCHANGED <<status, pass, hand, iced, spent, moves, events, hands, crashes>>

Revoke(a) ==
    /\ approval[a].status = "approved"
    /\ approval' = [approval EXCEPT ![a].status = "revoked"]
    /\ UNCHANGED <<status, pass, hand, iced, spent, moves, events, hands, crashes>>

ApprovalExpires(a) ==
    /\ approval[a] # NoApproval
    /\ ~approval[a].expired
    /\ approval' = [approval EXCEPT ![a].expired = TRUE]
    /\ UNCHANGED <<status, pass, hand, iced, spent, moves, events, hands, crashes>>

\* set_automation_strategy_stage_manual: read and check, write, record.
StartManualChange(to) ==
    /\ hand = AtRest
    /\ ManualChangeAllowed(status, to)
    /\ hands < MaxHands
    /\ hands' = hands + 1
    /\ hand' = [step |-> "write", from |-> status, to |-> to]
    /\ UNCHANGED <<status, approval, pass, iced, spent, moves, events, crashes>>

WriteManualChange ==
    /\ hand.step = "write"
    /\ IF status = hand.from
       THEN /\ status' = hand.to
            /\ moves' = moves + 1
            /\ hand' = [hand EXCEPT !.step = "record"]
       ELSE hand' = AtRest /\ UNCHANGED <<status, moves>>
    /\ UNCHANGED <<approval, pass, iced, spent, events, hands, crashes>>

RecordManualChange ==
    /\ hand.step = "record"
    /\ events' = events + 1
    /\ hand' = AtRest
    /\ UNCHANGED <<status, approval, pass, iced, spent, moves, hands, crashes>>

ManualChangeFails ==
    /\ hand # AtRest
    /\ crashes < MaxCrashes
    /\ crashes' = crashes + 1
    /\ hand' = AtRest
    /\ UNCHANGED <<status, approval, pass, iced, spent, moves, events, hands>>

\* Approving a permission again clears its freeze.
Thaw ==
    /\ iced
    /\ hands < MaxHands
    /\ hands' = hands + 1
    /\ iced' = FALSE
    /\ UNCHANGED <<status, approval, pass, hand, spent, moves, events, crashes>>

-----------------------------------------------------------------------------
PassStep(p) ==
    \/ StartEvaluation(p)
    \/ ReadApproval(p)
    \/ \E m \in Measured : Decide(p, m)
    \/ Promote(p)
    \/ MarkUsed(p)
    \/ RecordPromotion(p)
    \/ FreezeLive(p)

PromotionNext ==
    \/ \E p \in Passes : PassStep(p) \/ PassCrashes(p)
    \/ \E a \in Approvals : Revoke(a) \/ ApprovalExpires(a) \/ \E edge \in Edges : EnterApproval(a, edge)
    \/ \E to \in Stages : StartManualChange(to)
    \/ WriteManualChange
    \/ RecordManualChange
    \/ ManualChangeFails
    \/ Thaw

PromotionSpec == PromotionInit /\ [][PromotionNext]_promotionVars

-----------------------------------------------------------------------------
\* "Marked used after a readiness pass promotes the strategy": an approval pays
\* for one promotion, and for another only when a pass dies before it marks the
\* approval, or when a second pass had read it before the mark.
ApprovalsPayOnce ==
    \A a \in Approvals : spent[a] <= Cardinality(Passes) + crashes

Recording ==
    Cardinality({p \in Passes : pass[p].step \in {"use", "record"}})
        + IF hand.step = "record" THEN 1 ELSE 0

\* "Append-only audit log for ... promotions, demotions, freezes": a change of
\* stage without its event takes a crash between the two statements.
UnrecordedNeedsCrash == moves <= events + Recording + crashes

PromotionsAreAccounted == ApprovalsPayOnce /\ UnrecordedNeedsCrash

\* A strategy that was frozen or retired does not run again, not by a pass nor
\* a demotion that had read the stage before.
OffStaysOff == [][IsOff(status) => IsOff(status')]_promotionVars

\* "Promotion is not": a stage rises by one step and only by a pass that holds
\* an approval of exactly that step.
RisesAreApproved ==
    [][Rises(status, status')
          => \E p \in Passes, a \in Approvals :
                /\ pass[p].step = "promote"
                /\ pass[p].holds = a
                /\ approval[a] # NoApproval
                /\ approval[a].edge = <<status, status'>>]_promotionVars

\* What the runner relies on (StrategyRunner!ChangeStage): a stage leaves the
\* ladder, or rises by at most one step on it.
StagesAreStepped ==
    [][\/ status' \in Off \union {status}
       \/ {status, status'} \subseteq Ladder /\ Rank[status'] <= Rank[status] + 1
      ]_promotionVars

StagesMoveLegally == OffStaysOff /\ RisesAreApproved /\ StagesAreStepped
=============================================================================
