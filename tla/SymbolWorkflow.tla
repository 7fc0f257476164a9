--------------------------- MODULE SymbolWorkflow ---------------------------
(***************************************************************************)
(* What the workbench says of one symbol: where it stands in the workflow, *)
(* what to do next, and how fresh the inputs of its thesis are.            *)
(*                                                                         *)
(* The facts are one record, read in one statement.  What may be absent is *)
(* a set of at most one element; ages are in hours, scores in hundredths.  *)
(***************************************************************************)
EXTENDS Integers, FiniteSets

FinalStates == {"closed", "disqualified"}
Stances == {"actionable", "armed", "building_conviction"}

-----------------------------------------------------------------------------
(***************************************************************************)
(* symbol_workflow: the facts, from the rows of one symbol                 *)
(***************************************************************************)
\* Cards that are open, the snoozed ones left out until they are due.
Visible(cards) ==
    {c \in cards : /\ c.status = "open"
                   /\ c.state # "operator_deferred" \/ c.due}

SeverityRank(c) ==
    CASE c.severity = "blocked" -> 0
      [] c.severity = "decision" -> 1
      [] c.severity = "review" -> 2
      [] OTHER -> 3

Newest(cards) == {c \in cards : \A e \in cards : e.created <= c.created}
First(cards) ==
    Newest({c \in cards : \A e \in cards : SeverityRank(c) <= SeverityRank(e)})

OpenRequirements(rows) == {q \in rows : q.state # "satisfied"}

\* The thesis that was updated last, of those that are not over.
CurrentThesis(theses) ==
    LET live == {t \in theses : t.state \notin FinalStates}
    IN  {t \in live : \A u \in live : u.updated <= t.updated}

Facts(rows) ==
    LET visible == Visible(rows.cards)
        open == OpenRequirements(rows.requirements)
    IN  [tier |-> rows.tier, pooled |-> rows.pooled, context |-> rows.context,
         items |-> Cardinality(rows.items),
         open |-> Cardinality(open),
         blocking |-> Cardinality({q \in open : q.priority = "blocking"}),
         due |-> Cardinality({t \in rows.tasks :
                     /\ t.state \in {"queued", "no_rows", "failed", "rate_limited", "blocked"}
                     /\ t.due}),
         thesis |-> {t.state : t \in CurrentThesis(rows.theses)},
         declines |-> Cardinality({c \in visible : c.kind = "thesis_incomplete"}),
         decisions |-> Cardinality(rows.decisions),
         fills |-> Cardinality({d \in rows.decisions :
                       d.action \in {"enter", "resize"} /\ d.choice = "confirmed"}),
         positions |-> Cardinality({p \in rows.positions : p.open}),
         permissions |-> rows.permissions,
         attention |-> Cardinality(visible),
         candidate |-> Newest({c \in visible : c.kind = "candidate_review"}),
         packet |-> First(visible)]

-----------------------------------------------------------------------------
(***************************************************************************)
(* classify_symbol_workflow                                                *)
(***************************************************************************)
Workflow(f) ==
    IF f.tier = {}
    THEN IF f.candidate # {} /\ f.thesis = {} THEN "nominated" ELSE "pool_candidate"
    ELSE IF f.blocking > 0 THEN "evidence_blocked"
    ELSE IF f.context = {} THEN "context_missing"
    ELSE IF f.positions > 0 THEN "position_tracking"
    ELSE IF f.fills > 0 \/ f.decisions > 0 THEN "decision_recorded"
    ELSE IF f.thesis # {}
    THEN IF f.thesis \subseteq Stances THEN "thesis_actionable" ELSE "thesis_monitoring"
    ELSE IF f.declines > 0 THEN "declined" ELSE "context_ready"

NeedsFill(f) == Workflow(f) = "decision_recorded" /\ f.fills > 0

PrimaryAction(f) ==
    CASE Workflow(f) = "nominated" -> "attention"
      [] Workflow(f) = "pool_candidate" -> "promote"
      [] Workflow(f) \in {"evidence_blocked", "context_missing"} -> "research"
      [] Workflow(f) = "position_tracking" -> "tracking"
      [] Workflow(f) = "decision_recorded" -> IF NeedsFill(f) THEN "decision" ELSE "tracking"
      [] Workflow(f) = "thesis_actionable" -> "decision"
      [] Workflow(f) = "thesis_monitoring" -> "thesis"
      [] Workflow(f) = "declined" -> "retry_thesis"
      [] OTHER -> "overview"

\* The card that the action opens.
ActionCard(f) ==
    CASE Workflow(f) = "nominated" -> f.candidate
      [] Workflow(f) = "pool_candidate" -> {}
      [] OTHER -> f.packet

-----------------------------------------------------------------------------
(***************************************************************************)
(* symbol_workflow_steps                                                   *)
(***************************************************************************)
StatusStep(f) ==
    IF f.tier # {} THEN "universe"
    ELSE IF Workflow(f) = "nominated" THEN "nominated"
    ELSE IF f.pooled THEN "discovery_pool" ELSE "not_active"

EvidenceStep(f) ==
    IF f.blocking > 0 THEN "blocking" ELSE IF f.open > 0 THEN "open"
    ELSE IF f.items > 0 THEN "facts" ELSE IF f.due > 0 THEN "due_tasks" ELSE "ready"

ThesisStep(f) ==
    IF f.thesis # {} THEN CHOOSE s \in f.thesis : TRUE
    ELSE IF Workflow(f) = "nominated" THEN "nominated"
    ELSE IF f.declines > 0 THEN "declined" ELSE "no_thesis"

DecisionStep(f) ==
    IF f.positions > 0 THEN "open_position" ELSE IF f.fills > 0 THEN "fill_needed"
    ELSE IF f.decisions > 0 THEN "decided" ELSE "no_decision"

\* Permissions that are pending or approved; a frozen one is either.
AutomationStep(f) ==
    LET Has(P(_)) == \E p \in f.permissions : P(p)
    IN  IF Has(LAMBDA p : p.frozen) THEN "frozen"
        ELSE IF Has(LAMBDA p : p.status = "approved") THEN "approved"
        ELSE IF Has(LAMBDA p : p.status = "pending") THEN "pending" ELSE "not_approved"

Tones(f) ==
    [attention |-> IF f.attention > 0 THEN "actionable" ELSE "muted",
     evidence |-> IF f.blocking > 0 THEN "blocked"
                  ELSE IF f.open > 0 \/ f.due > 0 THEN "monitoring" ELSE "ready",
     thesis |-> IF f.thesis # {}
                THEN IF f.thesis \subseteq Stances THEN "actionable" ELSE "monitoring"
                ELSE IF f.declines > 0 THEN "declined" ELSE "muted",
     decision |-> IF f.positions > 0 \/ f.decisions > 0 THEN "tracking" ELSE "muted"]

-----------------------------------------------------------------------------
(***************************************************************************)
(* thesis_freshness_for_symbol                                             *)
(***************************************************************************)
Day == 24

\* Hours within which a component is fresh, aging and stale.
Limits ==
    [market |-> [fresh |-> Day, stale |-> 7 * Day, old |-> 30 * Day],
     context |-> [fresh |-> 7 * Day, stale |-> 30 * Day, old |-> 90 * Day],
     estimates |-> [fresh |-> 14 * Day, stale |-> 60 * Day, old |-> 120 * Day]]

\* age_component, of an optional age; an observation of the future has age 0.
AgeStatus(age, limits) ==
    IF age = {} THEN "missing"
    ELSE IF \E a \in age : a <= limits.fresh THEN "fresh"
    ELSE IF \E a \in age : a <= limits.stale THEN "aging"
    ELSE IF \E a \in age : a <= limits.old THEN "stale" ELSE "old"

AgeScore == [fresh |-> 100, aging |-> 80, stale |-> 60, old |-> 40, missing |-> 30]

\* news_component, of the articles of the last 14 days.
NewsStatus(articles) ==
    IF articles >= 3 THEN "fresh" ELSE IF articles > 0 THEN "thin" ELSE "missing"

NewsScore == [fresh |-> 100, thin |-> 70, missing |-> 50]

Components(ages, articles) ==
    [c \in DOMAIN Limits \union {"news"} |->
        IF c = "news" THEN NewsStatus(articles) ELSE AgeStatus(ages[c], Limits[c])]

\* The product of the scores of the components, in hundred-millionths.
FreshnessScore(parts) ==
    AgeScore[parts.market] * AgeScore[parts.context] * AgeScore[parts.estimates]
        * NewsScore[parts.news]

Penalized(parts) == {c \in DOMAIN parts : parts[c] \notin {"fresh", "aging"}}

FreshnessStatus(score) ==
    IF score >= 85 * 10^6 THEN "fresh" ELSE IF score >= 50 * 10^6 THEN "stale" ELSE "limited"

ConfidenceCap(score, parts) ==
    IF score < 50 * 10^6 THEN "low"
    ELSE IF score < 85 * 10^6 \/ parts.context \in {"stale", "old"} THEN "medium" ELSE "none"
=============================================================================
