----------------------------- MODULE PriceAlerts -----------------------------
(***************************************************************************)
(* Price alert rules and their trigger receipts, for one symbol.           *)
(*                                                                         *)
(* Two callers of trigger_symbol_rules run side by side in the price-alert *)
(* process: the consumer of market.bar messages and the loop that sweeps   *)
(* the latest stored bars.  Each reads the active rules once and works     *)
(* through that list, while the operator may edit, disable or re-arm the   *)
(* same rules over HTTP.  A trigger is one transaction; telling anybody of *)
(* it is three more writes, each of which may fail.                        *)
(*                                                                         *)
(* A price is an integer level; a bar is the range from its low to its     *)
(* high.  A rule carries only what decides whether and when it fires.      *)
(***************************************************************************)
EXTENDS Naturals, Sequences, FiniteSets

CONSTANTS
    Rules,          \* identities of rows of price_alert_rule
    Bars,           \* market bars, records [low, high]
    Levels,         \* target prices
    AiRules,        \* the rules of origin ai: one symbol, intent and semantic key
    MaxDeliver,     \* deliveries of one message; 5 in the code
    MaxStores,      \* bound: bars stored
    MaxEdits,       \* bound: edits of rules by the operator
    MaxFaults,      \* bound: failed statements, failed publishes and crashes
    NoBar

ASSUME BarAssumption == Bars \subseteq [low : Nat, high : Nat]
ASSUME LevelAssumption == Levels \subseteq Nat \ {0}
ASSUME DeliverAssumption == MaxDeliver \in Nat \ {0}
ASSUME BoundAssumption == {MaxStores, MaxEdits, MaxFaults} \subseteq Nat
ASSUME AiAssumption == AiRules \subseteq Rules
ASSUME NoBarAssumption == NoBar \notin Bars
ASSUME RuleAssumption == IsFiniteSet(Rules) /\ "none" \notin Rules

VARIABLES
    rule,      \* price_alert_rule
    receipt,   \* price_alert_event, at most one per rule
    told,      \* per rule, which of the three notices went out
    latest,    \* the newest stored bar of each interval
    stream,    \* per bar, the deliveries its message has left; 0 is no message
    call,      \* the two calls of trigger_symbol_rules in progress
    round,     \* what is left of the loop's round
    stores,
    edits,
    faults

alertVars == <<rule, receipt, told, latest, stream, call, round, stores, edits,
              faults>>

Callers == {"consumer", "sweep"}
Intervals == {"1D", "1m"}
Notices == <<"alert", "card", "published">>
Statuses == {"active", "triggered", "disabled", "expired"}
Directions == {"above", "below"}
Targets == [direction : Directions, level : Levels]

RuleRows == [status : Statuses, target : Targets,
             expiry : {"never", "later", "past"}]

NoRule == [status |-> "absent"]
NoReceipt == [target |-> "none"]
Receipts == [target : Targets, bar : Bars]

\* A call works on the copies of the rules it read; `emitting` is the rule
\* whose notices it is sending and `sent` how many of them are out.
IdleCall == [bar |-> NoBar]
Calls == [bar : Bars, todo : SUBSET (Rules \X Targets),
          emitting : Rules \union {"none"}, sent : 0..3]

\* The loop is at rest, generates rules, or has these intervals left to sweep.
Rounds == {<<"rest">>, <<"generate">>, <<"sweep", "1D", "1m">>, <<"sweep", "1m">>,
           <<"sweep">>}

AlertTypeOK ==
    /\ rule \in [Rules -> RuleRows \union {NoRule}]
    /\ receipt \in [Rules -> Receipts \union {NoReceipt}]
    /\ told \in [Rules -> SUBSET {"alert", "card", "published"}]
    /\ latest \in [Intervals -> Bars \union {NoBar}]
    /\ stream \in [Bars -> 0..MaxDeliver]
    /\ call \in [Callers -> Calls \union {IdleCall}]
    /\ round \in Rounds
    /\ stores \in 0..MaxStores
    /\ edits \in 0..MaxEdits
    /\ faults \in 0..MaxFaults

AlertInit ==
    /\ rule = [r \in Rules |-> NoRule]
    /\ receipt = [r \in Rules |-> NoReceipt]
    /\ told = [r \in Rules |-> {}]
    /\ latest = [i \in Intervals |-> NoBar]
    /\ stream = [b \in Bars |-> 0]
    /\ call = [c \in Callers |-> IdleCall]
    /\ round = <<"rest">>
    /\ stores = 0
    /\ edits = 0
    /\ faults = 0

-----------------------------------------------------------------------------
Created(r) == rule[r].status # "absent"
Armed(r) == rule[r].status = "active" /\ rule[r].expiry # "past"

\* rule_crossed
Crosses(target, bar) ==
    IF target.direction = "above" THEN bar.high >= target.level
    ELSE bar.low <= target.level

Idle(c) == call[c].bar = NoBar

\* The unique index on the semantic key of active AI rules.
KeyIsFree(r) ==
    r \in AiRules =>
        \A q \in AiRules \ {r} : rule[q].status # "active"

Fault == faults < MaxFaults /\ faults' = faults + 1

-----------------------------------------------------------------------------
(***************************************************************************)
(* The operator's routes.                                                  *)
(***************************************************************************)
\* create_price_alert_rule: ON CONFLICT DO NOTHING answers 409.  The body names
\* the origin, so an operator may also create a rule with a key.
CreateRule(r, target, expiry) ==
    /\ ~Created(r)
    /\ KeyIsFree(r)
    /\ rule' = [rule EXCEPT ![r] =
           [status |-> "active", target |-> target, expiry |-> expiry]]
    /\ UNCHANGED <<receipt, told, latest, stream, call, round, stores, edits, faults>>

\* update_price_alert_rule: any field of any rule, whatever its status, one
\* at a time here; the index refuses a second active rule of one key.
PatchRule(r, row) ==
    /\ Created(r)
    /\ row # rule[r]
    /\ \E field \in {"status", "target", "expiry"} :
           \A other \in {"status", "target", "expiry"} \ {field} :
               row[other] = rule[r][other]
    /\ row.status = "active" => KeyIsFree(r)
    /\ edits < MaxEdits
    /\ edits' = edits + 1
    /\ rule' = [rule EXCEPT ![r] = row]
    /\ UNCHANGED <<receipt, told, latest, stream, call, round, stores, faults>>

\* disable_price_alert_rule is a patch of the status alone.
DisableRule(r) == Created(r) /\ PatchRule(r, [rule[r] EXCEPT !.status = "disabled"])

\* The expiry of a rule is reached.
ExpiryPasses(r) ==
    /\ Created(r)
    /\ rule[r].expiry = "later"
    /\ rule' = [rule EXCEPT ![r].expiry = "past"]
    /\ UNCHANGED <<receipt, told, latest, stream, call, round, stores, edits, faults>>

-----------------------------------------------------------------------------
(***************************************************************************)
(* The loop: expire, generate, sweep, sleep.  Each part is best effort.    *)
(***************************************************************************)
ExpireRules ==
    /\ round = <<"rest">>
    /\ rule' = [r \in Rules |->
           IF rule[r].status = "active" /\ rule[r].expiry = "past"
           THEN [rule[r] EXCEPT !.status = "expired"] ELSE rule[r]]
    /\ round' = <<"generate">>
    /\ UNCHANGED <<receipt, told, latest, stream, call, stores, edits, faults>>

\* create_price_alert_rule for one rule of candidate_ai_rules: ON CONFLICT DO
\* NOTHING keeps a key that is active, and only that one.
GenerateRule(r, target) ==
    /\ round = <<"generate">>
    /\ r \in AiRules
    /\ ~Created(r)
    /\ KeyIsFree(r)
    /\ rule' = [rule EXCEPT ![r] =
           [status |-> "active", target |-> target, expiry |-> "later"]]
    /\ UNCHANGED <<receipt, told, latest, stream, call, round, stores, edits, faults>>

StartDailySweep ==   \* deliberate error: the sweep reads daily bars alone
    /\ round = <<"generate">>
    /\ round' = <<"sweep", "1D">>
    /\ UNCHANGED <<rule, receipt, told, latest, stream, call, stores, edits, faults>>

StartSweep ==
    /\ round = <<"generate">>
    /\ round' = <<"sweep", "1D", "1m">>
    /\ UNCHANGED <<rule, receipt, told, latest, stream, call, stores, edits, faults>>

RestOfRound == IF Len(round) = 3 THEN <<"sweep", round[3]>> ELSE <<"sweep">>

\* The sweep moves on to an interval without a stored bar, or ends.
SkipInterval ==
    /\ Idle("sweep")
    /\ Len(round) > 1
    /\ latest[round[2]] = NoBar
    /\ round' = RestOfRound
    /\ UNCHANGED <<rule, receipt, told, latest, stream, call, stores, edits, faults>>

EndSweep ==
    /\ Idle("sweep")
    /\ round = <<"sweep">>
    /\ round' = <<"rest">>
    /\ UNCHANGED <<rule, receipt, told, latest, stream, call, stores, edits, faults>>

-----------------------------------------------------------------------------
(***************************************************************************)
(* trigger_symbol_rules                                                    *)
(***************************************************************************)
\* active_price_alert_rules_for_symbol, and the rules of it the bar crosses.
ReadRules(bar) ==
    [bar |-> bar, emitting |-> "none", sent |-> 0,
     todo |-> {<<r, rule[r].target>> :
                   r \in {q \in Rules : Armed(q) /\ Crosses(rule[q].target, bar)}}]

StartSweepCall ==
    /\ Idle("sweep")
    /\ Len(round) > 1
    /\ latest[round[2]] # NoBar
    /\ call' = [call EXCEPT !["sweep"] = ReadRules(latest[round[2]])]
    /\ round' = RestOfRound
    /\ UNCHANGED <<rule, receipt, told, latest, stream, stores, edits, faults>>

\* Bus::consume delivers a message to the handler.
Deliver(bar) ==
    /\ Idle("consumer")
    /\ stream[bar] > 0
    /\ stream' = [stream EXCEPT ![bar] = @ - 1]
    /\ call' = [call EXCEPT !["consumer"] = ReadRules(bar)]
    /\ UNCHANGED <<rule, receipt, told, latest, round, stores, edits, faults>>

\* A caller goes on with its bar.
Proceed(c, todo, emitting, sent) ==
    call' = [call EXCEPT ![c] =
        [bar |-> @.bar, todo |-> todo, emitting |-> emitting, sent |-> sent]]

\* trigger_price_alert_rule: one transaction.  The row is checked again, its
\* target is not; a rule with a receipt gets no second one and no notice.
Trigger(c, r, target) ==
    /\ ~Idle(c)
    /\ call[c].emitting = "none"
    /\ <<r, target>> \in call[c].todo
    /\ IF Armed(r)
       THEN /\ rule' = [rule EXCEPT ![r].status = "triggered"]
            /\ receipt' = [receipt EXCEPT ![r] =
                   IF @ = NoReceipt THEN [target |-> target, bar |-> call[c].bar]
                   ELSE @]
       ELSE UNCHANGED <<rule, receipt>>
    /\ Proceed(c, call[c].todo \ {<<r, target>>},
               IF Armed(r) /\ receipt[r] = NoReceipt THEN r ELSE "none", 0)
    /\ UNCHANGED <<told, latest, stream, round, stores, edits, faults>>

EmitTwo(c) ==   \* deliberate error: the notice is not published
    /\ ~Idle(c)
    /\ call[c].emitting # "none"
    /\ told' = [told EXCEPT ![call[c].emitting] =
           @ \union {Notices[call[c].sent + 1]}]
    /\ IF call[c].sent = 1 THEN Proceed(c, call[c].todo, "none", 0)
       ELSE Proceed(c, call[c].todo, call[c].emitting, call[c].sent + 1)
    /\ UNCHANGED <<rule, receipt, latest, stream, round, stores, edits, faults>>

\* emit_trigger: insert_alert, upsert_attention, publish.
Emit(c) ==
    /\ ~Idle(c)
    /\ call[c].emitting # "none"
    /\ told' = [told EXCEPT ![call[c].emitting] =
           @ \union {Notices[call[c].sent + 1]}]
    /\ IF call[c].sent = 2 THEN Proceed(c, call[c].todo, "none", 0)
       ELSE Proceed(c, call[c].todo, call[c].emitting, call[c].sent + 1)
    /\ UNCHANGED <<rule, receipt, latest, stream, round, stores, edits, faults>>

\* The list is worked off; a consumer acknowledges its message.
FinishCall(c) ==
    /\ ~Idle(c)
    /\ call[c].emitting = "none"
    /\ call[c].todo = {}
    /\ call' = [call EXCEPT ![c] = IdleCall]
    /\ stream' = IF c = "consumer" THEN [stream EXCEPT ![call[c].bar] = 0]
                 ELSE stream
    /\ UNCHANGED <<rule, receipt, told, latest, round, stores, edits, faults>>

\* A statement or a publish fails: the rest of the call is dropped.  A message
\* is nacked and comes again while it has deliveries left; a sweep is over.
CallFails(c) ==
    /\ ~Idle(c)
    /\ Fault
    /\ call' = [call EXCEPT ![c] = IdleCall]
    /\ round' = IF c = "sweep" THEN <<"rest">> ELSE round
    /\ UNCHANGED <<rule, receipt, told, latest, stream, stores, edits>>

\* The process stops and starts: unacknowledged messages come again.
AlertProcessRestarts ==
    /\ Fault
    /\ call' = [c \in Callers |-> IdleCall]
    /\ round' = <<"rest">>
    /\ UNCHANGED <<rule, receipt, told, latest, stream, stores, edits>>

StoreBarAgain(i, bar) ==   \* deliberate error: an equal message is not deduplicated
    /\ stores < MaxStores
    /\ stores' = stores + 1
    /\ latest' = [latest EXCEPT ![i] = bar]
    /\ stream' = IF i = "1m" THEN [stream EXCEPT ![bar] = @ + MaxDeliver] ELSE stream
    /\ UNCHANGED <<rule, receipt, told, call, round, edits, faults>>

\* Ingest stores a bar, and publishes those of the live loop.
StoreBar(i, bar) ==
    /\ stores < MaxStores
    /\ stores' = stores + 1
    /\ latest' = [latest EXCEPT ![i] = bar]
    /\ stream' = IF i = "1m" THEN [stream EXCEPT ![bar] = MaxDeliver] ELSE stream
    /\ UNCHANGED <<rule, receipt, told, call, round, edits, faults>>

-----------------------------------------------------------------------------
Operator ==
    \E r \in Rules :
        \/ \E target \in Targets, expiry \in {"never", "later"} :
               CreateRule(r, target, expiry)
        \/ \E row \in RuleRows : PatchRule(r, row)
        \/ DisableRule(r)

Loop ==
    \/ ExpireRules
    \/ StartSweep
    \/ SkipInterval
    \/ EndSweep
    \/ StartSweepCall

Work(c) ==
    \/ \E r \in Rules, target \in Targets : Trigger(c, r, target)
    \/ Emit(c)
    \/ FinishCall(c)

AlertNext ==
    \/ Operator
    \/ Loop
    \/ \E r \in Rules : ExpiryPasses(r)
    \/ \E r \in AiRules, target \in Targets : GenerateRule(r, target)
    \/ \E bar \in Bars : Deliver(bar)
    \/ \E c \in Callers : Work(c) \/ CallFails(c)
    \/ AlertProcessRestarts
    \/ \E i \in Intervals, bar \in Bars : StoreBar(i, bar)

AlertFairness ==
    /\ WF_alertVars(Loop)
    /\ \A c \in Callers : WF_alertVars(Work(c))

AlertSpec == AlertInit /\ [][AlertNext]_alertVars /\ AlertFairness

-----------------------------------------------------------------------------
\* A receipt whose notices did not all go out and that nobody is sending.
Silent(r) ==
    /\ receipt[r] # NoReceipt
    /\ told[r] # {"alert", "card", "published"}
    /\ \A c \in Callers : Idle(c) \/ call[c].emitting # r

\* The receipt shows a target its own bar crossed, whatever the operator made
\* of the rule while the caller held an older copy.
ReceiptIsExplained ==
    \A r \in Rules :
        receipt[r] # NoReceipt => Crosses(receipt[r].target, receipt[r].bar)

\* A trigger nobody hears of takes a failed statement, a failed publish or a
\* restart: each loses at most the notice each caller was sending.
SilenceNeedsFault ==
    Cardinality({r \in Rules : Silent(r)}) <= 2 * faults

\* What a receipt says is true, and it does not pass in silence.
ReceiptsAreSound == ReceiptIsExplained /\ SilenceNeedsFault

\* "Trigger events are append-only": neither a second caller nor a re-armed
\* rule replaces a receipt.
ReceiptsAreFinal ==
    [][\A r \in Rules : receipt[r] # NoReceipt => receipt'[r] = receipt[r]]_alertVars

\* A rule that a stored bar crosses does not stay armed: the sweep finds what
\* the consumer lost.
CrossedRulesFire ==
    \A r \in Rules, i \in Intervals :
        Armed(r) /\ latest[i] # NoBar /\ Crosses(rule[r].target, latest[i])
            ~> ~(Armed(r) /\ latest[i] # NoBar
                   /\ Crosses(rule[r].target, latest[i]))
=============================================================================
