------------------------------ MODULE Feed_proofs ------------------------------
(***************************************************************************)
(* Proofs about the price alerts and about the source tasks, for any       *)
(* number of rules, bars, symbols and loops and any bounds.                *)
(*                                                                         *)
(* Alerts: that a notice is lost only by a fault needs what a caller knows *)
(* of the receipt it is telling of (Telling) and that no two callers tell  *)
(* of one receipt (OneTeller); that a receipt shows a target its bar       *)
(* crossed needs the same of the copies a caller works through.            *)
(***************************************************************************)
EXTENDS MarketFeed, FiniteSetTheorems, TLAPS

Telling ==
    \A c \in Callers :
        ~Idle(c) /\ call[c].emitting # "none" =>
            /\ receipt[call[c].emitting] # NoReceipt
            /\ call[c].sent \in 0..2
            /\ call[c].sent >= 1 => "alert" \in told[call[c].emitting]
            /\ call[c].sent >= 2 => "card" \in told[call[c].emitting]
FreshTelling ==
    \A c \in Callers : ~Idle(c) /\ call[c].emitting = "none" => call[c].sent = 0
OneTeller ==
    \A c, d \in Callers :
        c # d /\ ~Idle(c) /\ ~Idle(d) /\ call[c].emitting # "none"
            => call[c].emitting # call[d].emitting
CopiesAreCrossed ==
    \A c \in Callers :
        ~Idle(c) => \A x \in call[c].todo : Crosses(x[2], call[c].bar)

AlertInv ==
    /\ AlertTypeOK
    /\ Telling
    /\ FreshTelling
    /\ OneTeller
    /\ CopiesAreCrossed
    /\ ReceiptIsExplained

(***************************************************************************)
(* Types                                                                   *)
(***************************************************************************)
LEMMA AlertBounds ==
    MaxStores \in Nat /\ MaxEdits \in Nat /\ MaxFaults \in Nat /\ MaxDeliver \in Nat
BY BoundAssumption, DeliverAssumption

LEMMA NoRuleIsNoRow == NoRule \notin RuleRows /\ NoReceipt \notin Receipts
<1>1. NoRule \notin RuleRows
  BY DEF NoRule, RuleRows
<1>2. NoReceipt \notin Receipts
  BY DEF NoReceipt, Receipts
<1> QED
  BY <1>1, <1>2

LEMMA IdleIsIdle ==
    ASSUME AlertTypeOK, NEW c \in Callers
    PROVE  /\ Idle(c) <=> call[c] = IdleCall
           /\ ~Idle(c) => call[c] \in Calls
BY NoBarAssumption DEF AlertTypeOK, Idle, IdleCall, Calls

LEMMA ReadRulesType ==
    ASSUME AlertTypeOK, NEW bar \in Bars
    PROVE  /\ ReadRules(bar) \in Calls
           /\ ReadRules(bar).bar = bar /\ ReadRules(bar).bar # NoBar
           /\ ReadRules(bar).emitting = "none" /\ ReadRules(bar).sent = 0
           /\ \A x \in ReadRules(bar).todo : Crosses(x[2], bar)
<1> DEFINE found == {<<r, rule[r].target>> :
                       r \in {q \in Rules : Armed(q) /\ Crosses(rule[q].target, bar)}}
<1>1. ASSUME NEW r \in Rules, Armed(r) PROVE rule[r].target \in Targets
  BY <1>1 DEF AlertTypeOK, Armed, NoRule, RuleRows
<1>2. found \in SUBSET (Rules \X Targets)
  BY <1>1
<1>3. \A x \in found : Crosses(x[2], bar)
  OBVIOUS
<1>4. ReadRules(bar) = [bar |-> bar, emitting |-> "none", sent |-> 0, todo |-> found]
  BY DEF ReadRules
<1> HIDE DEF found
<1> QED
  BY <1>2, <1>3, <1>4, NoBarAssumption DEF Calls
LEMMA CallBecomes ==
    ASSUME AlertTypeOK, NEW c \in Callers, NEW k \in Calls \union {IdleCall},
           call' = [call EXCEPT ![c] = k]
    PROVE  /\ call' \in [Callers -> Calls \union {IdleCall}]
           /\ call'[c] = k
           /\ \A d \in Callers : d # c => call'[d] = call[d]
BY DEF AlertTypeOK

LEMMA AlertInitInv == AlertInit => AlertInv
<1> SUFFICES ASSUME AlertInit PROVE AlertInv
  OBVIOUS
<1>1. AlertTypeOK
  <2>1. /\ rule \in [Rules -> RuleRows \union {NoRule}]
        /\ receipt \in [Rules -> Receipts \union {NoReceipt}]
        /\ told \in [Rules -> SUBSET {"alert", "card", "published"}]
        /\ latest \in [Intervals -> Bars \union {NoBar}]
        /\ call \in [Callers -> Calls \union {IdleCall}]
        /\ round \in Rounds
    BY DEF AlertInit, Rounds
  <2>2. stream \in [Bars -> 0..MaxDeliver]
    BY AlertBounds DEF AlertInit
  <2>3. stores \in 0..MaxStores /\ edits \in 0..MaxEdits /\ faults \in 0..MaxFaults
    BY AlertBounds DEF AlertInit
  <2> QED
    BY <2>1, <2>2, <2>3 DEF AlertTypeOK
<1>2. \A c \in Callers : Idle(c)
  BY DEF AlertInit, Idle, IdleCall
<1>3. Telling /\ FreshTelling /\ OneTeller /\ CopiesAreCrossed
  BY <1>2 DEF Telling, FreshTelling, OneTeller, CopiesAreCrossed
<1>4. ReceiptIsExplained
  BY DEF AlertInit, ReceiptIsExplained
<1> QED
  BY <1>1, <1>3, <1>4 DEF AlertInv

(***************************************************************************)
(* Steps that leave the calls, the receipts and the notices alone          *)
(***************************************************************************)
LEMMA AlertFrame ==
    ASSUME AlertInv, AlertTypeOK', UNCHANGED <<receipt, told, call>>
    PROVE  AlertInv'
<1>1. Telling'
  BY DEF AlertInv, Telling, Idle
<1>2. FreshTelling'
  BY DEF AlertInv, FreshTelling, Idle
<1>3. OneTeller'
  BY DEF AlertInv, OneTeller, Idle
<1>4. CopiesAreCrossed'
  BY DEF AlertInv, CopiesAreCrossed, Idle, Crosses
<1>5. ReceiptIsExplained'
  BY DEF AlertInv, ReceiptIsExplained, Crosses
<1> QED
  BY <1>1, <1>2, <1>3, <1>4, <1>5 DEF AlertInv

LEMMA RuleStep ==
    ASSUME AlertInv, rule' \in [Rules -> RuleRows \union {NoRule}],
           round' \in Rounds, edits' \in 0..MaxEdits,
           UNCHANGED <<receipt, told, latest, stream, call, stores, faults>>
    PROVE  AlertInv'
<1>1. AlertTypeOK'
  BY DEF AlertInv, AlertTypeOK
<1> QED
  BY <1>1, AlertFrame

LEMMA OperatorInv ==
    ASSUME AlertInv, Operator PROVE AlertInv'
<1> USE DEF AlertInv
<1>1. edits \in 0..MaxEdits /\ round \in Rounds
      /\ rule \in [Rules -> RuleRows \union {NoRule}]
  BY DEF AlertTypeOK
<1>2. ASSUME NEW r \in Rules, NEW row \in RuleRows, PatchRule(r, row) PROVE AlertInv'
  <2>1. edits' \in 0..MaxEdits
    BY <1>1, <1>2, AlertBounds DEF PatchRule
  <2>2. rule' \in [Rules -> RuleRows \union {NoRule}]
    BY <1>1, <1>2 DEF PatchRule
  <2> QED
    BY <1>1, <1>2, <2>1, <2>2, RuleStep DEF PatchRule
<1>3. ASSUME NEW r \in Rules, NEW target \in Targets, NEW expiry \in {"never", "later"},
             CreateRule(r, target, expiry)
      PROVE  AlertInv'
  <2>1. [status |-> "active", target |-> target, expiry |-> expiry] \in RuleRows
    BY DEF RuleRows, Statuses
  <2>2. rule' \in [Rules -> RuleRows \union {NoRule}]
    BY <1>1, <1>3, <2>1 DEF CreateRule
  <2> QED
    BY <1>1, <1>3, <2>2, RuleStep DEF CreateRule
<1>4. ASSUME NEW r \in Rules, DisableRule(r) PROVE AlertInv'
  <2>1. rule[r] \in RuleRows
    BY <1>1, <1>4 DEF DisableRule, Created, NoRule
  <2>2. [rule[r] EXCEPT !.status = "disabled"] \in RuleRows
    BY <2>1 DEF RuleRows, Statuses
  <2> QED
    BY <1>2, <1>4, <2>2 DEF DisableRule
<1> QED
  BY <1>2, <1>3, <1>4 DEF Operator

LEMMA ExpiryPassesInv ==
    ASSUME AlertInv, NEW r \in Rules, ExpiryPasses(r) PROVE AlertInv'
<1>1. rule[r] \in RuleRows /\ rule \in [Rules -> RuleRows \union {NoRule}]
      /\ edits \in 0..MaxEdits /\ round \in Rounds
  BY DEF AlertInv, AlertTypeOK, ExpiryPasses, Created, NoRule
<1>2. [rule[r] EXCEPT !.expiry = "past"] \in RuleRows
  BY <1>1 DEF RuleRows
<1>3. rule' = [rule EXCEPT ![r] = [rule[r] EXCEPT !.expiry = "past"]]
  BY DEF ExpiryPasses
<1>4. rule' \in [Rules -> RuleRows \union {NoRule}]
  BY <1>1, <1>2, <1>3
<1> QED
  BY <1>1, <1>4, RuleStep DEF ExpiryPasses

LEMMA ExpireRulesInv ==
    ASSUME AlertInv, ExpireRules PROVE AlertInv'
<1>1. rule \in [Rules -> RuleRows \union {NoRule}] /\ edits \in 0..MaxEdits
  BY DEF AlertInv, AlertTypeOK
<1>2. ASSUME NEW r \in Rules, rule[r].status = "active"
      PROVE  [rule[r] EXCEPT !.status = "expired"] \in RuleRows
  BY <1>1, <1>2 DEF RuleRows, NoRule, Statuses
<1>3. rule' \in [Rules -> RuleRows \union {NoRule}]
  BY <1>1, <1>2 DEF ExpireRules
<1>4. round' \in Rounds
  BY DEF ExpireRules, Rounds
<1> QED
  BY <1>1, <1>3, <1>4, RuleStep DEF ExpireRules

LEMMA GenerateRuleInv ==
    ASSUME AlertInv, NEW r \in AiRules, NEW target \in Targets, GenerateRule(r, target)
    PROVE  AlertInv'
<1>1. rule \in [Rules -> RuleRows \union {NoRule}] /\ edits \in 0..MaxEdits
      /\ round \in Rounds
  BY DEF AlertInv, AlertTypeOK
<1>2. [status |-> "active", target |-> target, expiry |-> "later"] \in RuleRows
  BY DEF RuleRows, Statuses
<1>3. rule' \in [Rules -> RuleRows \union {NoRule}]
  BY <1>1, <1>2, AiAssumption DEF GenerateRule
<1> QED
  BY <1>1, <1>3, RuleStep DEF GenerateRule

\* What is left of a sweep.
LEMMA RoundShrinks ==
    ASSUME round \in Rounds, Len(round) > 1
    PROVE  RestOfRound \in Rounds /\ round[2] \in Intervals
<1>1. round \in {<<"sweep", "1D", "1m">>, <<"sweep", "1m">>}
  BY DEF Rounds
<1> QED
  BY <1>1 DEF Rounds, RestOfRound, Intervals

LEMMA RoundInv ==
    ASSUME AlertInv, StartSweep \/ SkipInterval \/ EndSweep PROVE AlertInv'
<1>1. round \in Rounds /\ rule \in [Rules -> RuleRows \union {NoRule}]
      /\ edits \in 0..MaxEdits
  BY DEF AlertInv, AlertTypeOK
<1>2. CASE StartSweep
  <2>1. round' \in Rounds
    BY <1>2 DEF StartSweep, Rounds
  <2> QED
    BY <1>1, <1>2, <2>1, RuleStep DEF StartSweep
<1>3. CASE SkipInterval
  <2>1. round' \in Rounds
    BY <1>1, <1>3, RoundShrinks DEF SkipInterval
  <2> QED
    BY <1>1, <1>3, <2>1, RuleStep DEF SkipInterval
<1>4. CASE EndSweep
  <2>1. round' \in Rounds
    BY <1>4 DEF EndSweep, Rounds
  <2> QED
    BY <1>1, <1>4, <2>1, RuleStep DEF EndSweep
<1> QED
  BY <1>2, <1>3, <1>4

LEMMA StoreBarInv ==
    ASSUME AlertInv, NEW i \in Intervals, NEW bar \in Bars, StoreBar(i, bar)
    PROVE  AlertInv'
<1>1. /\ stores \in 0..MaxStores /\ stores < MaxStores /\ stores' = stores + 1
      /\ latest \in [Intervals -> Bars \union {NoBar}]
      /\ stream \in [Bars -> 0..MaxDeliver]
  BY DEF AlertInv, AlertTypeOK, StoreBar
<1>2. stores' \in 0..MaxStores
  BY <1>1, AlertBounds
<1>3. latest' \in [Intervals -> Bars \union {NoBar}]
  BY <1>1 DEF StoreBar
<1>4. MaxDeliver \in 0..MaxDeliver
  BY AlertBounds
<1>5. stream' \in [Bars -> 0..MaxDeliver]
  BY <1>1, <1>4 DEF StoreBar
<1>6. AlertTypeOK'
  BY <1>2, <1>3, <1>5 DEF AlertInv, AlertTypeOK, StoreBar
<1> QED
  BY <1>6, AlertFrame DEF StoreBar
(***************************************************************************)
(* Steps of a caller                                                       *)
(***************************************************************************)
\* A caller that takes up a call, or gives up its own, tells nobody.
LEMMA QuietCallStep ==
    ASSUME AlertInv, AlertTypeOK', NEW c \in Callers, NEW k \in Calls \union {IdleCall},
           call' = [call EXCEPT ![c] = k],
           k = IdleCall \/ (k.emitting = "none" /\ k.sent = 0
                               /\ \A x \in k.todo : Crosses(x[2], k.bar)),
           UNCHANGED <<receipt, told>>
    PROVE  AlertInv'
<1> USE DEF AlertInv
<1>1. /\ call'[c] = k /\ \A d \in Callers : d # c => call'[d] = call[d]
      /\ IdleCall.bar = NoBar
  BY CallBecomes DEF IdleCall
<1>2. Telling'
  BY <1>1 DEF Telling, Idle
<1>3. FreshTelling'
  BY <1>1 DEF FreshTelling, Idle
<1>4. OneTeller'
  <2> SUFFICES ASSUME NEW d \in Callers, NEW e \in Callers, d # e, ~Idle(d)', ~Idle(e)',
                      call'[d].emitting # "none"
               PROVE  call'[d].emitting # call'[e].emitting
    BY DEF OneTeller
  <2>1. d # c
    BY <1>1 DEF Idle
  <2>2. CASE e = c
    BY <1>1, <2>1, <2>2 DEF Idle
  <2>3. CASE e # c
    BY <1>1, <2>1, <2>3 DEF Idle, OneTeller
  <2> QED
    BY <2>2, <2>3
<1>5. CopiesAreCrossed'
  BY <1>1 DEF CopiesAreCrossed, Idle, Crosses
<1>6. ReceiptIsExplained'
  BY DEF ReceiptIsExplained, Crosses
<1> QED
  BY <1>2, <1>3, <1>4, <1>5, <1>6

LEMMA StartSweepCallInv ==
    ASSUME AlertInv, StartSweepCall PROVE AlertInv'
<1>1. round \in Rounds /\ Len(round) > 1 /\ AlertTypeOK
  BY DEF AlertInv, AlertTypeOK, StartSweepCall
<1>2. round' \in Rounds /\ round[2] \in Intervals
  BY <1>1, RoundShrinks DEF StartSweepCall
<1>3. latest[round[2]] \in Bars
  BY <1>1, <1>2 DEF AlertTypeOK, StartSweepCall
<1> DEFINE k == ReadRules(latest[round[2]])
<1>4. /\ k \in Calls /\ k.emitting = "none" /\ k.sent = 0
      /\ \A x \in k.todo : Crosses(x[2], k.bar)
  BY <1>1, <1>3, ReadRulesType
<1>5. call' = [call EXCEPT !["sweep"] = k] /\ "sweep" \in Callers
  BY DEF StartSweepCall, Callers
<1> HIDE DEF k
<1>6. AlertTypeOK'
  <2>1. call' \in [Callers -> Calls \union {IdleCall}]
    BY <1>1, <1>4, <1>5, CallBecomes
  <2> QED
    BY <1>1, <1>2, <2>1 DEF AlertTypeOK, StartSweepCall
<1> QED
  BY <1>4, <1>5, <1>6, QuietCallStep DEF StartSweepCall

LEMMA DeliverInv ==
    ASSUME AlertInv, NEW bar \in Bars, Deliver(bar) PROVE AlertInv'
<1>1. AlertTypeOK /\ stream[bar] \in 0..MaxDeliver /\ stream[bar] > 0
  BY DEF AlertInv, AlertTypeOK, Deliver
<1>2. stream[bar] - 1 \in 0..MaxDeliver
  BY <1>1, AlertBounds
<1> DEFINE k == ReadRules(bar)
<1>3. /\ k \in Calls /\ k.emitting = "none" /\ k.sent = 0
      /\ \A x \in k.todo : Crosses(x[2], k.bar)
  BY <1>1, ReadRulesType
<1>4. call' = [call EXCEPT !["consumer"] = k] /\ "consumer" \in Callers
  BY DEF Deliver, Callers
<1> HIDE DEF k
<1>5. AlertTypeOK'
  <2>1. call' \in [Callers -> Calls \union {IdleCall}]
    BY <1>1, <1>3, <1>4, CallBecomes
  <2>2. stream' \in [Bars -> 0..MaxDeliver]
    BY <1>1, <1>2 DEF AlertTypeOK, Deliver
  <2> QED
    BY <1>1, <2>1, <2>2 DEF AlertTypeOK, Deliver
<1> QED
  BY <1>3, <1>4, <1>5, QuietCallStep DEF Deliver

LEMMA FinishCallInv ==
    ASSUME AlertInv, NEW c \in Callers, FinishCall(c) PROVE AlertInv'
<1>1. AlertTypeOK /\ call[c] \in Calls
  BY IdleIsIdle DEF AlertInv, FinishCall
<1>2. call' = [call EXCEPT ![c] = IdleCall]
  BY DEF FinishCall
<1>3. AlertTypeOK'
  <2>1. call' \in [Callers -> Calls \union {IdleCall}]
    BY <1>1, <1>2, CallBecomes
  <2>2. 0 \in 0..MaxDeliver
    BY AlertBounds
  <2>3. stream' \in [Bars -> 0..MaxDeliver]
    BY <1>1, <2>2 DEF AlertTypeOK, FinishCall, Calls
  <2> QED
    BY <1>1, <2>1, <2>3 DEF AlertTypeOK, FinishCall
<1> QED
  BY <1>2, <1>3, QuietCallStep DEF FinishCall

LEMMA FaultCounts ==
    ASSUME AlertInv, Fault PROVE faults' \in 0..MaxFaults /\ faults' = faults + 1
BY AlertBounds DEF AlertInv, AlertTypeOK, Fault

LEMMA CallFailsInv ==
    ASSUME AlertInv, NEW c \in Callers, CallFails(c) PROVE AlertInv'
<1>1. AlertTypeOK /\ faults' \in 0..MaxFaults /\ call' = [call EXCEPT ![c] = IdleCall]
  BY FaultCounts DEF AlertInv, CallFails
<1>2. AlertTypeOK'
  <2>1. call' \in [Callers -> Calls \union {IdleCall}]
    BY <1>1, CallBecomes
  <2>2. round' \in Rounds
    BY <1>1 DEF AlertTypeOK, CallFails, Rounds
  <2> QED
    BY <1>1, <2>1, <2>2 DEF AlertTypeOK, CallFails
<1> QED
  BY <1>1, <1>2, QuietCallStep DEF CallFails

LEMMA AlertProcessRestartsInv ==
    ASSUME AlertInv, AlertProcessRestarts PROVE AlertInv'
<1>1. AlertTypeOK /\ faults' \in 0..MaxFaults
  BY FaultCounts DEF AlertInv, AlertProcessRestarts
<1>2. AlertTypeOK'
  <2>1. call' \in [Callers -> Calls \union {IdleCall}] /\ round' \in Rounds
    BY DEF AlertProcessRestarts, Rounds
  <2> QED
    BY <1>1, <2>1 DEF AlertTypeOK, AlertProcessRestarts
<1>3. \A c \in Callers : Idle(c)'
  BY DEF AlertProcessRestarts, Idle, IdleCall
<1>4. ReceiptIsExplained'
  BY DEF AlertInv, AlertProcessRestarts, ReceiptIsExplained, Crosses
<1> QED
  BY <1>2, <1>3, <1>4 DEF AlertInv, Telling, FreshTelling, OneTeller, CopiesAreCrossed

LEMMA TriggerInv ==
    ASSUME AlertInv, NEW c \in Callers, NEW r \in Rules, NEW target \in Targets,
           Trigger(c, r, target)
    PROVE  AlertInv'
<1> USE DEF AlertInv
<1>1. PICK b \in Bars, todo \in SUBSET (Rules \X Targets) :
          /\ call[c] = [bar |-> b, todo |-> todo, emitting |-> "none", sent |-> 0]
          /\ <<r, target>> \in todo /\ Crosses(target, b) /\ b # NoBar
  <2>1. call[c] \in Calls /\ call[c].emitting = "none" /\ call[c].sent = 0
        /\ <<r, target>> \in call[c].todo
    BY IdleIsIdle DEF Trigger, FreshTelling
  <2>2. call[c].bar \in Bars /\ call[c].todo \in SUBSET (Rules \X Targets)
    BY <2>1 DEF Calls
  <2>3. Crosses(target, call[c].bar)
    BY <2>1 DEF Trigger, CopiesAreCrossed
  <2>4. call[c] = [bar |-> call[c].bar, todo |-> call[c].todo, emitting |-> "none",
                   sent |-> 0]
    BY <2>1 DEF Calls
  <2> QED
    BY <2>1, <2>2, <2>3, <2>4, NoBarAssumption
<1> DEFINE new == Armed(r) /\ receipt[r] = NoReceipt
           e == IF new THEN r ELSE "none"
           k == [bar |-> b, todo |-> todo \ {<<r, target>>}, emitting |-> e, sent |-> 0]
           made == [target |-> target, bar |-> b]
<1>2. /\ k \in Calls /\ k.bar = b /\ k.emitting = e /\ k.sent = 0
      /\ k.todo = todo \ {<<r, target>>}
  BY DEF Calls
<1>3. call' = [call EXCEPT ![c] = k]
  <2>1. call' = [call EXCEPT ![c] =
            [bar |-> call[c].bar, todo |-> call[c].todo \ {<<r, target>>},
             emitting |-> e, sent |-> 0]]
    BY DEF Trigger, Proceed
  <2>2. call[c].bar = b /\ call[c].todo = todo
    BY <1>1
  <2> QED
    BY <2>1, <2>2
<1>4. made \in Receipts /\ made # NoReceipt /\ made.target = target /\ made.bar = b
  <2>1. made \in Receipts
    BY DEF Receipts
  <2> QED
    BY <2>1, NoRuleIsNoRow
<1>5. receipt' = IF new THEN [receipt EXCEPT ![r] = made] ELSE receipt
  <2>1. receipt \in [Rules -> Receipts \union {NoReceipt}]
    BY DEF AlertTypeOK
  <2> QED
    BY <1>1, <2>1 DEF Trigger
<1> HIDE DEF k, made
<1>6. /\ receipt \in [Rules -> Receipts \union {NoReceipt}]
      /\ receipt' \in [Rules -> Receipts \union {NoReceipt}]
      /\ \A q \in Rules : receipt[q] # NoReceipt => receipt'[q] = receipt[q]
      /\ \A q \in Rules : q # r => receipt'[q] = receipt[q]
      /\ new => receipt'[r] = made
      /\ ~new => receipt' = receipt
  BY <1>4, <1>5 DEF AlertTypeOK
<1>7. AlertTypeOK'
  <2>1. call' \in [Callers -> Calls \union {IdleCall}]
    BY <1>2, <1>3, CallBecomes
  <2>2. Armed(r) => [rule[r] EXCEPT !.status = "triggered"] \in RuleRows
    BY DEF AlertTypeOK, Armed, RuleRows, NoRule, Statuses
  <2>3. rule' = IF Armed(r)
                THEN [rule EXCEPT ![r] = [rule[r] EXCEPT !.status = "triggered"]]
                ELSE rule
    BY DEF Trigger, AlertTypeOK
  <2>4. rule' \in [Rules -> RuleRows \union {NoRule}]
    BY <2>2, <2>3 DEF AlertTypeOK
  <2> QED
    BY <1>6, <2>1, <2>4 DEF AlertTypeOK, Trigger
<1>8. /\ call'[c] = k /\ \A d \in Callers : d # c => call'[d] = call[d]
      /\ told' = told
  BY <1>2, <1>3, CallBecomes DEF Trigger
<1>9. e # "none" => e = r /\ new
  OBVIOUS
<1>10. \A d \in Callers :
          d # c /\ ~Idle(d) /\ call[d].emitting # "none" =>
              call[d].emitting \in Rules /\ receipt[call[d].emitting] # NoReceipt
  BY IdleIsIdle DEF Telling, Calls
<1> HIDE DEF e, new
<1>11. Telling'
  <2> SUFFICES ASSUME NEW d \in Callers, ~Idle(d)', call'[d].emitting # "none"
               PROVE  /\ receipt'[call'[d].emitting] # NoReceipt
                      /\ call'[d].sent \in 0..2
                      /\ call'[d].sent >= 1 => "alert" \in told[call'[d].emitting]
                      /\ call'[d].sent >= 2 => "card" \in told[call'[d].emitting]
    BY <1>8 DEF Telling
  <2>1. CASE d = c
    BY <1>2, <1>4, <1>6, <1>8, <1>9, <2>1
  <2>2. CASE d # c
    BY <1>6, <1>8, <1>10, <2>2 DEF Telling, Idle
  <2> QED
    BY <2>1, <2>2
<1>12. FreshTelling'
  BY <1>2, <1>8 DEF FreshTelling, Idle
<1>13. OneTeller'
  <2> SUFFICES ASSUME NEW d \in Callers, NEW f \in Callers, d # f, ~Idle(d)', ~Idle(f)',
                      call'[d].emitting # "none"
               PROVE  call'[d].emitting # call'[f].emitting
    BY DEF OneTeller
  <2>1. CASE d # c /\ f # c
    BY <1>8, <2>1 DEF OneTeller, Idle
  <2>2. CASE d = c
    <3>1. new /\ call'[d].emitting = r /\ call'[f] = call[f]
      BY <1>2, <1>8, <1>9, <2>2
    <3>2. receipt[r] = NoReceipt
      BY <3>1 DEF new
    <3>3. r # "none"
      BY RuleAssumption
    <3> QED
      BY <1>10, <2>2, <3>1, <3>2, <3>3 DEF Idle
  <2>3. CASE f = c
    <3>1. call'[f].emitting = e /\ call'[d] = call[d] /\ d # c
      BY <1>2, <1>8, <2>3
    <3>2. new => receipt[r] = NoReceipt
      BY DEF new
    <3> QED
      BY <1>9, <1>10, <3>1, <3>2 DEF Idle
  <2> QED
    BY <2>1, <2>2, <2>3
<1>14. CopiesAreCrossed'
  <2> SUFFICES ASSUME NEW d \in Callers, ~Idle(d)', NEW x \in call'[d].todo
               PROVE  Crosses(x[2], call'[d].bar)
    BY DEF CopiesAreCrossed, Crosses
  <2>1. CASE d = c
    <3>1. x \in call[c].todo /\ call'[d].bar = call[c].bar /\ ~Idle(c)
      BY <1>1, <1>2, <1>8, <2>1 DEF Idle
    <3> QED
      BY <3>1 DEF CopiesAreCrossed
  <2>2. CASE d # c
    BY <1>8, <2>2 DEF CopiesAreCrossed, Idle
  <2> QED
    BY <2>1, <2>2
<1>15. ReceiptIsExplained'
  <2> SUFFICES ASSUME NEW q \in Rules, receipt'[q] # NoReceipt
               PROVE  Crosses(receipt'[q].target, receipt'[q].bar)
    BY DEF ReceiptIsExplained, Crosses
  <2>1. CASE q = r /\ new
    BY <1>1, <1>4, <1>6, <2>1
  <2>2. CASE ~(q = r /\ new)
    BY <1>6, <2>2 DEF ReceiptIsExplained
  <2> QED
    BY <2>1, <2>2
<1> QED
  BY <1>7, <1>11, <1>12, <1>13, <1>14, <1>15

LEMMA EmitInv ==
    ASSUME AlertInv, NEW c \in Callers, Emit(c) PROVE AlertInv'
<1> USE DEF AlertInv
<1> DEFINE q == call[c].emitting
           last == call[c].sent = 2
           k == [bar |-> call[c].bar, todo |-> call[c].todo,
                 emitting |-> IF last THEN "none" ELSE q,
                 sent |-> IF last THEN 0 ELSE call[c].sent + 1]
<1>1. /\ call[c] \in Calls /\ ~Idle(c) /\ q # "none" /\ q \in Rules
      /\ call[c].sent \in 0..2 /\ receipt[q] # NoReceipt
      /\ call[c].sent >= 1 => "alert" \in told[q]
  BY IdleIsIdle DEF Emit, Calls, Telling
<1>2. call' = [call EXCEPT ![c] = k]
  BY DEF Emit, Proceed
<1>3. /\ k \in Calls /\ k.bar = call[c].bar /\ k.todo = call[c].todo
      /\ k.emitting = "none" => k.sent = 0
      /\ k.emitting # "none" => k.emitting = q /\ k.sent = call[c].sent + 1 /\ k.sent \in 1..2
  <2>1. (IF last THEN 0 ELSE call[c].sent + 1) \in 0..3
    BY <1>1
  <2>2. (IF last THEN "none" ELSE q) \in Rules \union {"none"}
    BY <1>1
  <2> QED
    BY <1>1, <2>1, <2>2 DEF Calls
<1> HIDE DEF k
<1>4. /\ receipt' = receipt
      /\ told' = [told EXCEPT ![q] = @ \union {Notices[call[c].sent + 1]}]
  BY DEF Emit
<1>5. /\ Notices[call[c].sent + 1] \in {"alert", "card", "published"}
      /\ call[c].sent = 0 => Notices[call[c].sent + 1] = "alert"
      /\ call[c].sent = 1 => Notices[call[c].sent + 1] = "card"
  BY <1>1 DEF Notices
<1>6. /\ told' \in [Rules -> SUBSET {"alert", "card", "published"}]
      /\ \A p \in Rules : told[p] \subseteq told'[p]
      /\ call[c].sent = 0 => "alert" \in told'[q]
      /\ call[c].sent = 1 => "card" \in told'[q]
  BY <1>1, <1>4, <1>5 DEF AlertTypeOK
<1>7. /\ call' \in [Callers -> Calls \union {IdleCall}]
      /\ call'[c] = k /\ \A d \in Callers : d # c => call'[d] = call[d]
  BY <1>2, <1>3, CallBecomes
<1>8. AlertTypeOK'
  BY <1>6, <1>7 DEF AlertTypeOK, Emit
<1>9. Telling'
  <2> SUFFICES ASSUME NEW d \in Callers, ~Idle(d)', call'[d].emitting # "none"
               PROVE  /\ receipt[call'[d].emitting] # NoReceipt
                      /\ call'[d].sent \in 0..2
                      /\ call'[d].sent >= 1 => "alert" \in told'[call'[d].emitting]
                      /\ call'[d].sent >= 2 => "card" \in told'[call'[d].emitting]
    BY <1>4 DEF Telling
  <2>1. CASE d = c
    <3>1. call'[d].emitting = q /\ call'[d].sent = call[c].sent + 1
          /\ call'[d].sent \in 1..2
      BY <1>3, <1>7, <2>1
    <3>2. call[c].sent = 0 \/ call[c].sent = 1
      BY <1>1, <3>1
    <3>3. "alert" \in told'[q]
      BY <1>1, <1>6, <3>2
    <3>4. call'[d].sent >= 2 => "card" \in told'[q]
      BY <1>1, <1>6, <3>1, <3>2
    <3> QED
      BY <1>1, <3>1, <3>3, <3>4
  <2>2. CASE d # c
    <3>1. call'[d] = call[d] /\ ~Idle(d) /\ call[d].emitting \in Rules
      BY <1>7, <2>2, IdleIsIdle DEF Idle, Calls
    <3> QED
      BY <1>6, <3>1 DEF Telling
  <2> QED
    BY <2>1, <2>2
<1>10. FreshTelling'
  BY <1>3, <1>7 DEF FreshTelling, Idle
<1>11. OneTeller'
  <2> SUFFICES ASSUME NEW d \in Callers, NEW f \in Callers, d # f, ~Idle(d)', ~Idle(f)',
                      call'[d].emitting # "none"
               PROVE  call'[d].emitting # call'[f].emitting
    BY DEF OneTeller
  <2>1. /\ ~Idle(d) /\ ~Idle(f)
        /\ call'[d].emitting = call[d].emitting
        /\ call'[f].emitting = call[f].emitting \/ call'[f].emitting = "none"
    BY <1>1, <1>3, <1>7 DEF Idle
  <2> QED
    BY <2>1 DEF OneTeller
<1>12. CopiesAreCrossed'
  BY <1>1, <1>3, <1>7 DEF CopiesAreCrossed, Crosses, Idle
<1>13. ReceiptIsExplained'
  BY <1>4 DEF ReceiptIsExplained, Crosses
<1> QED
  BY <1>8, <1>9, <1>10, <1>11, <1>12, <1>13

LEMMA AlertStutterInv ==
    ASSUME AlertInv, UNCHANGED alertVars PROVE AlertInv'
<1>1. AlertTypeOK'
  BY DEF AlertInv, AlertTypeOK, alertVars
<1> QED
  BY <1>1, AlertFrame DEF alertVars

LEMMA AlertNextInv ==
    ASSUME AlertInv, [AlertNext]_alertVars PROVE AlertInv'
<1>1. CASE Operator
  BY <1>1, OperatorInv
<1>2. CASE Loop
  BY <1>2, ExpireRulesInv, RoundInv, StartSweepCallInv DEF Loop
<1>3. CASE \E r \in Rules : ExpiryPasses(r)
  BY <1>3, ExpiryPassesInv
<1>4. CASE \E r \in AiRules, target \in Targets : GenerateRule(r, target)
  BY <1>4, GenerateRuleInv
<1>5. CASE \E bar \in Bars : Deliver(bar)
  BY <1>5, DeliverInv
<1>6. CASE \E c \in Callers : Work(c) \/ CallFails(c)
  BY <1>6, TriggerInv, EmitInv, FinishCallInv, CallFailsInv DEF Work
<1>7. CASE AlertProcessRestarts
  BY <1>7, AlertProcessRestartsInv
<1>8. CASE \E i \in Intervals, bar \in Bars : StoreBar(i, bar)
  BY <1>8, StoreBarInv
<1>9. CASE UNCHANGED alertVars
  BY <1>9, AlertStutterInv
<1> QED
  BY <1>1, <1>2, <1>3, <1>4, <1>5, <1>6, <1>7, <1>8, <1>9 DEF AlertNext

LEMMA AlertInvHolds == AlertSpec => []AlertInv
<1>1. AlertInit => AlertInv
  BY AlertInitInv
<1>2. AlertInv /\ [AlertNext]_alertVars => AlertInv'
  BY AlertNextInv
<1> QED
  BY <1>1, <1>2, PTL DEF AlertSpec

\* Every value of the alert process has its type, for any rules and bars.
THEOREM AlertTypeCorrect == AlertSpec => []AlertTypeOK
<1>1. AlertInv => AlertTypeOK
  BY DEF AlertInv
<1> QED
  BY <1>1, AlertInvHolds, PTL

\* A receipt shows a target its own bar crossed: the copy of the rule a caller
\* holds may be older than the rule, never wrong about the bar.
THEOREM ReceiptsExplained == AlertSpec => []ReceiptIsExplained
<1>1. AlertInv => ReceiptIsExplained
  BY DEF AlertInv
<1> QED
  BY <1>1, AlertInvHolds, PTL

LEMMA ReceiptsStay ==
    ASSUME [AlertNext]_alertVars, NEW r \in Rules, AlertTypeOK, receipt[r] # NoReceipt
    PROVE  receipt'[r] = receipt[r]
<1>1. CASE \E c \in Callers, q \in Rules, target \in Targets : Trigger(c, q, target)
  BY <1>1 DEF Trigger, AlertTypeOK
<1>2. CASE UNCHANGED receipt
  BY <1>2
<1>3. AlertNext => UNCHANGED receipt \/ \E c \in Callers, q \in Rules, target \in Targets :
                                           Trigger(c, q, target)
  BY DEF AlertNext, Operator, Loop, Work, CreateRule, PatchRule, DisableRule, ExpiryPasses,
         ExpireRules, GenerateRule, StartSweep, SkipInterval, EndSweep, StartSweepCall,
         Deliver, Emit, FinishCall, CallFails, AlertProcessRestarts, StoreBar
<1> QED
  BY <1>1, <1>2, <1>3 DEF alertVars

\* A trigger event, once written, is never changed.
THEOREM ReceiptsFinal == AlertSpec => ReceiptsAreFinal
<1>1. AlertInv /\ [AlertNext]_alertVars =>
          [\A r \in Rules : receipt[r] # NoReceipt => receipt'[r] = receipt[r]]_alertVars
  BY ReceiptsStay DEF AlertInv
<1> QED
  BY <1>1, AlertInvHolds, PTL DEF AlertSpec, ReceiptsAreFinal

(***************************************************************************)
(* Silence                                                                 *)
(*                                                                         *)
(* SilenceNeedsFault counts rules, so each step is shown to silence no     *)
(* rule but the ones a failing caller was telling of.                      *)
(***************************************************************************)
SilentRules == {r \in Rules : Silent(r)}

LEMMA NotSilencedByFrame ==
    ASSUME UNCHANGED <<receipt, told, call>> PROVE SilentRules' = SilentRules
BY DEF SilentRules, Silent, Idle

\* A caller that told nobody takes up another call.
LEMMA NotSilencedByQuiet ==
    ASSUME AlertInv, NEW c \in Callers, NEW k \in Calls \union {IdleCall},
           call' = [call EXCEPT ![c] = k], Idle(c) \/ call[c].emitting = "none",
           UNCHANGED <<receipt, told>>
    PROVE  SilentRules' \subseteq SilentRules
<1>1. call'[c] = k /\ \A d \in Callers : d # c => call'[d] = call[d]
  BY CallBecomes DEF AlertInv
<1> SUFFICES ASSUME NEW r \in Rules, Silent(r)' PROVE Silent(r)
  BY DEF SilentRules
<1>2. Idle(c) \/ call[c].emitting # r
  BY RuleAssumption
<1> QED
  BY <1>1, <1>2 DEF Silent, Idle

LEMMA NotSilencedByTrigger ==
    ASSUME AlertInv, NEW c \in Callers, NEW r \in Rules, NEW target \in Targets,
           Trigger(c, r, target)
    PROVE  SilentRules' \subseteq SilentRules
<1> SUFFICES ASSUME NEW q \in Rules, Silent(q)' PROVE Silent(q)
  BY DEF SilentRules
<1> DEFINE new == Armed(r) /\ receipt[r] = NoReceipt
           k == [bar |-> call[c].bar, todo |-> call[c].todo \ {<<r, target>>},
                 emitting |-> IF new THEN r ELSE "none", sent |-> 0]
<1>1. call' = [call EXCEPT ![c] = k] /\ AlertTypeOK /\ told' = told
      /\ call[c].emitting = "none" /\ ~Idle(c)
  BY DEF AlertInv, Trigger, Proceed
<1>2. k.emitting = (IF new THEN r ELSE "none") /\ k.bar = call[c].bar
  OBVIOUS
<1> HIDE DEF k
<1>3. call'[c] = k /\ \A d \in Callers : d # c => call'[d] = call[d]
  BY <1>1 DEF AlertTypeOK
<1>4. q = r => ~new
  BY <1>1, <1>2, <1>3 DEF Silent, Idle
<1>5. receipt'[q] = receipt[q]
  BY <1>1, <1>4 DEF Trigger, AlertTypeOK
<1>6. call[c].emitting # q
  BY <1>1, RuleAssumption
<1> QED
  BY <1>1, <1>3, <1>5, <1>6 DEF Silent, Idle

\* The third notice is the last: a caller is done with a rule once all are out.
LEMMA NotSilencedByEmit ==
    ASSUME AlertInv, NEW c \in Callers, Emit(c)
    PROVE  SilentRules' \subseteq SilentRules
<1> SUFFICES ASSUME NEW p \in Rules, Silent(p)' PROVE Silent(p)
  BY DEF SilentRules
<1> DEFINE q == call[c].emitting
           last == call[c].sent = 2
           k == [bar |-> call[c].bar, todo |-> call[c].todo,
                 emitting |-> IF last THEN "none" ELSE q,
                 sent |-> IF last THEN 0 ELSE call[c].sent + 1]
<1>1. /\ AlertTypeOK /\ ~Idle(c) /\ q # "none" /\ call[c] \in Calls /\ q \in Rules
      /\ call[c].sent \in 0..2
      /\ call[c].sent >= 1 => "alert" \in told[q]
      /\ call[c].sent >= 2 => "card" \in told[q]
  BY IdleIsIdle DEF Emit, AlertInv, Telling, Calls
<1>2. call' = [call EXCEPT ![c] = k]
  BY DEF Emit, Proceed
<1>3. k.bar = call[c].bar /\ (~last => k.emitting = q)
  OBVIOUS
<1> HIDE DEF k
<1>4. call'[c] = k /\ \A d \in Callers : d # c => call'[d] = call[d]
  BY <1>1, <1>2 DEF AlertTypeOK
<1>5. /\ receipt' = receipt
      /\ told' = [told EXCEPT ![q] = @ \union {Notices[call[c].sent + 1]}]
  BY DEF Emit
<1>6. CASE p = q
  <2>1. last
    BY <1>1, <1>3, <1>4, <1>6 DEF Silent, Idle
  <2>2. told'[q] = told[q] \union {"published"}
    BY <1>1, <1>5, <2>1 DEF AlertTypeOK, Notices
  <2>3. {"alert", "card"} \subseteq told[q] /\ told[q] \subseteq {"alert", "card", "published"}
    BY <1>1, <2>1 DEF AlertTypeOK
  <2>4. told'[q] = {"alert", "card", "published"}
    BY <2>2, <2>3
  <2> QED
    BY <1>6, <2>4 DEF Silent
<1>7. CASE p # q
  <2>1. told'[p] = told[p]
    BY <1>1, <1>5, <1>7 DEF AlertTypeOK
  <2> QED
    BY <1>1, <1>4, <1>5, <1>7, <2>1 DEF Silent, Idle
<1> QED
  BY <1>6, <1>7

\* A failing call silences the rule it was telling of, if any.
LEMMA CallFailsSilencesOne ==
    ASSUME AlertInv, NEW c \in Callers, CallFails(c)
    PROVE  SilentRules' \subseteq SilentRules \union {call[c].emitting}
<1>1. /\ call'[c] = IdleCall /\ \A d \in Callers : d # c => call'[d] = call[d]
      /\ receipt' = receipt /\ told' = told
  BY CallBecomes DEF AlertInv, CallFails
<1> SUFFICES ASSUME NEW r \in Rules, Silent(r)', r # call[c].emitting PROVE Silent(r)
  BY DEF SilentRules
<1> QED
  BY <1>1 DEF Silent, Idle

\* A restart those of both callers.
LEMMA RestartSilencesTwo ==
    ASSUME AlertInv, AlertProcessRestarts
    PROVE  SilentRules' \subseteq
               (SilentRules \union {call["consumer"].emitting}) \union {call["sweep"].emitting}
<1> SUFFICES ASSUME NEW r \in Rules, Silent(r)', r # call["consumer"].emitting,
                    r # call["sweep"].emitting
             PROVE  Silent(r)
  BY DEF SilentRules
<1> QED
  BY DEF Silent, AlertProcessRestarts, Callers

LEMMA OneMore ==
    ASSUME NEW S, IsFiniteSet(S), NEW x
    PROVE  /\ IsFiniteSet(S \union {x})
           /\ Cardinality(S) \in Nat /\ Cardinality(S \union {x}) \in Nat
           /\ Cardinality(S \union {x}) <= Cardinality(S) + 1
BY FS_AddElement, FS_CardinalityType

LEMMA SilenceStep ==
    ASSUME AlertInv, [AlertNext]_alertVars
    PROVE  \/ SilentRules' \subseteq SilentRules /\ faults' = faults
           \/ /\ faults' = faults + 1
              /\ \E x, y : SilentRules' \subseteq (SilentRules \union {x}) \union {y}
<1>1. CASE UNCHANGED <<receipt, told, call, faults>>
  BY <1>1, NotSilencedByFrame
<1>2. CASE StartSweepCall
  <2>1. round \in Rounds /\ Len(round) > 1 /\ AlertTypeOK
    BY <1>2 DEF AlertInv, AlertTypeOK, StartSweepCall
  <2>2. latest[round[2]] \in Bars
    BY <1>2, <2>1, RoundShrinks DEF AlertTypeOK, StartSweepCall
  <2>3. ReadRules(latest[round[2]]) \in Calls /\ "sweep" \in Callers
    BY <2>1, <2>2, ReadRulesType DEF Callers
  <2> QED
    BY <1>2, <2>3, NotSilencedByQuiet DEF StartSweepCall
<1>3. CASE \E bar \in Bars : Deliver(bar)
  <2>1. PICK bar \in Bars : Deliver(bar)
    BY <1>3
  <2>2. ReadRules(bar) \in Calls /\ "consumer" \in Callers
    BY ReadRulesType DEF AlertInv, Callers
  <2> QED
    BY <2>1, <2>2, NotSilencedByQuiet DEF Deliver
<1>4. ASSUME NEW c \in Callers, Work(c)
      PROVE  SilentRules' \subseteq SilentRules /\ faults' = faults
  <2>1. CASE \E r \in Rules, target \in Targets : Trigger(c, r, target)
    BY <2>1, NotSilencedByTrigger DEF Trigger
  <2>2. CASE Emit(c)
    BY <2>2, NotSilencedByEmit DEF Emit
  <2>3. CASE FinishCall(c)
    BY <2>3, NotSilencedByQuiet DEF FinishCall
  <2> QED
    BY <1>4, <2>1, <2>2, <2>3 DEF Work
<1>5. ASSUME NEW c \in Callers, CallFails(c)
      PROVE  /\ faults' = faults + 1
             /\ \E x, y : SilentRules' \subseteq (SilentRules \union {x}) \union {y}
  <2>1. faults' = faults + 1
    BY <1>5, FaultCounts DEF CallFails
  <2>2. SilentRules' \subseteq
            (SilentRules \union {call[c].emitting}) \union {call[c].emitting}
    BY <1>5, CallFailsSilencesOne
  <2> QED
    BY <2>1, <2>2
<1>6. CASE AlertProcessRestarts
  BY <1>6, RestartSilencesTwo, FaultCounts DEF AlertProcessRestarts
<1>7. CASE \/ Operator
           \/ Loop /\ ~StartSweepCall
           \/ \E r \in Rules : ExpiryPasses(r)
           \/ \E r \in AiRules, target \in Targets : GenerateRule(r, target)
           \/ \E i \in Intervals, bar \in Bars : StoreBar(i, bar)
           \/ UNCHANGED alertVars
  <2>1. UNCHANGED <<receipt, told, call, faults>>
    BY <1>7 DEF Operator, Loop, CreateRule, PatchRule, DisableRule, ExpiryPasses, ExpireRules,
                GenerateRule, StartSweep, SkipInterval, EndSweep, StoreBar, alertVars
  <2> QED
    BY <1>1, <2>1
<1> QED
  BY <1>2, <1>3, <1>4, <1>5, <1>6, <1>7 DEF AlertNext, Loop

SilenceInv == AlertInv /\ SilenceNeedsFault

LEMMA SilenceInvHolds == AlertSpec => []SilenceInv
<1>1. AlertInit => SilenceInv
  <2> SUFFICES ASSUME AlertInit PROVE SilenceInv
    OBVIOUS
  <2>1. AlertInv /\ faults = 0
    BY AlertInitInv DEF AlertInit
  <2>2. {r \in Rules : Silent(r)} = {}
    BY DEF AlertInit, Silent
  <2>3. Cardinality({}) = 0
    BY FS_EmptySet
  <2> QED
    BY <2>1, <2>2, <2>3 DEF SilenceInv, SilenceNeedsFault
<1>2. SilenceInv /\ [AlertNext]_alertVars => SilenceInv'
  <2> SUFFICES ASSUME SilenceInv, [AlertNext]_alertVars PROVE SilenceInv'
    OBVIOUS
  <2>1. AlertInv /\ AlertInv' /\ faults \in Nat
    BY AlertNextInv, AlertBounds DEF SilenceInv, AlertInv, AlertTypeOK
  <2>2. IsFiniteSet(SilentRules) /\ Cardinality(SilentRules) \in Nat
    BY RuleAssumption, FS_Subset, FS_CardinalityType DEF SilentRules
  <2>3. Cardinality(SilentRules) <= 2 * faults
    BY DEF SilenceInv, SilenceNeedsFault, SilentRules
  <2>4. Cardinality(SilentRules') <= 2 * faults'
    <3>1. CASE SilentRules' \subseteq SilentRules /\ faults' = faults
      <4>1. Cardinality(SilentRules') <= Cardinality(SilentRules)
            /\ Cardinality(SilentRules') \in Nat
        BY <2>2, <3>1, FS_Subset, FS_CardinalityType
      <4> QED
        BY <2>1, <2>2, <2>3, <3>1, <4>1
    <3>2. CASE /\ faults' = faults + 1
               /\ \E x, y : SilentRules' \subseteq (SilentRules \union {x}) \union {y}
      <4>1. PICK x, y : SilentRules' \subseteq (SilentRules \union {x}) \union {y}
        BY <3>2
      <4> DEFINE S1 == SilentRules \union {x}
                 S2 == S1 \union {y}
      <4>2. IsFiniteSet(S1) /\ Cardinality(S1) \in Nat
            /\ Cardinality(S1) <= Cardinality(SilentRules) + 1
        BY <2>2, OneMore
      <4> HIDE DEF S1
      <4>3. IsFiniteSet(S2) /\ Cardinality(S2) \in Nat /\ Cardinality(S2) <= Cardinality(S1) + 1
        BY <4>2, OneMore
      <4>4. SilentRules' \subseteq S2
        BY <4>1 DEF S1
      <4> HIDE DEF S2
      <4>5. Cardinality(SilentRules') <= Cardinality(S2) /\ Cardinality(SilentRules') \in Nat
        BY <4>3, <4>4, FS_Subset, FS_CardinalityType
      <4> QED
        BY <2>1, <2>2, <2>3, <3>2, <4>2, <4>3, <4>5
    <3> QED
      BY <2>1, <3>1, <3>2, SilenceStep
  <2> QED
    BY <2>1, <2>4 DEF SilenceInv, SilenceNeedsFault, SilentRules
<1> QED
  BY <1>1, <1>2, PTL DEF AlertSpec

\* However many rules there are, the triggers nobody heard of number at most
\* two for each failed statement, failed publish or restart.
THEOREM SilenceIsAccounted == AlertSpec => []SilenceNeedsFault
<1>1. SilenceInv => SilenceNeedsFault
  BY DEF SilenceInv
<1> QED
  BY <1>1, SilenceInvHolds, PTL

\* The two together: what a receipt says is true, and somebody heard of it
\* unless a fault is to blame.
THEOREM ReceiptsSound == AlertSpec => []ReceiptsAreSound
<1>1. ReceiptIsExplained /\ SilenceNeedsFault => ReceiptsAreSound
  BY DEF ReceiptsAreSound
<1> QED
  BY <1>1, ReceiptsExplained, SilenceIsAccounted, PTL

(***************************************************************************)
(* Source tasks                                                            *)
(*                                                                         *)
(* A pass that runs to its end answers every task of every symbol it       *)
(* listed, whichever loop it is of: so a claim can only be lost by a pass  *)
(* that was cut short.                                                     *)
(***************************************************************************)
LEMMA SourceBounds == Listed \in Nat /\ MaxRequests \in Nat /\ MaxErrors \in Nat
BY SourceBoundAssumption

LEMMA UniformSettles ==
    ASSUME NEW K, NEW X, NEW states \in SUBSET Settled, NEW v \in Uniform(K, X, states)
    PROVE  DOMAIN v = K \X X /\ \A t \in K \X X : v[t] \in Settled
BY DEF Uniform

LEMMA PriceSettles ==
    ASSUME NEW X, NEW v \in PriceVerdicts(X)
    PROVE  DOMAIN v = Serves.fmp_price \X X
           /\ \A t \in Serves.fmp_price \X X : v[t] \in Settled
<1> DEFINE K == Serves.fmp_price
           Batch == [K \X X -> Answers] \union Uniform(K, X, Failures)
           Split(Taiwan) == {[t \in K \X X |-> IF t[2] \in Taiwan THEN a[t] ELSE b[t]] :
                                 a, b \in Batch}
<1>1. PICK Taiwan \in SUBSET X : v \in Split(Taiwan)
  <2>1. PriceVerdicts(X) = UNION {Split(Taiwan) : Taiwan \in SUBSET X}
    BY DEF PriceVerdicts
  <2> HIDE DEF Split
  <2> QED
    BY <2>1
<1>2. PICK a \in Batch, b \in Batch :
          v = [t \in K \X X |-> IF t[2] \in Taiwan THEN a[t] ELSE b[t]]
  BY <1>1
<1>3. ASSUME NEW w \in Batch, NEW t \in K \X X PROVE w[t] \in Settled
  BY UniformSettles DEF Answers, Failures, Settled, Uniform
<1> HIDE DEF Batch, K
<1>4. DOMAIN v = K \X X /\ \A t \in K \X X : v[t] \in Settled
  BY <1>2, <1>3
<1> QED
  BY <1>4 DEF K

LEMMA XbrlSettles ==
    ASSUME NEW X, NEW v \in XbrlVerdicts(X)
    PROVE  DOMAIN v = Serves.xbrl \X X /\ \A t \in Serves.xbrl \X X : v[t] \in Settled
<1>1. Failures \in SUBSET Settled
  BY DEF Failures, Settled
<1>2. CASE v \in Uniform(Serves.xbrl, X, Failures)
  BY <1>1, <1>2, UniformSettles
<1>3. CASE v \in [Serves.xbrl \X X -> Answers \union {"failed"}]
  BY <1>3 DEF Answers, Settled
<1> QED
  BY <1>2, <1>3 DEF XbrlVerdicts

LEMMA EdgarSettles ==
    ASSUME NEW X, NEW v \in EdgarVerdicts(X)
    PROVE  DOMAIN v = Serves.edgar \X X /\ \A t \in Serves.edgar \X X : v[t] \in Settled
<1>1. Failures \in SUBSET Settled
  BY DEF Failures, Settled
<1>2. CASE v \in Uniform(Serves.edgar, X, Failures)
  BY <1>1, <1>2, UniformSettles
<1>3. CASE v \in [Serves.edgar \X X -> Answers \union {"failed"}]
  BY <1>3 DEF Answers, Settled
<1> QED
  BY <1>2, <1>3 DEF EdgarVerdicts

LEMMA VerdictsSettle ==
    ASSUME NEW l \in DOMAIN Serves, NEW X, NEW v \in Verdicts(l, X)
    PROVE  DOMAIN v = Serves[l] \X X /\ \A t \in Serves[l] \X X : v[t] \in Settled
<1>1. Answers \union Failures = Settled /\ Answers \subseteq Settled
  BY DEF Answers, Failures, Settled
<1>2. CASE l = "fmp_price"
  BY <1>2, PriceSettles DEF Verdicts
<1>3. CASE l = "xbrl"
  BY <1>3, XbrlSettles DEF Verdicts
<1>4. CASE l = "edgar"
  BY <1>4, EdgarSettles DEF Verdicts
<1>5. CASE l = "fmp_live_bars"
  BY <1>1, <1>5 DEF Verdicts, LiveBarVerdicts
<1>6. CASE l = "fmp_estimates"
  BY <1>1, <1>6 DEF Verdicts, EstimatesVerdicts
<1>7. CASE l = "fmp_analyst_opinion"
  BY <1>1, <1>7 DEF Verdicts, OpinionVerdicts
<1>8. CASE l = "fmp_profile_calendar"
  BY <1>1, <1>8 DEF Verdicts, ProfileVerdicts
<1>9. CASE l = "news"
  BY <1>1, <1>9 DEF Verdicts, NewsVerdicts
<1>10. CASE l = "cboe"
  BY <1>1, <1>10 DEF Verdicts, CboeVerdicts
<1>11. CASE l = "fred"
  BY <1>1, <1>11 DEF Verdicts, FredVerdicts
<1>12. l \in {"fmp_price", "fmp_live_bars", "fmp_estimates", "fmp_analyst_opinion",
              "fmp_profile_calendar", "news", "xbrl", "edgar", "cboe", "fred"}
  BY DEF Serves
<1> QED
  BY <1>2, <1>3, <1>4, <1>5, <1>6, <1>7, <1>8, <1>9, <1>10, <1>11, <1>12

TaskInv == TaskTypeOK /\ LostClaimsNeedErrors

LEMMA TaskInitInv == TaskInit => TaskInv
<1> SUFFICES ASSUME TaskInit PROVE TaskInv
  OBVIOUS
<1>1. NoTask \in TaskRows
  BY DEF NoTask, TaskRows
<1>2. requests \in 0..MaxRequests /\ errors \in 0..MaxErrors
  BY SourceBounds DEF TaskInit
<1>3. TaskTypeOK
  BY <1>1, <1>2 DEF TaskInit, TaskTypeOK
<1>4. LostClaimsNeedErrors
  BY DEF TaskInit, LostClaimsNeedErrors, NoTask
<1> QED
  BY <1>3, <1>4 DEF TaskInv

\* One row changes; if it is being fetched afterwards it was before.
LEMMA RowStep ==
    ASSUME TaskInv, NEW t \in Tasks, NEW row \in TaskRows,
           task' = [task EXCEPT ![t] = row],
           row.state = "fetching" => task[t].state = "fetching",
           requests' \in 0..MaxRequests, UNCHANGED <<pass, alive, health, errors>>
    PROVE  TaskInv'
<1>1. TaskTypeOK'
  BY DEF TaskInv, TaskTypeOK
<1>2. LostClaimsNeedErrors'
  BY DEF TaskInv, TaskTypeOK, LostClaimsNeedErrors, Held
<1> QED
  BY <1>1, <1>2 DEF TaskInv

LEMMA RequestInv ==
    ASSUME TaskInv, NEW t \in Tasks, Request(t) PROVE TaskInv'
<1>1. task[t] \in TaskRows /\ requests \in 0..MaxRequests
  BY DEF TaskInv, TaskTypeOK
<1>2. requests' \in 0..MaxRequests
  BY <1>1, SourceBounds DEF Request
<1> DEFINE kept == task[t].state = "fetching" \/ (task[t].state = "rate_limited" /\ ~task[t].due)
           row == IF kept THEN [task[t] EXCEPT !.stale = FALSE] ELSE Queued
<1>3. task' = [task EXCEPT ![t] = row]
  BY DEF Request, TaskInv, TaskTypeOK
<1>4. row \in TaskRows /\ (row.state = "fetching" => task[t].state = "fetching")
  BY <1>1 DEF TaskRows, Queued, Claimables
<1> HIDE DEF row
<1> QED
  BY <1>2, <1>3, <1>4, RowStep DEF Request

LEMMA ClockInv ==
    ASSUME TaskInv, NEW t \in Tasks, ComesDue(t) \/ GrowsStale(t) PROVE TaskInv'
<1>1. task[t] \in TaskRows /\ requests \in 0..MaxRequests
  BY DEF TaskInv, TaskTypeOK
<1>2. CASE ComesDue(t)
  <2> DEFINE row == [task[t] EXCEPT !.due = TRUE]
  <2>1. task' = [task EXCEPT ![t] = row]
    BY <1>2 DEF ComesDue, TaskInv, TaskTypeOK
  <2>2. row \in TaskRows /\ row.state = task[t].state
    BY <1>1 DEF TaskRows
  <2> HIDE DEF row
  <2> QED
    BY <1>1, <1>2, <2>1, <2>2, RowStep DEF ComesDue
<1>3. CASE GrowsStale(t)
  <2> DEFINE row == [task[t] EXCEPT !.stale = TRUE]
  <2>1. task' = [task EXCEPT ![t] = row]
    BY <1>3 DEF GrowsStale, TaskInv, TaskTypeOK
  <2>2. row \in TaskRows /\ row.state = task[t].state
    BY <1>1 DEF TaskRows
  <2> HIDE DEF row
  <2> QED
    BY <1>1, <1>3, <2>1, <2>2, RowStep DEF GrowsStale
<1> QED
  BY <1>2, <1>3

LEMMA StartPassInv ==
    ASSUME TaskInv, NEW l \in Loops, NEW X \in SUBSET Subjects, StartPass(l, X)
    PROVE  TaskInv'
<1>1. /\ task \in [Tasks -> TaskRows] /\ pass \in [Loops -> SUBSET Subjects]
      /\ pass[l] = {} /\ errors \in 0..MaxErrors
      /\ pass' = [pass EXCEPT ![l] = X] /\ task' = Claimed(l, X) /\ errors' = errors
  BY DEF TaskInv, TaskTypeOK, StartPass
<1>2. ASSUME NEW t \in Tasks PROVE [task[t] EXCEPT !.state = "fetching", !.stale = FALSE] \in TaskRows
  BY <1>1 DEF TaskRows
<1>3. task' \in [Tasks -> TaskRows]
  BY <1>1, <1>2 DEF Claimed
<1>4. TaskTypeOK'
  BY <1>1, <1>3 DEF TaskInv, TaskTypeOK, StartPass
<1>5. ASSUME NEW t \in Tasks, task'[t].state = "fetching", ~Held(t)', errors' = 0
      PROVE  FALSE
  <2>1. pass'[l] = X /\ \A m \in Loops : m # l => pass'[m] = pass[m]
    BY <1>1
  <2>2. t \notin Serves[l] \X X
    BY <1>5, <2>1 DEF Held
  <2>3. task'[t] = task[t]
    BY <1>1, <2>2 DEF Claimed
  <2>4. ~Held(t)
    BY <1>1, <1>5, <2>1 DEF Held
  <2> QED
    BY <1>1, <1>5, <2>3, <2>4 DEF TaskInv, LostClaimsNeedErrors
<1>6. LostClaimsNeedErrors'
  BY <1>1, <1>5 DEF LostClaimsNeedErrors
<1> QED
  BY <1>4, <1>6 DEF TaskInv

\* What a verdict makes of the rows.
LEMMA WrittenType ==
    ASSUME TaskTypeOK, NEW D, NEW v, DOMAIN v = D, \A t \in D : v[t] \in Settled \union {"kept"}
    PROVE  /\ Written(v) \in [Tasks -> TaskRows]
           /\ \A t \in Tasks : Written(v)[t].state = "fetching" =>
                 /\ task[t].state = "fetching"
                 /\ t \in D => v[t] = "kept"
<1>1. ASSUME NEW t \in Tasks, t \in D, v[t] # "kept"
      PROVE  [state |-> v[t], due |-> FALSE, stale |-> FALSE] \in TaskRows
  BY <1>1 DEF TaskRows, Claimables
<1>2. Written(v) \in [Tasks -> TaskRows]
  BY <1>1 DEF Written, TaskTypeOK
<1>3. ASSUME NEW t \in Tasks, Written(v)[t].state = "fetching"
      PROVE  task[t].state = "fetching" /\ (t \in D => v[t] = "kept")
  <2>1. CASE t \in D /\ v[t] # "kept" /\ task[t].state # "absent"
    <3>1. Written(v)[t].state = v[t]
      BY <2>1 DEF Written
    <3> QED
      BY <1>3, <2>1, <3>1 DEF Settled
  <2>2. CASE ~(t \in D /\ v[t] # "kept" /\ task[t].state # "absent")
    <3>1. Written(v)[t] = task[t]
      BY <2>2 DEF Written
    <3> QED
      BY <1>3, <2>2, <3>1
  <2> QED
    BY <2>1, <2>2
<1> QED
  BY <1>2, <1>3

LEMMA FinishPassInv ==
    ASSUME TaskInv, NEW l \in Loops, FinishPass(l) PROVE TaskInv'
<1>1. PICK v \in Verdicts(l, pass[l]) : task' = Written(v) /\ health' = [health EXCEPT ![l] = HealthAfter(v)]
  BY DEF FinishPass
<1>2. /\ TaskTypeOK /\ pass \in [Loops -> SUBSET Subjects] /\ errors' = errors
      /\ pass' = [pass EXCEPT ![l] = {}] /\ l \in DOMAIN Serves
  BY LoopAssumption DEF TaskInv, TaskTypeOK, FinishPass
<1>3. DOMAIN v = Serves[l] \X pass[l] /\ \A t \in Serves[l] \X pass[l] : v[t] \in Settled
  BY <1>2, VerdictsSettle
<1>4. /\ task' \in [Tasks -> TaskRows]
      /\ \A t \in Tasks : task'[t].state = "fetching" =>
             task[t].state = "fetching" /\ t \notin Serves[l] \X pass[l]
  <2>1. \A t \in Serves[l] \X pass[l] : v[t] \in Settled \union {"kept"} /\ v[t] # "kept"
    BY <1>3 DEF Settled
  <2> QED
    BY <1>1, <1>2, <1>3, <2>1, WrittenType
<1>5. HealthAfter(v) \in {"ok", "failed", "rate_limited"}
  BY DEF HealthAfter
<1>6. TaskTypeOK'
  BY <1>1, <1>2, <1>4, <1>5 DEF TaskTypeOK, FinishPass
<1>7. ASSUME NEW t \in Tasks, task'[t].state = "fetching", ~Held(t)' PROVE ~Held(t)
  BY <1>2, <1>4, <1>7 DEF Held
<1>8. LostClaimsNeedErrors'
  BY <1>2, <1>4, <1>7 DEF TaskInv, LostClaimsNeedErrors
<1> QED
  BY <1>6, <1>8 DEF TaskInv

LEMMA PassFailsInv ==
    ASSUME TaskInv, NEW l \in Loops, PassFails(l) PROVE TaskInv'
<1>1. PICK v \in Verdicts(l, pass[l]), kept \in SUBSET (Serves[l] \X pass[l]) :
          task' = Written([t \in DOMAIN v |-> IF t \in kept THEN "kept" ELSE v[t]])
  BY DEF PassFails
<1>2. /\ TaskTypeOK /\ l \in DOMAIN Serves /\ errors' = errors + 1 /\ errors \in Nat
      /\ errors' \in 0..MaxErrors
  BY LoopAssumption, SourceBounds DEF TaskInv, TaskTypeOK, PassFails
<1>3. DOMAIN v = Serves[l] \X pass[l] /\ \A t \in Serves[l] \X pass[l] : v[t] \in Settled
  BY <1>2, VerdictsSettle
<1> DEFINE w == [t \in DOMAIN v |-> IF t \in kept THEN "kept" ELSE v[t]]
<1>4. DOMAIN w = DOMAIN v /\ \A t \in DOMAIN v : w[t] \in Settled \union {"kept"}
  BY <1>3
<1>5. task' = Written(w)
  BY <1>1
<1> HIDE DEF w
<1>6. task' \in [Tasks -> TaskRows]
  BY <1>2, <1>4, <1>5, WrittenType
<1>7. TaskTypeOK'
  BY <1>2, <1>6 DEF TaskTypeOK, PassFails
<1> QED
  BY <1>2, <1>7 DEF TaskInv, LostClaimsNeedErrors

LEMMA IngestRestartsInv ==
    ASSUME TaskInv, IngestRestarts PROVE TaskInv'
<1>1. errors' = errors + 1 /\ errors \in Nat /\ errors' \in 0..MaxErrors
  BY SourceBounds DEF TaskInv, TaskTypeOK, IngestRestarts
<1>2. TaskTypeOK'
  BY <1>1 DEF TaskInv, TaskTypeOK, IngestRestarts
<1> QED
  BY <1>1, <1>2 DEF TaskInv, LostClaimsNeedErrors

LEMMA TaskNextInv ==
    ASSUME TaskInv, [TaskNext]_taskVars PROVE TaskInv'
<1>1. CASE \E t \in Tasks : Request(t) \/ ComesDue(t) \/ GrowsStale(t)
  BY <1>1, RequestInv, ClockInv
<1>2. CASE \E l \in Loops : \E X \in SUBSET Subjects : StartPass(l, X)
  BY <1>2, StartPassInv
<1>3. CASE \E l \in Loops : FinishPass(l) \/ PassFails(l)
  BY <1>3, FinishPassInv, PassFailsInv
<1>4. CASE IngestRestarts
  BY <1>4, IngestRestartsInv
<1>5. CASE UNCHANGED taskVars
  BY <1>5 DEF TaskInv, TaskTypeOK, LostClaimsNeedErrors, Held, taskVars
<1> QED
  BY <1>1, <1>2, <1>3, <1>4, <1>5 DEF TaskNext

LEMMA TaskInvHolds == TaskSpec => []TaskInv
<1>1. TaskInit => TaskInv
  BY TaskInitInv
<1>2. TaskInv /\ [TaskNext]_taskVars => TaskInv'
  BY TaskNextInv
<1> QED
  BY <1>1, <1>2, PTL DEF TaskSpec

\* Every value of the task queue and its loops has its type.
THEOREM TaskTypeCorrect == TaskSpec => []TaskTypeOK
<1>1. TaskInv => TaskTypeOK
  BY DEF TaskInv
<1> QED
  BY <1>1, TaskInvHolds, PTL

\* For any loops and symbols: a task that is claimed while nobody works on it
\* was left by a pass that was cut short, or by a restart.
THEOREM LostClaimsAccounted == TaskSpec => []LostClaimsNeedErrors
<1>1. TaskInv => LostClaimsNeedErrors
  BY DEF TaskInv
<1> QED
  BY <1>1, TaskInvHolds, PTL

(***************************************************************************)
(* Both processes                                                          *)
(***************************************************************************)
\* Every value of the two processes has its type, however their steps fall.
THEOREM FeedTypeCorrect == FeedSpec => []FeedTypeOK
BY AlertTypeCorrect, TaskTypeCorrect, PTL DEF FeedSpec, FeedTypeOK

\* Neither process takes from the other what it guarantees.
THEOREM FeedSafe == FeedSpec => []FeedIsSafe
BY ReceiptsSound, LostClaimsAccounted, PTL DEF FeedSpec, FeedIsSafe
==============================================================================
