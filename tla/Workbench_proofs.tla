--------------------------- MODULE Workbench_proofs ---------------------------
(***************************************************************************)
(* Proofs about the attention queue and the candidates of a symbol, for    *)
(* any number of cards, candidates, detectors and marks and any bounds.    *)
(*                                                                         *)
(* Attention: every statement leaves the columns of a card, its history    *)
(* and its date consistent (CardsAreSound), one lemma for each statement.  *)
(* Discovery: that one interpretation is up for review needs what the      *)
(* scanner knows when it inserts (InsertIsAlone).                          *)
(* The whole queue: a step on any card keeps the invariant of discovery,   *)
(* for it leaves the cards sound and takes none away.                      *)
(***************************************************************************)
EXTENDS Workbench, TLAPS

CardsAreSound ==
    /\ AttentionTypeOK
    /\ StatusFollowsState
    /\ ClosedCardsAreLogged
    /\ SnoozesHaveDates

\* What must hold of one card and of its newest history row.
SoundCard(c, l) ==
    /\ c \in CardRows \union {NoCard}
    /\ l \in FsmStates \union {"none"}
    /\ c # NoCard =>
           /\ c.status = StatusForState(c.state)
           /\ c.status # "open" => l = c.state
           /\ c.status = "open" /\ c.state = "operator_deferred" => c.resurface # "none"

LEMMA HandlingBound == MaxHandlings \in Nat
BY HandlingAssumption

LEMMA RowIsNoAbsence == ASSUME NEW c \in CardRows PROVE c # NoCard
<1>1. c.status \in {"open", "resolved", "dismissed"}
  BY DEF CardRows, Statuses
<1>2. NoCard.status = "absent"
  BY DEF NoCard
<1> QED
  BY <1>1, <1>2

LEMMA SoundByCards ==
    CardsAreSound <=>
        /\ card = [k \in Cards |-> card[k]]
        /\ logged = [k \in Cards |-> logged[k]]
        /\ handled \in 0..MaxHandlings
        /\ \A k \in Cards : SoundCard(card[k], logged[k])
<1>1. CardsAreSound =>
        /\ card = [k \in Cards |-> card[k]]
        /\ logged = [k \in Cards |-> logged[k]]
        /\ handled \in 0..MaxHandlings
        /\ \A k \in Cards : SoundCard(card[k], logged[k])
  BY DEF CardsAreSound, AttentionTypeOK, StatusFollowsState, ClosedCardsAreLogged,
         SnoozesHaveDates, SoundCard, Exists, IsOpen
<1>2. ASSUME card = [k \in Cards |-> card[k]], logged = [k \in Cards |-> logged[k]],
             handled \in 0..MaxHandlings, \A k \in Cards : SoundCard(card[k], logged[k])
      PROVE  CardsAreSound
  <2>1. AttentionTypeOK
    BY <1>2 DEF AttentionTypeOK, SoundCard
  <2>2. StatusFollowsState /\ ClosedCardsAreLogged /\ SnoozesHaveDates
    BY <1>2 DEF StatusFollowsState, ClosedCardsAreLogged, SnoozesHaveDates, SoundCard,
                Exists, IsOpen
  <2> QED
    BY <2>1, <2>2 DEF CardsAreSound
<1> QED
  BY <1>1, <1>2

LEMMA FreshIsSound ==
    ASSUME NEW state \in OpenStates, state # "operator_deferred",
           NEW l \in FsmStates \union {"none"}
    PROVE  SoundCard(Fresh(state), l) /\ Fresh(state) # NoCard
<1>1. Fresh(state) \in CardRows
  BY DEF Fresh, CardRows, Statuses, FsmStates, Dates
<1>2. StatusForState(state) = "open"
  BY DEF StatusForState, ClosedStates, OpenStates
<1> QED
  BY <1>1, <1>2, RowIsNoAbsence DEF SoundCard, Fresh

LEMMA ClosedRowIsSound ==
    ASSUME NEW state \in ClosedStates
    PROVE  SoundCard([status |-> state, state |-> state, resurface |-> "none"], state)
<1> DEFINE r == [status |-> state, state |-> state, resurface |-> "none"]
<1>1. r \in CardRows
  BY DEF CardRows, Statuses, FsmStates, ClosedStates, Dates
<1>2. StatusForState(state) = state
  BY DEF StatusForState
<1> QED
  BY <1>1, <1>2 DEF SoundCard, ClosedStates, FsmStates

\* How a statement that writes whole rows keeps the cards sound.
LEMMA SoundStep ==
    ASSUME CardsAreSound,
           card' = [k \in Cards |-> card'[k]], logged' = [k \in Cards |-> logged'[k]],
           handled' \in 0..MaxHandlings,
           \A k \in Cards : \/ card'[k] = card[k] /\ logged'[k] = logged[k]
                            \/ SoundCard(card'[k], logged'[k])
    PROVE  CardsAreSound'
<1>1. \A k \in Cards : SoundCard(card[k], logged[k])
  BY SoundByCards
<1>2. \A k \in Cards : SoundCard(card'[k], logged'[k])
  BY <1>1
<1>3. AttentionTypeOK'
  BY <1>2 DEF AttentionTypeOK, SoundCard
<1>4. StatusFollowsState' /\ ClosedCardsAreLogged' /\ SnoozesHaveDates'
  BY <1>2 DEF StatusFollowsState, ClosedCardsAreLogged, SnoozesHaveDates, SoundCard,
              Exists, IsOpen
<1> QED
  BY <1>3, <1>4 DEF CardsAreSound

LEMMA CardFrame ==
    ASSUME CardsAreSound, UNCHANGED attentionVars PROVE CardsAreSound'
BY DEF CardsAreSound, AttentionTypeOK, StatusFollowsState, ClosedCardsAreLogged,
       SnoozesHaveDates, Exists, IsOpen, attentionVars

LEMMA ClosedKeeps ==
    ASSUME CardsAreSound, NEW K \in SUBSET Cards, NEW state \in ClosedStates,
           Closed(K, state), handled' \in 0..MaxHandlings
    PROVE  CardsAreSound'
<1>1. /\ card' = [k \in Cards |->
               IF k \in {j \in K : IsOpen(j)}
               THEN [status |-> state, state |-> state, resurface |-> "none"]
               ELSE card[k]]
      /\ logged' = [k \in Cards |-> IF k \in {j \in K : IsOpen(j)} THEN state ELSE logged[k]]
  BY DEF Closed
<1>2. \A k \in Cards : \/ card'[k] = card[k] /\ logged'[k] = logged[k]
                       \/ SoundCard(card'[k], logged'[k])
  BY <1>1, ClosedRowIsSound
<1>3. card' = [k \in Cards |-> card'[k]] /\ logged' = [k \in Cards |-> logged'[k]]
  BY <1>1
<1> QED
  BY <1>2, <1>3, SoundStep

LEMMA RaisedKeeps ==
    ASSUME CardsAreSound, NEW K \in SUBSET Cards, NEW state \in OpenStates,
           state # "operator_deferred", Raised(K, state), handled' \in 0..MaxHandlings
    PROVE  CardsAreSound'
<1>1. /\ card' = [k \in Cards |-> IF k \in K THEN Fresh(state) ELSE card[k]]
      /\ logged' = [k \in Cards |-> IF k \in K THEN "none" ELSE logged[k]]
  BY DEF Raised
<1>2. \A k \in Cards : \/ card'[k] = card[k] /\ logged'[k] = logged[k]
                       \/ SoundCard(card'[k], logged'[k])
  BY <1>1, FreshIsSound
<1>3. card' = [k \in Cards |-> card'[k]] /\ logged' = [k \in Cards |-> logged'[k]]
  BY <1>1
<1> QED
  BY <1>2, <1>3, SoundStep

LEMMA HandledStays == ASSUME CardsAreSound PROVE handled \in 0..MaxHandlings
BY DEF CardsAreSound, AttentionTypeOK

LEMMA UpsertKeeps ==
    ASSUME CardsAreSound, NEW k \in Cards, NEW state \in OpenStates,
           state # "operator_deferred", Upsert(k, state)
    PROVE  CardsAreSound'
<1>1. handled' \in 0..MaxHandlings
  BY HandledStays DEF Upsert
<1>2. CASE IsOpen(k)
  BY <1>2, CardFrame DEF Upsert, attentionVars
<1>3. CASE ~IsOpen(k)
  <2>1. Raised({k}, state)
    BY <1>3 DEF Upsert
  <2> QED
    BY <1>1, <2>1, RaisedKeeps
<1> QED
  BY <1>2, <1>3

LEMMA RefreshKeeps ==
    ASSUME CardsAreSound, NEW k \in Cards, NEW state \in OpenStates,
           state # "operator_deferred", Refresh(k, state)
    PROVE  CardsAreSound'
<1>1. handled' \in 0..MaxHandlings
  BY HandledStays DEF Refresh
<1>2. CASE IsOpen(k)
  <2>1. SoundCard(card[k], logged[k]) /\ card[k] # NoCard /\ card[k].status = "open"
    BY <1>2, SoundByCards DEF IsOpen, Exists
  <2>2. card[k] \in CardRows
    BY <2>1 DEF SoundCard
  <2>3. card' = [card EXCEPT ![k].state = state] /\ logged' = logged
    BY <1>2 DEF Refresh
  <2>4. card = [j \in Cards |-> card[j]] /\ logged = [j \in Cards |-> logged[j]]
    BY SoundByCards
  <2> DEFINE r == [card[k] EXCEPT !.state = state]
  <2>5. r \in CardRows /\ r.status = "open" /\ r.state = state
    BY <2>1, <2>2 DEF CardRows, FsmStates
  <2>6. card'[k] = r /\ \A j \in Cards \ {k} : card'[j] = card[j]
    BY <2>3, <2>4
  <2> HIDE DEF r
  <2>7. StatusForState(state) = "open"
    BY DEF StatusForState, ClosedStates, OpenStates
  <2>8. SoundCard(card'[k], logged'[k])
    BY <2>1, <2>3, <2>5, <2>6, <2>7 DEF SoundCard
  <2>9. card' = [j \in Cards |-> card'[j]] /\ logged' = [j \in Cards |-> logged'[j]]
    BY <2>3, <2>4
  <2> QED
    BY <1>1, <2>3, <2>6, <2>8, <2>9, SoundStep
<1>3. CASE ~IsOpen(k)
  <2>1. Raised({k}, state)
    BY <1>3 DEF Refresh
  <2> QED
    BY <1>1, <2>1, RaisedKeeps
<1> QED
  BY <1>2, <1>3

LEMMA DismissKeeps ==
    ASSUME CardsAreSound, NEW k \in Cards, Dismiss(k) PROVE CardsAreSound'
<1>1. handled' \in 0..MaxHandlings
  BY HandledStays, HandlingBound DEF Dismiss, Handling
<1>2. Closed({k}, "dismissed") /\ "dismissed" \in ClosedStates
  BY DEF Dismiss, ClosedStates
<1> QED
  BY <1>1, <1>2, ClosedKeeps

LEMMA DeferKeeps ==
    ASSUME CardsAreSound, NEW k \in Cards, Defer(k) PROVE CardsAreSound'
<1> DEFINE r == [status |-> "open", state |-> "operator_deferred", resurface |-> "later"]
<1>1. handled' \in 0..MaxHandlings
  BY HandledStays, HandlingBound DEF Defer, Handling
<1>2. card' = [card EXCEPT ![k] = r] /\ logged' = [logged EXCEPT ![k] = "operator_deferred"]
  BY DEF Defer
<1>3. SoundCard(r, "operator_deferred")
  <2>1. r \in CardRows
    BY DEF CardRows, Statuses, FsmStates, OpenStates, Dates
  <2>2. StatusForState("operator_deferred") = "open"
    BY DEF StatusForState, ClosedStates
  <2> QED
    BY <2>1, <2>2 DEF SoundCard, FsmStates, OpenStates
<1> HIDE DEF r
<1>4. card = [j \in Cards |-> card[j]] /\ logged = [j \in Cards |-> logged[j]]
  BY SoundByCards
<1>5. card' = [j \in Cards |-> card'[j]] /\ logged' = [j \in Cards |-> logged'[j]]
  BY <1>2, <1>4
<1>6. \A j \in Cards : \/ card'[j] = card[j] /\ logged'[j] = logged[j]
                       \/ SoundCard(card'[j], logged'[j])
  BY <1>2, <1>3, <1>4
<1> QED
  BY <1>1, <1>5, <1>6, SoundStep

LEMMA DateIsReachedKeeps ==
    ASSUME CardsAreSound, NEW k \in Cards, DateIsReached(k) PROVE CardsAreSound'
<1>1. handled' \in 0..MaxHandlings
  BY HandledStays DEF DateIsReached
<1>2. card' = [card EXCEPT ![k].resurface = "due"] /\ logged' = logged
  BY DEF DateIsReached
<1>3. card = [j \in Cards |-> card[j]] /\ logged = [j \in Cards |-> logged[j]]
  BY SoundByCards
<1>4. SoundCard(card[k], logged[k]) /\ card[k] # NoCard
  BY SoundByCards DEF DateIsReached, IsOpen, Exists
<1>5. card[k] \in CardRows
  BY <1>4 DEF SoundCard
<1> DEFINE r == [card[k] EXCEPT !.resurface = "due"]
<1>6. r \in CardRows /\ r.status = card[k].status /\ r.state = card[k].state
      /\ r.resurface = "due"
  BY <1>5 DEF CardRows, Dates
<1>7. card'[k] = r /\ \A j \in Cards \ {k} : card'[j] = card[j]
  BY <1>2, <1>3
<1> HIDE DEF r
<1>8. SoundCard(card'[k], logged'[k])
  BY <1>2, <1>4, <1>6, <1>7 DEF SoundCard
<1>9. card' = [j \in Cards |-> card'[j]] /\ logged' = [j \in Cards |-> logged'[j]]
  BY <1>2, <1>3
<1> QED
  BY <1>1, <1>2, <1>7, <1>8, <1>9, SoundStep

LEMMA ResurfaceDueKeeps ==
    ASSUME CardsAreSound, ResurfaceDue PROVE CardsAreSound'
<1>1. handled' \in 0..MaxHandlings
  BY HandledStays DEF ResurfaceDue
<1> DEFINE row(k) == [card[k] EXCEPT !.state = "ready_for_review", !.resurface = "none"]
<1>2. /\ card' = [k \in Cards |-> IF k \in DueCards THEN row(k) ELSE card[k]]
      /\ logged' = [k \in Cards |-> IF k \in DueCards THEN "ready_for_review" ELSE logged[k]]
  BY DEF ResurfaceDue
<1>3. ASSUME NEW k \in DueCards
      PROVE  SoundCard(row(k), "ready_for_review")
  <2>1. k \in Cards /\ card[k] # NoCard /\ card[k].status = "open"
    BY DEF DueCards, IsOpen, Exists
  <2>2. card[k] \in CardRows
    BY <2>1, SoundByCards DEF SoundCard
  <2>3. /\ row(k) \in CardRows
        /\ row(k).status = "open"
        /\ row(k).state = "ready_for_review"
    BY <2>1, <2>2 DEF CardRows, Dates, FsmStates, OpenStates
  <2> HIDE DEF row
  <2>4. StatusForState("ready_for_review") = "open"
    BY DEF StatusForState, ClosedStates
  <2> QED
    BY <2>3, <2>4 DEF SoundCard, FsmStates, OpenStates
<1> HIDE DEF row
<1>4. \A k \in Cards : \/ card'[k] = card[k] /\ logged'[k] = logged[k]
                       \/ SoundCard(card'[k], logged'[k])
  BY <1>2, <1>3
<1>5. card' = [k \in Cards |-> card'[k]] /\ logged' = [k \in Cards |-> logged'[k]]
  BY <1>2
<1> QED
  BY <1>1, <1>4, <1>5, SoundStep

(***************************************************************************)
(* Discovery                                                               *)
(***************************************************************************)
LEMMA Bounds == MaxDecisions \in Nat /\ MaxFaults \in Nat
BY DiscoveryBoundAssumption

\* When the scanner inserts an interpretation, no other is up for review.
InsertIsAlone ==
    scan.step = "insert" =>
        \A c \in ProposedWith(Composed) : SignalOf(c) = scan.name

DiscoveryInv ==
    /\ CardsAreSound
    /\ DiscoveryTypeOK
    /\ ProposalsAreShown
    /\ OneInterpretation
    /\ InsertIsAlone

LEMMA SupersedeKeepsCards ==
    ASSUME CardsAreSound, NEW C \in SUBSET Candidates, Supersede(C) PROVE CardsAreSound'
<1>1. handled' \in 0..MaxHandlings
  BY HandledStays DEF Supersede
<1>2. C \subseteq Cards /\ Closed(C, "dismissed") /\ "dismissed" \in ClosedStates
  BY CardAssumption DEF Supersede, ClosedStates
<1> QED
  BY <1>1, <1>2, ClosedKeeps

\* A card that is there stays there.
LEMMA ClosedKeepsExistence ==
    ASSUME CardsAreSound, NEW K \in SUBSET Cards, NEW state \in ClosedStates,
           Closed(K, state), NEW k \in Cards, Exists(k)
    PROVE  Exists(k)'
<1>1. card'[k] \in {card[k], [status |-> state, state |-> state, resurface |-> "none"]}
  BY DEF Closed
<1>2. [status |-> state, state |-> state, resurface |-> "none"] \in CardRows
  BY DEF CardRows, Statuses, FsmStates, ClosedStates, Dates
<1> QED
  BY <1>1, <1>2, RowIsNoAbsence DEF Exists

\* A step that makes no proposal: what is proposed after it was so before.
NoProposalIsMade ==
    /\ \A c \in Candidates : Proposed(c)' => candidate'[c] = candidate[c]
    /\ \A c \in Candidates : Exists(c) => Exists(c)'
    /\ faults' \in Nat /\ faults <= faults'
    /\ \A c \in Candidates : BeingCarded(c) => BeingCarded(c)' \/ Exists(c)' \/ faults' > 0

LEMMA QuietStep ==
    ASSUME DiscoveryInv, NoProposalIsMade
    PROVE  /\ ProposalsAreShown'
           /\ OneInterpretation'
           /\ scan' = scan \/ scan'.step # "insert" => InsertIsAlone'
<1>1. faults \in Nat
  BY Bounds DEF DiscoveryInv, DiscoveryTypeOK
<1>2. ProposalsAreShown'
  <2> SUFFICES ASSUME NEW c \in Candidates, Proposed(c)', ~Exists(c)', ~BeingCarded(c)'
               PROVE  faults' > 0
    BY DEF ProposalsAreShown
  <2>1. Proposed(c) /\ ~Exists(c)
    BY DEF NoProposalIsMade, Proposed
  <2>2. CASE BeingCarded(c)
    BY <2>2 DEF NoProposalIsMade
  <2>3. CASE ~BeingCarded(c)
    <3>1. faults > 0
      BY <2>1, <2>3 DEF DiscoveryInv, ProposalsAreShown
    <3> QED
      BY <1>1, <3>1 DEF NoProposalIsMade
  <2> QED
    BY <2>2, <2>3
<1>3. \A c \in Candidates : c \in ProposedWith(Composed)' =>
          c \in ProposedWith(Composed) /\ SignalOf(c)' = SignalOf(c)
  BY DEF NoProposalIsMade, ProposedWith, Proposed, SignalOf
<1>4. OneInterpretation'
  BY <1>3 DEF DiscoveryInv, OneInterpretation, ProposedWith
<1>5. scan' = scan \/ scan'.step # "insert" => InsertIsAlone'
  BY <1>3 DEF DiscoveryInv, InsertIsAlone, ProposedWith
<1> QED
  BY <1>2, <1>4, <1>5

LEMMA DecidedFacts ==
    ASSUME DiscoveryTypeOK, NEW C \in SUBSET Candidates, \A c \in C : candidate[c] # Absent,
           NEW s \in {"confirmed", "rejected", "superseded"}, Decided(C, s)
    PROVE  /\ candidate' \in [Candidates -> CandidateRows \union {Absent}]
           /\ \A c \in C : ~Proposed(c)'
           /\ \A c \in Candidates \ C : candidate'[c] = candidate[c]
           /\ \A c \in Candidates : Proposed(c)' => candidate'[c] = candidate[c]
<1>1. candidate' = [c \in Candidates |->
          IF c \in C THEN [candidate[c] EXCEPT !.status = s] ELSE candidate[c]]
  BY DEF Decided
<1>2. ASSUME NEW c \in C
      PROVE  /\ [candidate[c] EXCEPT !.status = s] \in CandidateRows
             /\ [candidate[c] EXCEPT !.status = s].status = s
  <2>1. candidate[c] \in CandidateRows
    BY DEF DiscoveryTypeOK
  <2> QED
    BY <2>1 DEF CandidateRows
<1>3. candidate' \in [Candidates -> CandidateRows \union {Absent}]
  BY <1>1, <1>2 DEF DiscoveryTypeOK
<1>4. \A c \in C : ~Proposed(c)'
  BY <1>1, <1>2 DEF Proposed
<1>5. \A c \in Candidates \ C : candidate'[c] = candidate[c]
  BY <1>1
<1> QED
  BY <1>3, <1>4, <1>5

\* The rows a supersede statement may take are proposals.
LEMMA ProposalsAreRows ==
    /\ Proposals \subseteq Candidates
    /\ \A c \in Proposals : candidate[c] # Absent
    /\ \A names : ProposedWith(names) \subseteq Proposals
BY DEF Proposals, ProposedWith, Proposed, Absent

LEMMA SupersedeFacts ==
    ASSUME DiscoveryInv, NEW C \in SUBSET Proposals, Supersede(C)
    PROVE  /\ CardsAreSound'
           /\ candidate' \in [Candidates -> CandidateRows \union {Absent}]
           /\ \A c \in C : ~Proposed(c)'
           /\ \A c \in Candidates : Proposed(c)' => candidate'[c] = candidate[c]
           /\ \A c \in Candidates : Exists(c) => Exists(c)'
<1>1. C \in SUBSET Candidates /\ \A c \in C : candidate[c] # Absent
  BY ProposalsAreRows
<1>2. Decided(C, "superseded") /\ Closed(C, "dismissed")
  BY DEF Supersede
<1>3. DiscoveryTypeOK /\ CardsAreSound
  BY DEF DiscoveryInv
<1>4. CardsAreSound'
  BY <1>1, <1>3, SupersedeKeepsCards
<1>5. \A c \in Candidates : Exists(c) => Exists(c)'
  <2>1. "dismissed" \in ClosedStates /\ C \in SUBSET Cards /\ Candidates \subseteq Cards
    BY <1>1, CardAssumption DEF ClosedStates
  <2> QED
    BY <1>2, <1>3, <2>1, ClosedKeepsExistence
<1> QED
  BY <1>1, <1>2, <1>3, <1>4, <1>5, DecidedFacts

\* How a step of the scanner keeps the invariant.
LEMMA InvByParts ==
    ASSUME DiscoveryInv, CardsAreSound', NoProposalIsMade,
           candidate' \in [Candidates -> CandidateRows \union {Absent}],
           tracked' \in BOOLEAN, thesis' \in Theses, scan' \in Scans \union {AtRest},
           nominate' \in Nominations \union {AtRest}, decisions' \in 0..MaxDecisions,
           faults' \in 0..MaxFaults,
           scan' = scan \/ scan'.step # "insert" \/ InsertIsAlone'
    PROVE  DiscoveryInv'
<1>1. DiscoveryTypeOK'
  BY DEF DiscoveryTypeOK
<1> QED
  BY <1>1, QuietStep DEF DiscoveryInv

LEMMA Parts ==
    ASSUME DiscoveryInv
    PROVE  /\ CardsAreSound
           /\ candidate \in [Candidates -> CandidateRows \union {Absent}]
           /\ tracked \in BOOLEAN
           /\ thesis \in Theses
           /\ scan \in Scans \union {AtRest}
           /\ nominate \in Nominations \union {AtRest}
           /\ decisions \in 0..MaxDecisions
           /\ faults \in 0..MaxFaults
           /\ faults \in Nat
BY Bounds DEF DiscoveryInv, DiscoveryTypeOK

\* The four supersede statements of the scanner, and the trim.
LEMMA SupersedingKeeps ==
    ASSUME DiscoveryInv, NEW C \in SUBSET Proposals, Supersede(C),
           UNCHANGED <<tracked, thesis, decisions, faults>>,
           scan' \in Scans \union {AtRest}, nominate' \in Nominations \union {AtRest},
           \A c \in Candidates : BeingCarded(c) => BeingCarded(c)',
           scan' = scan \/ scan'.step # "insert" \/ InsertIsAlone'
    PROVE  DiscoveryInv'
<1>1. NoProposalIsMade
  BY SupersedeFacts, Parts DEF NoProposalIsMade
<1> QED
  BY <1>1, SupersedeFacts, Parts, InvByParts

LEMMA StartScanKeeps ==
    ASSUME DiscoveryInv, StartScan PROVE DiscoveryInv'
<1>1. PICK C \in SUBSET Proposals : Supersede(C)
  BY DEF StartScan
<1>2. scan' = [step |-> "read"] /\ scan = AtRest
      /\ UNCHANGED <<tracked, thesis, nominate, decisions, faults>>
  BY DEF StartScan
<1>3. scan' \in Scans /\ scan'.step # "insert"
  BY <1>2 DEF Scans
<1>4. \A c \in Candidates : BeingCarded(c) => BeingCarded(c)'
  BY <1>2 DEF BeingCarded, AtRest
<1> QED
  BY <1>1, <1>2, <1>3, <1>4, Parts, SupersedingKeeps

LEMMA ClearAllKeeps ==
    ASSUME DiscoveryInv, ClearAll PROVE DiscoveryInv'
<1>1. /\ Proposals \in SUBSET Proposals
      /\ Supersede(Proposals)
      /\ scan.step = "clear_all"
      /\ scan' = AtRest
      /\ UNCHANGED <<tracked, thesis, nominate, decisions, faults>>
  BY DEF ClearAll
<1>2. scan'.step # "insert"
  BY <1>1 DEF AtRest
<1>3. \A c \in Candidates : BeingCarded(c) => BeingCarded(c)'
  BY <1>1 DEF BeingCarded
<1> QED
  BY <1>1, <1>2, <1>3, Parts, SupersedingKeeps

LEMMA ClearRawKeeps ==
    ASSUME DiscoveryInv, ClearRaw PROVE DiscoveryInv'
<1>1. /\ ProposedWith(scan.raw) \in SUBSET Proposals
      /\ Supersede(ProposedWith(scan.raw))
      /\ scan.step = "clear_raw"
      /\ scan' = AtRest
      /\ UNCHANGED <<tracked, thesis, nominate, decisions, faults>>
  BY ProposalsAreRows DEF ClearRaw
<1>2. scan'.step # "insert"
  BY <1>1 DEF AtRest
<1>3. \A c \in Candidates : BeingCarded(c) => BeingCarded(c)'
  BY <1>1 DEF BeingCarded
<1> QED
  BY <1>1, <1>2, <1>3, Parts, SupersedingKeeps

\* What is left of the interpretations is the one about to be inserted.
LEMMA SupersedeStaleKeeps ==
    ASSUME DiscoveryInv, SupersedeStale PROVE DiscoveryInv'
<1> DEFINE C == ProposedWith((Composed \ {scan.name}) \union scan.raw)
<1>1. /\ scan.step = "supersede"
      /\ Supersede(C)
      /\ scan' = [scan EXCEPT !.step = "insert"]
      /\ UNCHANGED <<tracked, thesis, nominate, decisions, faults>>
  BY DEF SupersedeStale
<1>2. C \in SUBSET Proposals
  BY ProposalsAreRows
<1>3. scan \in [step : {"supersede", "insert"}, name : Composed, raw : SUBSET RawSignals]
  BY <1>1, Parts DEF Scans, AtRest
<1>4. /\ scan' \in [step : {"supersede", "insert"}, name : Composed, raw : SUBSET RawSignals]
      /\ scan'.step = "insert"
      /\ scan'.name = scan.name
  BY <1>1, <1>3
<1>5. scan' \in Scans
  BY <1>4 DEF Scans
<1>6. \A c \in Candidates : BeingCarded(c) => BeingCarded(c)'
  BY <1>1 DEF BeingCarded
<1>7. \A c \in Candidates : (Proposed(c)' => candidate'[c] = candidate[c])
                            /\ (c \in C => ~Proposed(c)')
  BY <1>1, <1>2, SupersedeFacts
<1>8. InsertIsAlone'
  <2> SUFFICES ASSUME NEW c \in ProposedWith(Composed)' PROVE SignalOf(c)' = scan'.name
    BY DEF InsertIsAlone
  <2>1. c \in Candidates /\ Proposed(c)' /\ SignalOf(c)' \in Composed
    BY DEF ProposedWith
  <2>2. candidate'[c] = candidate[c] /\ c \notin C
    BY <1>7, <2>1
  <2>3. SignalOf(c)' = SignalOf(c) /\ Proposed(c)
    BY <2>1, <2>2 DEF SignalOf, Proposed
  <2>4. SignalOf(c) = scan.name
    BY <2>1, <2>2, <2>3 DEF ProposedWith
  <2> QED
    BY <1>4, <2>3, <2>4
<1> HIDE DEF C
<1> QED
  BY <1>1, <1>2, <1>5, <1>6, <1>8, Parts, SupersedingKeeps

LEMMA TrimKeeps ==
    ASSUME DiscoveryInv, NEW b \in BOOLEAN, Trim(b) PROVE DiscoveryInv'
<1>1. PICK C \in SUBSET Proposals : Supersede(C)
  BY ProposalsAreRows DEF Trim
<1>2. /\ nominate.step = "trim"
      /\ nominate' = AtRest
      /\ UNCHANGED <<tracked, thesis, scan, decisions, faults>>
  BY DEF Trim
<1>3. \A c \in Candidates : BeingCarded(c) => BeingCarded(c)'
  BY <1>2 DEF BeingCarded
<1> QED
  BY <1>1, <1>2, <1>3, Parts, SupersedingKeeps

\* Steps that change neither cards nor candidates.
LEMMA BystanderKeeps ==
    ASSUME DiscoveryInv, UNCHANGED attentionVars, UNCHANGED candidate,
           tracked' \in BOOLEAN, thesis' \in Theses, scan' \in Scans \union {AtRest},
           nominate' \in Nominations \union {AtRest}, decisions' = decisions,
           faults' \in 0..MaxFaults, faults <= faults',
           scan' = scan \/ scan'.step # "insert",
           (\A c \in Candidates : BeingCarded(c) => BeingCarded(c)') \/ faults' > 0
    PROVE  DiscoveryInv'
<1>1. CardsAreSound'
  BY Parts, CardFrame
<1>2. NoProposalIsMade
  BY Bounds DEF NoProposalIsMade, Proposed, Exists, attentionVars
<1>3. /\ candidate' \in [Candidates -> CandidateRows \union {Absent}]
      /\ decisions' \in 0..MaxDecisions
  BY Parts
<1> QED
  BY <1>1, <1>2, <1>3, InvByParts

LEMMA ReadSymbolKeeps ==
    ASSUME DiscoveryInv, NEW h, NEW e, ReadSymbol(h, e) PROVE DiscoveryInv'
<1> DEFINE name == Compose(h, e, tracked, thesis = "armed", thesis # "none")
<1>1. name \in Composed \union {"none"}
  BY DEF Compose, Composed
<1>2. HitNames(h) \subseteq RawSignals
  BY DEF HitNames
<1>3. /\ scan.step = "read"
      /\ \/ scan' = AtRest
         \/ name # "none" /\ scan' = [step |-> "supersede", name |-> name, raw |-> HitNames(h)]
         \/ scan' = [step |-> "clear_all"]
         \/ scan' = [step |-> "clear_raw", raw |-> HitNames(h)]
      /\ UNCHANGED <<attentionVars, candidate, tracked, thesis, nominate, decisions, faults>>
  <2> HIDE DEF name
  <2>1. CASE HitNames(h) = {}
    BY <2>1 DEF ReadSymbol
  <2>2. CASE HitNames(h) # {} /\ name # "none"
    BY <2>2 DEF ReadSymbol, name
  <2>3. CASE HitNames(h) # {} /\ name = "none" /\ tracked
    BY <2>3 DEF ReadSymbol, name
  <2>4. CASE HitNames(h) # {} /\ name = "none" /\ ~tracked
    BY <2>4 DEF ReadSymbol, name
  <2> QED
    BY <2>1, <2>2, <2>3, <2>4
<1> HIDE DEF name
<1>4. scan' \in Scans \union {AtRest} /\ scan'.step # "insert"
  BY <1>1, <1>2, <1>3 DEF Scans, AtRest
<1>5. \A c \in Candidates : BeingCarded(c) => BeingCarded(c)'
  BY <1>3 DEF BeingCarded
<1> QED
  BY <1>3, <1>4, <1>5, Parts, BystanderKeeps

LEMMA StartNominationKeeps ==
    ASSUME DiscoveryInv, StartNomination PROVE DiscoveryInv'
<1>1. /\ nominate = AtRest
      /\ nominate' \in {[step |-> "trim"], [step |-> "insert"]}
      /\ UNCHANGED <<attentionVars, candidate, tracked, thesis, scan, decisions, faults>>
  BY DEF StartNomination
<1>2. nominate' \in Nominations
  BY <1>1 DEF Nominations
<1>3. \A c \in Candidates : BeingCarded(c) => BeingCarded(c)'
  BY <1>1 DEF BeingCarded, AtRest
<1> QED
  BY <1>1, <1>2, <1>3, Parts, BystanderKeeps

LEMMA FailuresKeep ==
    ASSUME DiscoveryInv, ScanFails \/ NominationFails PROVE DiscoveryInv'
<1>1. faults' \in 0..MaxFaults /\ faults <= faults' /\ faults' > 0
  BY Parts, Bounds DEF ScanFails, NominationFails, Fault
<1>2. /\ UNCHANGED <<attentionVars, candidate, tracked, thesis, decisions>>
      /\ scan' \in {scan, AtRest} /\ nominate' \in {nominate, AtRest}
  BY DEF ScanFails, NominationFails
<1>3. scan' = scan \/ scan'.step # "insert"
  BY <1>2 DEF AtRest
<1> QED
  BY <1>1, <1>2, <1>3, Parts, BystanderKeeps

LEMMA SymbolMovesKeeps ==
    ASSUME DiscoveryInv, Track \/ \E to \in Theses : ThesisMoves(to) PROVE DiscoveryInv'
<1>1. /\ tracked' \in BOOLEAN /\ thesis' \in Theses
      /\ UNCHANGED <<attentionVars, candidate, scan, nominate, decisions, faults>>
  BY Parts DEF Track, ThesisMoves
<1>2. \A c \in Candidates : BeingCarded(c) => BeingCarded(c)'
  BY <1>1 DEF BeingCarded
<1> QED
  BY <1>1, <1>2, Parts, BystanderKeeps

\* Steps that change a card and no candidate.
LEMMA CardStepKeeps ==
    ASSUME DiscoveryInv, CardsAreSound', UNCHANGED <<candidate, tracked, thesis, decisions, faults>>,
           \A c \in Candidates : Exists(c) => Exists(c)',
           scan' \in Scans \union {AtRest}, nominate' \in Nominations \union {AtRest},
           scan' = scan \/ scan'.step # "insert",
           \A c \in Candidates : BeingCarded(c) => BeingCarded(c)' \/ Exists(c)'
    PROVE  DiscoveryInv'
<1>1. NoProposalIsMade
  BY Parts DEF NoProposalIsMade, Proposed
<1> QED
  BY <1>1, Parts, InvByParts

LEMMA RaisedExists ==
    ASSUME NEW K \in SUBSET Cards, NEW state \in OpenStates, Raised(K, state), NEW k \in Cards
    PROVE  /\ Exists(k) => Exists(k)'
           /\ k \in K => Exists(k)'
<1>1. Fresh(state) \in CardRows
  BY DEF Fresh, CardRows, Statuses, FsmStates, Dates
<1>2. Fresh(state) # NoCard
  BY <1>1, RowIsNoAbsence
<1> QED
  BY <1>2 DEF Raised, Exists

LEMMA UpsertExists ==
    ASSUME NEW k \in Cards, NEW state \in OpenStates, Upsert(k, state), NEW j \in Cards
    PROVE  /\ Exists(j) => Exists(j)'
           /\ Exists(k)'
<1>1. CASE IsOpen(k)
  BY <1>1 DEF Upsert, IsOpen, Exists
<1>2. CASE ~IsOpen(k)
  <2>1. Raised({k}, state)
    BY <1>2 DEF Upsert
  <2> QED
    BY <2>1, RaisedExists
<1> QED
  BY <1>1, <1>2

LEMMA InitialCandidate == InitialState("candidate_review") = "ready_for_review"
                          /\ InitialState("thesis_actionable") = "actionable"
BY DEF InitialState

LEMMA InsertCardKeeps ==
    ASSUME DiscoveryInv, InsertCard PROVE DiscoveryInv'
<1>1. scan.step = "card" /\ scan.made \in Candidates
  BY Parts DEF Scans, AtRest, InsertCard
<1>2. PICK k \in Candidates : k = scan.made
  BY <1>1
<1>3. /\ Upsert(k, "ready_for_review")
      /\ scan' = AtRest
      /\ UNCHANGED <<candidate, tracked, thesis, nominate, decisions, faults>>
  BY <1>2, InitialCandidate DEF InsertCard
<1>4. Candidates \subseteq Cards /\ "ready_for_review" \in OpenStates
  BY CardAssumption DEF OpenStates
<1>5. CardsAreSound'
  BY <1>3, <1>4, Parts, UpsertKeeps
<1>6. Exists(k)' /\ \A c \in Candidates : Exists(c) => Exists(c)'
  BY <1>3, <1>4, UpsertExists
<1>7. \A c \in Candidates : BeingCarded(c) => BeingCarded(c)' \/ Exists(c)'
  BY <1>1, <1>2, <1>3, <1>6 DEF BeingCarded
<1>8. scan'.step # "insert"
  BY <1>3 DEF AtRest
<1> QED
  BY <1>3, <1>5, <1>6, <1>7, <1>8, Parts, CardStepKeeps

LEMMA InsertNominationCardKeeps ==
    ASSUME DiscoveryInv, InsertNominationCard PROVE DiscoveryInv'
<1>1. nominate.step = "card" /\ nominate.made \in Candidates
  BY Parts DEF Nominations, AtRest, InsertNominationCard
<1>2. PICK k \in Candidates : k = nominate.made
  BY <1>1
<1>3. /\ Upsert(k, "ready_for_review")
      /\ nominate' = [step |-> "trim"]
      /\ UNCHANGED <<candidate, tracked, thesis, scan, decisions, faults>>
  BY <1>2, InitialCandidate DEF InsertNominationCard
<1>4. Candidates \subseteq Cards /\ "ready_for_review" \in OpenStates
  BY CardAssumption DEF OpenStates
<1>5. CardsAreSound'
  BY <1>3, <1>4, Parts, UpsertKeeps
<1>6. Exists(k)' /\ \A c \in Candidates : Exists(c) => Exists(c)'
  BY <1>3, <1>4, UpsertExists
<1>7. \A c \in Candidates : BeingCarded(c) => BeingCarded(c)' \/ Exists(c)'
  BY <1>1, <1>2, <1>3, <1>6 DEF BeingCarded
<1>8. nominate' \in Nominations
  BY <1>3 DEF Nominations
<1> QED
  BY <1>3, <1>5, <1>6, <1>7, <1>8, Parts, CardStepKeeps

LEMMA RaiseTriggerKeeps ==
    ASSUME DiscoveryInv, RaiseTrigger PROVE DiscoveryInv'
<1>1. /\ scan.step = "insert"
      /\ Refresh(Trigger, "actionable")
      /\ scan' = AtRest
      /\ UNCHANGED <<candidate, tracked, thesis, nominate, decisions, faults>>
  BY InitialCandidate DEF RaiseTrigger
<1>2. Trigger \in Cards /\ Candidates \subseteq Cards /\ "actionable" \in OpenStates
  BY CardAssumption DEF OpenStates
<1>3. CardsAreSound'
  BY <1>1, <1>2, Parts, RefreshKeeps
<1>4. \A c \in Candidates : Exists(c) => Exists(c)'
  <2>1. CASE IsOpen(Trigger)
    <3>1. \A c \in Candidates : card'[c] = card[c]
      BY <1>1, <1>2, <2>1, TriggerAssumption, Parts
      DEF Refresh, CardsAreSound, AttentionTypeOK
    <3> QED
      BY <3>1 DEF Exists
  <2>2. CASE ~IsOpen(Trigger)
    <3>1. Raised({Trigger}, "actionable")
      BY <1>1, <2>2 DEF Refresh
    <3> QED
      BY <1>2, <3>1, RaisedExists
  <2> QED
    BY <2>1, <2>2
<1>5. \A c \in Candidates : BeingCarded(c) => BeingCarded(c)'
  BY <1>1 DEF BeingCarded
<1>6. scan'.step # "insert"
  BY <1>1 DEF AtRest
<1> QED
  BY <1>1, <1>3, <1>4, <1>5, <1>6, Parts, CardStepKeeps

\* What the operator and time do to cards.
LEMMA CardHandlingKeeps ==
    ASSUME DiscoveryInv, NEW k,
           \/ k \in Candidates /\ OnCards(Dismiss(k) \/ Defer(k) \/ DateIsReached(k))
           \/ OnCards(ResurfaceDue)
    PROVE  DiscoveryInv'
<1>1. /\ UNCHANGED discoveryVars
      /\ \/ k \in Candidates /\ (Dismiss(k) \/ Defer(k) \/ DateIsReached(k))
         \/ ResurfaceDue
  BY DEF OnCards
<1>2. Candidates \subseteq Cards
  BY CardAssumption
<1>3. CardsAreSound'
  BY <1>1, <1>2, Parts, DismissKeeps, DeferKeeps, DateIsReachedKeeps, ResurfaceDueKeeps
<1>4. \A c \in Candidates : Exists(c) => Exists(c)'
  <2> SUFFICES ASSUME NEW c \in Candidates, Exists(c) PROVE Exists(c)'
    OBVIOUS
  <2>1. SoundCard(card[c], logged[c])
    BY <1>2, Parts, SoundByCards
  <2>2. card[c] \in CardRows
    BY <2>1 DEF SoundCard, Exists
  <2>3. SoundCard(card'[c], logged'[c])
    BY <1>2, <1>3 DEF CardsAreSound, SoundCard, AttentionTypeOK, StatusFollowsState,
       ClosedCardsAreLogged, SnoozesHaveDates, Exists, IsOpen
  <2>4. card'[c] = card[c] \/ card'[c].status \in {"open", "dismissed"}
    <3> DEFINE deferred == [status |-> "open", state |-> "operator_deferred",
                            resurface |-> "later"]
               closed == [status |-> "dismissed", state |-> "dismissed", resurface |-> "none"]
               dated == [card[c] EXCEPT !.resurface = "due"]
               back == [card[c] EXCEPT !.state = "ready_for_review", !.resurface = "none"]
    <3>1. card'[c] \in {card[c], deferred, closed}
          \/ (IsOpen(c) /\ card'[c] \in {dated, back})
      <4>0. card \in [Cards -> CardRows \union {NoCard}]
        BY Parts DEF CardsAreSound, AttentionTypeOK
      <4>1. CASE k \in Candidates /\ Dismiss(k)
        BY <1>2, <4>1 DEF Dismiss, Closed
      <4>2. CASE k \in Candidates /\ Defer(k)
        BY <1>2, <4>0, <4>2 DEF Defer
      <4>3. CASE k \in Candidates /\ DateIsReached(k)
        BY <1>2, <4>0, <4>3 DEF DateIsReached
      <4>4. CASE ResurfaceDue
        BY <1>2, <4>4 DEF ResurfaceDue, DueCards
      <4> QED
        BY <1>1, <4>1, <4>2, <4>3, <4>4
    <3>2. IsOpen(c) => dated.status = "open" /\ back.status = "open"
      BY <2>2 DEF IsOpen, CardRows
    <3>3. deferred.status = "open" /\ closed.status = "dismissed"
      OBVIOUS
    <3> HIDE DEF deferred, closed, dated, back
    <3> QED
      BY <3>1, <3>2, <3>3
  <2> QED
    BY <2>2, <2>4 DEF Exists, NoCard
<1> QED
  BY <1>1, <1>3, <1>4, Parts, CardStepKeeps DEF discoveryVars, BeingCarded

LEMMA DecideKeeps ==
    ASSUME DiscoveryInv, NEW k \in Candidates, Confirm(k) \/ Reject(k) PROVE DiscoveryInv'
<1>1. PICK s \in {"confirmed", "rejected"}, q \in ClosedStates :
          Decided({k}, s) /\ Closed({k}, q)
  BY DEF Confirm, Reject, ClosedStates
<1>2. /\ candidate[k] # Absent
      /\ Deciding
      /\ tracked' \in {tracked, TRUE}
      /\ UNCHANGED <<handled, thesis, scan, nominate, faults>>
  BY DEF Confirm, Reject
<1>3. decisions' \in 0..MaxDecisions
  BY <1>2, Parts, Bounds DEF Deciding
<1>4. {k} \subseteq Candidates /\ {k} \subseteq Cards /\ Candidates \subseteq Cards
  BY CardAssumption
<1>5. CardsAreSound'
  BY <1>1, <1>2, <1>4, Parts, HandledStays, ClosedKeeps
<1>6. \A c \in Candidates : Exists(c) => Exists(c)'
  BY <1>1, <1>4, Parts, ClosedKeepsExistence
<1>7. /\ candidate' \in [Candidates -> CandidateRows \union {Absent}]
      /\ \A c \in Candidates : Proposed(c)' => candidate'[c] = candidate[c]
  BY <1>1, <1>2, <1>4, DecidedFacts DEF DiscoveryInv
<1>8. NoProposalIsMade
  BY <1>2, <1>6, <1>7, Parts DEF NoProposalIsMade, BeingCarded
<1> QED
  BY <1>2, <1>3, <1>5, <1>7, <1>8, Parts, InvByParts

(***************************************************************************)
(* The two inserts                                                         *)
(***************************************************************************)
LEMMA NextRowIsUnused ==
    ASSUME Unused # {} PROVE NextRow \in Candidates /\ candidate[NextRow] = Absent
BY DEF NextRow, Unused

LEMMA InsertedFacts ==
    ASSUME DiscoveryInv, NEW k \in Candidates, candidate[k] = Absent, NEW name \in Signals,
           candidate' = [candidate EXCEPT ![k] = [status |-> "proposed", signal |-> name]]
    PROVE  /\ candidate' \in [Candidates -> CandidateRows \union {Absent}]
           /\ SignalOf(k)' = name
           /\ \A c \in Candidates \ {k} : candidate'[c] = candidate[c]
<1>1. [status |-> "proposed", signal |-> name] \in CandidateRows
  BY DEF CandidateRows
<1> QED
  BY <1>1, Parts DEF SignalOf

\* A row that is inserted is on its way to its card, and no other proposal of
\* an interpretation is there.
LEMMA InsertedKeeps ==
    ASSUME DiscoveryInv, NEW k \in Candidates, candidate[k] = Absent, NEW name \in Signals,
           candidate' = [candidate EXCEPT ![k] = [status |-> "proposed", signal |-> name]],
           BeingCarded(k)',
           UNCHANGED <<attentionVars, tracked, thesis, decisions, faults>>,
           scan' \in Scans \union {AtRest}, nominate' \in Nominations \union {AtRest},
           \A c \in Candidates : BeingCarded(c) => BeingCarded(c)',
           name \notin Composed \/ ProposedWith(Composed) = {},
           \/ scan'.step # "insert"
           \/ scan' = scan /\ name \notin Composed
    PROVE  DiscoveryInv'
<1>1. CardsAreSound' /\ DiscoveryTypeOK'
  BY Parts, CardFrame, InsertedFacts DEF DiscoveryTypeOK
<1>2. ProposalsAreShown'
  <2> SUFFICES ASSUME NEW c \in Candidates, Proposed(c)', ~Exists(c)', ~BeingCarded(c)'
               PROVE  faults' > 0
    BY DEF ProposalsAreShown
  <2>1. c # k /\ ~BeingCarded(c)
    OBVIOUS
  <2>2. Proposed(c) /\ ~Exists(c)
    BY <2>1, InsertedFacts DEF Proposed, Exists, attentionVars
  <2> QED
    BY <2>1, <2>2 DEF DiscoveryInv, ProposalsAreShown
<1>3. \A c \in Candidates : c \in ProposedWith(Composed)' =>
          \/ c = k /\ name \in Composed
          \/ c \in ProposedWith(Composed) /\ SignalOf(c)' = SignalOf(c)
  BY InsertedFacts DEF ProposedWith, Proposed, SignalOf
<1>4. OneInterpretation'
  <2> SUFFICES ASSUME NEW c \in ProposedWith(Composed)', NEW d \in ProposedWith(Composed)'
               PROVE  c = d
    BY DEF OneInterpretation
  <2>1. c \in Candidates /\ d \in Candidates
    BY DEF ProposedWith
  <2> QED
    BY <1>3, <2>1 DEF DiscoveryInv, OneInterpretation
<1>5. InsertIsAlone'
  <2> SUFFICES ASSUME scan'.step = "insert", NEW c \in ProposedWith(Composed)'
               PROVE  SignalOf(c)' = scan'.name
    BY DEF InsertIsAlone
  <2>1. scan' = scan /\ name \notin Composed /\ c \in Candidates
    BY DEF ProposedWith
  <2>2. c \in ProposedWith(Composed) /\ SignalOf(c)' = SignalOf(c)
    BY <1>3, <2>1
  <2> QED
    BY <2>1, <2>2 DEF DiscoveryInv, InsertIsAlone
<1> QED
  BY <1>1, <1>2, <1>4, <1>5 DEF DiscoveryInv

LEMMA InsertCandidateKeeps ==
    ASSUME DiscoveryInv, InsertCandidate PROVE DiscoveryInv'
<1>1. /\ scan.step = "insert"
      /\ UNCHANGED <<attentionVars, tracked, thesis, nominate, decisions, faults>>
  BY DEF InsertCandidate
<1>2. CASE ~(ProposedWith({scan.name}) = {} /\ Unused # {})
  <2>1. UNCHANGED candidate /\ scan' = AtRest /\ scan'.step # "insert"
    BY <1>2 DEF InsertCandidate, AtRest
  <2>2. \A c \in Candidates : BeingCarded(c) => BeingCarded(c)'
    BY <1>1 DEF BeingCarded
  <2> QED
    BY <1>1, <2>1, <2>2, Parts, BystanderKeeps
<1>3. CASE ProposedWith({scan.name}) = {} /\ Unused # {}
  <2>1. PICK k \in Candidates : k = NextRow /\ candidate[k] = Absent
    BY <1>3, NextRowIsUnused
  <2>2. scan.name \in Composed
    BY <1>1, Parts DEF Scans, AtRest
  <2>3. PICK name \in Composed : name = scan.name
    BY <2>2
  <2>4. /\ candidate' = [candidate EXCEPT ![k] = [status |-> "proposed", signal |-> name]]
        /\ scan' = [step |-> "card", made |-> k]
    BY <1>3, <2>1, <2>3 DEF InsertCandidate, Inserted
  <2>5. ProposedWith(Composed) = {}
    BY <1>1, <1>3, <2>2 DEF DiscoveryInv, InsertIsAlone, ProposedWith
  <2>6. /\ scan' \in Scans /\ scan'.step # "insert" /\ BeingCarded(k)'
        /\ name \in Signals
    BY <2>4 DEF Scans, BeingCarded, Signals
  <2>7. \A c \in Candidates : BeingCarded(c) => BeingCarded(c)'
    BY <1>1 DEF BeingCarded
  <2> QED
    BY <1>1, <2>1, <2>4, <2>5, <2>6, <2>7, Parts, InsertedKeeps
<1> QED
  BY <1>2, <1>3

LEMMA InsertNominationKeeps ==
    ASSUME DiscoveryInv, InsertNomination PROVE DiscoveryInv'
<1>1. /\ nominate.step = "insert"
      /\ UNCHANGED <<attentionVars, tracked, thesis, scan, decisions, faults>>
  BY DEF InsertNomination
<1>2. \A c \in Candidates : BeingCarded(c) => BeingCarded(c)'
  BY <1>1 DEF BeingCarded
<1>3. CASE Unused = {}
  <2>1. UNCHANGED candidate /\ nominate' = [step |-> "trim"]
    BY <1>3 DEF InsertNomination
  <2>2. nominate' \in Nominations
    BY <2>1 DEF Nominations
  <2> QED
    BY <1>1, <1>2, <2>1, <2>2, Parts, BystanderKeeps
<1>4. CASE Unused # {}
  <2>1. PICK k \in Candidates : k = NextRow /\ candidate[k] = Absent
    BY <1>4, NextRowIsUnused
  <2>2. /\ candidate' = [candidate EXCEPT
               ![k] = [status |-> "proposed", signal |-> Nomination]]
        /\ nominate' = [step |-> "card", made |-> k]
    BY <1>4, <2>1 DEF InsertNomination, Inserted
  <2>3. /\ nominate' \in Nominations /\ BeingCarded(k)'
        /\ Nomination \in Signals /\ Nomination \notin Composed
    BY <2>2 DEF Nominations, BeingCarded, Signals, Nomination, Composed
  <2> QED
    BY <1>1, <1>2, <2>1, <2>2, <2>3, Parts, InsertedKeeps
<1> QED
  BY <1>3, <1>4

(***************************************************************************)
(* The theorems                                                            *)
(***************************************************************************)
LEMMA DiscoveryInitInv == DiscoveryInit => DiscoveryInv
<1> SUFFICES ASSUME DiscoveryInit PROVE DiscoveryInv
  OBVIOUS
<1> DEFINE old == [status |-> "proposed", signal |-> "volume_anomaly"]
<1>1. old \in CandidateRows /\ old.status = "proposed" /\ old.signal \notin Composed
  BY DEF CandidateRows, Signals, RawSignals, Composed
<1>2. candidate \in [Candidates -> {Absent, old}]
  BY DEF DiscoveryInit
<1> HIDE DEF old
<1>3. DiscoveryTypeOK
  <2>1. candidate \in [Candidates -> CandidateRows \union {Absent}]
    BY <1>1, <1>2
  <2>2. tracked \in BOOLEAN /\ thesis \in Theses
    BY ThesisAssumption DEF DiscoveryInit
  <2>3. scan = AtRest /\ nominate = AtRest /\ decisions \in 0..MaxDecisions
        /\ faults \in 0..MaxFaults
    BY Bounds DEF DiscoveryInit
  <2> QED
    BY <2>1, <2>2, <2>3 DEF DiscoveryTypeOK
<1>4. CardsAreSound
  <2>1. \A k \in Cards : SoundCard(card[k], logged[k])
    <3> SUFFICES ASSUME NEW k \in Cards PROVE SoundCard(card[k], logged[k])
      OBVIOUS
    <3>1. logged[k] = "none" /\ card[k] \in {Fresh("ready_for_review"), NoCard}
      BY DEF DiscoveryInit
    <3>2. SoundCard(Fresh("ready_for_review"), "none")
      BY FreshIsSound DEF OpenStates
    <3>3. SoundCard(NoCard, "none")
      BY DEF SoundCard
    <3> QED
      BY <3>1, <3>2, <3>3
  <2>2. /\ card = [k \in Cards |-> card[k]]
        /\ logged = [k \in Cards |-> logged[k]]
        /\ handled \in 0..MaxHandlings
    BY HandlingBound DEF DiscoveryInit
  <2> QED
    BY <2>1, <2>2, SoundByCards
<1>5. ProposalsAreShown
  <2> SUFFICES ASSUME NEW c \in Candidates, Proposed(c) PROVE Exists(c)
    BY DEF ProposalsAreShown
  <2>1. candidate[c] # Absent /\ c \in Cards
    BY CardAssumption DEF Proposed, Absent
  <2>2. card[c] = Fresh("ready_for_review")
    BY <2>1 DEF DiscoveryInit
  <2>3. Fresh("ready_for_review") # NoCard
    BY FreshIsSound DEF OpenStates
  <2> QED
    BY <2>2, <2>3 DEF Exists
<1>6. OneInterpretation
  <2>1. \A c \in Candidates : Proposed(c) => SignalOf(c) \notin Composed
    <3> SUFFICES ASSUME NEW c \in Candidates, Proposed(c) PROVE SignalOf(c) \notin Composed
      OBVIOUS
    <3>1. candidate[c] = old
      BY <1>2 DEF Proposed, Absent
    <3> QED
      BY <1>1, <3>1 DEF SignalOf
  <2> QED
    BY <2>1 DEF OneInterpretation, ProposedWith
<1>7. InsertIsAlone
  BY DEF DiscoveryInit, InsertIsAlone, AtRest
<1> QED
  BY <1>3, <1>4, <1>5, <1>6, <1>7 DEF DiscoveryInv

LEMMA DiscoveryNextInv == DiscoveryInv /\ [DiscoveryNext]_workbenchVars => DiscoveryInv'
<1> SUFFICES ASSUME DiscoveryInv, [DiscoveryNext]_workbenchVars PROVE DiscoveryInv'
  OBVIOUS
<1>1. CASE ScanStep
  <2>1. CASE \E h \in Hits, e \in Marks : ReadSymbol(h, e)
    BY <2>1, ReadSymbolKeeps
  <2>2. CASE StartScan \/ ClearAll \/ ClearRaw \/ SupersedeStale
    BY <2>2, StartScanKeeps, ClearAllKeeps, ClearRawKeeps, SupersedeStaleKeeps
  <2>3. CASE InsertCandidate \/ InsertCard \/ RaiseTrigger
    BY <2>3, InsertCandidateKeeps, InsertCardKeeps, RaiseTriggerKeeps
  <2> QED
    BY <1>1, <2>1, <2>2, <2>3 DEF ScanStep
<1>2. CASE NominateStep
  BY <1>2, StartNominationKeeps, InsertNominationKeeps, InsertNominationCardKeeps, TrimKeeps
  DEF NominateStep
<1>3. CASE ScanFails \/ NominationFails
  BY <1>3, FailuresKeep
<1>4. CASE \E c \in Candidates : Confirm(c) \/ Reject(c)
  BY <1>4, DecideKeeps
<1>5. CASE Track \/ \E to \in Theses : ThesisMoves(to)
  BY <1>5, SymbolMovesKeeps
<1>6. CASE \/ \E c \in Candidates : OnCards(Dismiss(c) \/ Defer(c) \/ DateIsReached(c))
           \/ OnCards(ResurfaceDue)
  BY <1>6, CardHandlingKeeps
<1>7. CASE UNCHANGED workbenchVars
  <2>1. UNCHANGED <<attentionVars, candidate, tracked, thesis, scan, nominate, decisions, faults>>
    BY <1>7 DEF workbenchVars, discoveryVars
  <2>2. \A c \in Candidates : BeingCarded(c) => BeingCarded(c)'
    BY <2>1 DEF BeingCarded
  <2> QED
    BY <2>1, <2>2, Parts, BystanderKeeps
<1> QED
  BY <1>1, <1>2, <1>3, <1>4, <1>5, <1>6, <1>7 DEF DiscoveryNext

\* The inductive invariant of discovery/service.rs, discovery_pool_service.rs
\* and the attention statements of store.rs.
THEOREM DiscoveryInvHolds == DiscoverySpec => []DiscoveryInv
BY DiscoveryInitInv, DiscoveryNextInv, PTL DEF DiscoverySpec

\* Candidates, cards and the steps of the two loops keep their types.
THEOREM WorkbenchTypeCorrect == DiscoverySpec => [](AttentionTypeOK /\ DiscoveryTypeOK)
<1>1. DiscoveryInv => AttentionTypeOK /\ DiscoveryTypeOK
  BY DEF DiscoveryInv, CardsAreSound
<1> QED
  BY <1>1, DiscoveryInvHolds, PTL

\* Whatever the scanner, the pool loop and the operator do between each other's
\* statements, the two columns of a card and its history agree, a proposal
\* without a card was left by a failure, and one interpretation is proposed.
THEOREM QueueSound == DiscoverySpec => []QueueIsSound
<1>1. DiscoveryInv => QueueIsSound
  BY DEF DiscoveryInv, CardsAreSound, QueueIsSound
<1> QED
  BY <1>1, DiscoveryInvHolds, PTL

\* What a step that changes a candidate does to its card.
LEMMA ClosedIsNotOpen ==
    ASSUME CardsAreSound, NEW K \in SUBSET Cards, NEW state \in ClosedStates,
           Closed(K, state), NEW k \in K
    PROVE  card'[k].status # "open"
<1>1. CASE IsOpen(k)
  BY <1>1 DEF Closed, ClosedStates
<1>2. CASE ~IsOpen(k)
  <2>1. card'[k] = card[k]
    BY <1>2 DEF Closed
  <2> QED
    BY <1>2, <2>1 DEF IsOpen, Exists, NoCard
<1> QED
  BY <1>1, <1>2

LEMMA SupersedeCloses ==
    ASSUME CardsAreSound, NEW C \in SUBSET Candidates, Supersede(C), NEW c \in Candidates,
           candidate'[c] # candidate[c]
    PROVE  card'[c].status # "open"
<1>1. c \in C
  BY DEF Supersede, Decided
<1>2. C \subseteq Cards /\ Closed(C, "dismissed") /\ "dismissed" \in ClosedStates
  BY CardAssumption DEF Supersede, ClosedStates
<1> QED
  BY <1>1, <1>2, ClosedIsNotOpen

LEMMA DecideCloses ==
    ASSUME DiscoveryInv, NEW k \in Candidates, Confirm(k) \/ Reject(k), NEW c \in Candidates,
           candidate'[c] # candidate[c]
    PROVE  card'[c].status # "open"
<1>1. PICK q \in ClosedStates : Closed({k}, q)
  BY DEF Confirm, Reject, ClosedStates
<1>2. c = k
  BY DEF Confirm, Reject, Decided
<1>3. {k} \subseteq Cards
  BY CardAssumption
<1> QED
  BY <1>1, <1>2, <1>3, Parts, ClosedIsNotOpen

LEMMA InsertsAreNew ==
    ASSUME DiscoveryInv, InsertCandidate \/ InsertNomination, NEW c \in Candidates,
           candidate[c] # Absent
    PROVE  candidate'[c] = candidate[c]
<1>1. CASE candidate' = candidate
  BY <1>1
<1>2. CASE Unused # {} /\ \E name \in Signals \union {scan.name} : Inserted(NextRow, name)
  <2>1. c # NextRow
    BY <1>2, NextRowIsUnused
  <2> QED
    BY <1>2, <2>1, Parts DEF Inserted
<1> QED
  BY <1>1, <1>2 DEF InsertCandidate, InsertNomination, Signals

LEMMA DecisionStep ==
    ASSUME DiscoveryInv, [DiscoveryNext]_workbenchVars, NEW c \in Candidates,
           candidate'[c] # candidate[c], candidate[c] # Absent
    PROVE  card'[c].status # "open"
<1>1. CASE StartScan \/ ClearAll \/ ClearRaw \/ SupersedeStale
           \/ \E b \in BOOLEAN : Trim(b)
  <2>1. PICK C \in SUBSET Candidates : Supersede(C)
    <3>1. Proposals \subseteq Candidates /\ \A names : ProposedWith(names) \subseteq Candidates
      BY DEF Proposals, ProposedWith
    <3> QED
      BY <1>1, <3>1 DEF StartScan, ClearAll, ClearRaw, SupersedeStale, Trim
  <2> QED
    BY <2>1, Parts, SupersedeCloses
<1>2. CASE \E k \in Candidates : Confirm(k) \/ Reject(k)
  BY <1>2, DecideCloses
<1>3. CASE InsertCandidate \/ InsertNomination
  BY <1>3, InsertsAreNew
<1>4. CASE candidate' = candidate
  BY <1>4
<1>5. \/ StartScan \/ ClearAll \/ ClearRaw \/ SupersedeStale
      \/ \E b \in BOOLEAN : Trim(b)
      \/ \E k \in Candidates : Confirm(k) \/ Reject(k)
      \/ InsertCandidate \/ InsertNomination
      \/ candidate' = candidate
  <2>1. CASE ScanStep
    BY <2>1 DEF ScanStep, ReadSymbol, InsertCard, RaiseTrigger
  <2>2. CASE NominateStep
    BY <2>2 DEF NominateStep, StartNomination, InsertNominationCard
  <2>3. CASE ScanFails \/ NominationFails \/ Track \/ \E to \in Theses : ThesisMoves(to)
    BY <2>3 DEF ScanFails, NominationFails, Track, ThesisMoves
  <2>4. CASE UNCHANGED discoveryVars
    BY <2>4 DEF discoveryVars
  <2> QED
    BY <2>1, <2>2, <2>3, <2>4 DEF DiscoveryNext, OnCards, workbenchVars
<1> QED
  BY <1>1, <1>2, <1>3, <1>4, <1>5

\* Queue and candidate stay consistent: no way of deciding a candidate leaves
\* its card open.
THEOREM DecisionsClose == DiscoverySpec => DecisionsCloseCards
<1>1. DiscoveryInv /\ [DiscoveryNext]_workbenchVars =>
          [\A c \in Candidates : candidate'[c] # candidate[c] /\ candidate[c] # Absent
              => card'[c].status # "open"]_workbenchVars
  BY DecisionStep
<1> QED
  BY <1>1, DiscoveryInvHolds, PTL DEF DiscoverySpec, DecisionsCloseCards

(***************************************************************************)
(* The cards of the other kinds                                            *)
(***************************************************************************)
LEMMA OneRowKeeps ==
    ASSUME CardsAreSound, NEW k \in Cards, NEW c, NEW l, SoundCard(c, l),
           card' = [card EXCEPT ![k] = c], logged' = [logged EXCEPT ![k] = l],
           handled' \in 0..MaxHandlings
    PROVE  CardsAreSound'
<1>1. card = [j \in Cards |-> card[j]] /\ logged = [j \in Cards |-> logged[j]]
  BY SoundByCards
<1>2. card' = [j \in Cards |-> card'[j]] /\ logged' = [j \in Cards |-> logged'[j]]
  BY <1>1
<1>3. \A j \in Cards : \/ card'[j] = card[j] /\ logged'[j] = logged[j]
                       \/ SoundCard(card'[j], logged'[j])
  BY <1>1
<1> QED
  BY <1>2, <1>3, SoundStep

LEMMA UpsertLoggedKeeps ==
    ASSUME CardsAreSound, NEW k \in Cards, NEW state \in OpenStates,
           state # "operator_deferred", UpsertLogged(k, state)
    PROVE  /\ CardsAreSound'
           /\ \A j \in Cards : Exists(j) => Exists(j)'
<1>1. handled' \in 0..MaxHandlings
  BY HandledStays DEF UpsertLogged
<1>2. CASE IsOpen(k)
  BY <1>2, CardFrame DEF UpsertLogged, attentionVars, Exists
<1>3. CASE ~IsOpen(k)
  <2>1. SoundCard(Fresh(state), state) /\ Fresh(state) # NoCard
    BY FreshIsSound DEF FsmStates
  <2>2. card' = [card EXCEPT ![k] = Fresh(state)] /\ logged' = [logged EXCEPT ![k] = state]
    BY <1>3 DEF UpsertLogged
  <2>3. \A j \in Cards : card'[j] \in {card[j], Fresh(state)}
    BY <2>2, SoundByCards
  <2> QED
    BY <1>1, <2>1, <2>2, <2>3, OneRowKeeps DEF Exists
<1> QED
  BY <1>2, <1>3

LEMMA ReviseKeeps ==
    ASSUME CardsAreSound, NEW k \in Cards, Revise(k)
    PROVE  /\ CardsAreSound'
           /\ \A j \in Cards : Exists(j) => Exists(j)'
<1>1. handled' \in 0..MaxHandlings
  BY HandledStays DEF Revise
<1> DEFINE r == Fresh("ready_for_review")
<1>2. \A l \in FsmStates \union {"none"} : SoundCard(r, l) /\ r # NoCard
  BY FreshIsSound DEF OpenStates
<1>3. CASE IsOpen(k)
  <2>1. card' = [card EXCEPT ![k] = r] /\ logged' = logged
    BY <1>3 DEF Revise
  <2>2. card = [j \in Cards |-> card[j]] /\ logged = [j \in Cards |-> logged[j]]
        /\ logged[k] \in FsmStates \union {"none"}
    BY SoundByCards DEF SoundCard
  <2> HIDE DEF r
  <2>3. logged' = [logged EXCEPT ![k] = logged[k]]
    BY <2>1, <2>2
  <2>4. \A j \in Cards : card'[j] \in {card[j], r}
    BY <2>1, <2>2
  <2> QED
    BY <1>1, <1>2, <2>1, <2>2, <2>3, <2>4, OneRowKeeps DEF Exists
<1>4. CASE ~IsOpen(k)
  <2>1. Raised({k}, "ready_for_review") /\ "ready_for_review" \in OpenStates
    BY <1>4 DEF Revise, OpenStates
  <2> QED
    BY <1>1, <2>1, RaisedKeeps, RaisedExists
<1> QED
  BY <1>3, <1>4

LEMMA RefreshStays ==
    ASSUME CardsAreSound, NEW k \in Cards, NEW state \in OpenStates, Refresh(k, state),
           NEW j \in Cards, Exists(j)
    PROVE  Exists(j)'
<1>1. CASE IsOpen(k)
  <2>1. card \in [Cards -> CardRows \union {NoCard}]
    BY DEF CardsAreSound, AttentionTypeOK
  <2>2. card[k] \in CardRows
    BY <1>1, <2>1 DEF IsOpen, Exists
  <2>3. [card[k] EXCEPT !.state = state] \in CardRows
    BY <2>2 DEF CardRows, FsmStates
  <2>4. card' = [card EXCEPT ![k].state = state]
    BY <1>1 DEF Refresh
  <2>5. card'[j] \in {card[j], [card[k] EXCEPT !.state = state]}
    BY <2>1, <2>4
  <2> QED
    BY <2>3, <2>5, RowIsNoAbsence DEF Exists
<1>2. CASE ~IsOpen(k)
  <2>1. Raised({k}, state)
    BY <1>2 DEF Refresh
  <2> QED
    BY <2>1, RaisedExists
<1> QED
  BY <1>1, <1>2

LEMMA ResolveKeeps ==
    ASSUME CardsAreSound, NEW k \in Cards, Resolve(k)
    PROVE  /\ CardsAreSound'
           /\ \A j \in Cards : Exists(j) => Exists(j)'
<1>1. handled' \in 0..MaxHandlings
  BY HandledStays DEF Resolve
<1>2. Closed({k}, "resolved") /\ "resolved" \in ClosedStates
  BY DEF Resolve, ClosedStates
<1> QED
  BY <1>1, <1>2, ClosedKeeps, ClosedKeepsExistence

\* The operator may give any open card any state and any date.
LEMMA TransitionKeeps ==
    ASSUME CardsAreSound, NEW k \in Cards, NEW to \in FsmStates, NEW date \in Dates,
           Transition(k, to, date)
    PROVE  /\ CardsAreSound'
           /\ \A j \in Cards : Exists(j) => Exists(j)'
<1> DEFINE r == [status |-> StatusForState(to), state |-> to,
                 resurface |-> IF to = "operator_deferred" /\ date = "none"
                               THEN "later" ELSE date]
<1>1. handled' \in 0..MaxHandlings
  BY HandledStays, HandlingBound DEF Transition, Handling
<1>2. card' = [card EXCEPT ![k] = r] /\ logged' = [logged EXCEPT ![k] = to]
  BY DEF Transition
<1>3. r \in CardRows
  BY DEF CardRows, Statuses, Dates, StatusForState, ClosedStates
<1>4. r # NoCard
  BY <1>3, RowIsNoAbsence
<1>5. SoundCard(r, to)
  BY <1>3 DEF SoundCard, StatusForState
<1> HIDE DEF r
<1>6. \A j \in Cards : card'[j] \in {card[j], r}
  BY <1>2, SoundByCards
<1> QED
  BY <1>1, <1>2, <1>4, <1>5, <1>6, OneRowKeeps DEF Exists

LEMMA HandleKeeps ==
    ASSUME CardsAreSound, NEW k \in Cards, Handle(k) \/ DateIsReached(k)
    PROVE  /\ CardsAreSound'
           /\ \A j \in Cards : Exists(j) => Exists(j)'
<1>0. card \in [Cards -> CardRows \union {NoCard}]
  BY DEF CardsAreSound, AttentionTypeOK
<1>1. CASE Dismiss(k)
  <2>1. Closed({k}, "dismissed") /\ "dismissed" \in ClosedStates
    BY <1>1 DEF Dismiss, ClosedStates
  <2> QED
    BY <1>1, <2>1, DismissKeeps, ClosedKeepsExistence
<1>2. CASE Defer(k)
  <2> DEFINE r == [status |-> "open", state |-> "operator_deferred", resurface |-> "later"]
  <2>1. card' = [card EXCEPT ![k] = r]
    BY <1>2 DEF Defer
  <2>2. r \in CardRows
    BY DEF CardRows, Statuses, FsmStates, OpenStates, Dates
  <2> HIDE DEF r
  <2>3. \A j \in Cards : card'[j] \in {card[j], r}
    BY <1>0, <2>1
  <2> QED
    BY <1>2, <2>2, <2>3, DeferKeeps, RowIsNoAbsence DEF Exists
<1>3. CASE \E to \in FsmStates, date \in Dates : Transition(k, to, date)
  BY <1>3, TransitionKeeps
<1>4. CASE DateIsReached(k)
  <2> DEFINE r == [card[k] EXCEPT !.resurface = "due"]
  <2>1. card' = [card EXCEPT ![k].resurface = "due"] /\ card[k] \in CardRows
    BY <1>0, <1>4 DEF DateIsReached, IsOpen, Exists
  <2>2. r \in CardRows
    BY <2>1 DEF CardRows, Dates
  <2>3. \A j \in Cards : card'[j] \in {card[j], r}
    BY <1>0, <2>1
  <2> HIDE DEF r
  <2> QED
    BY <1>4, <2>2, <2>3, DateIsReachedKeeps, RowIsNoAbsence DEF Exists
<1> QED
  BY <1>1, <1>2, <1>3, <1>4 DEF Handle

LEMMA ProduceKeeps ==
    ASSUME CardsAreSound, NEW k \in Cards, Produce(k)
    PROVE  /\ CardsAreSound'
           /\ \A j \in Cards : Exists(j) => Exists(j)'
<1> DEFINE Raisable == OpenStates \ {"operator_deferred"}
<1>1. /\ {"evaluating", "waiting_on_data", "ready_for_review", "actionable", "blocked"}
             \subseteq Raisable
      /\ InitialState("thesis_incomplete") = "evaluating"
      /\ InitialState("thesis_actionable") = "actionable"
      /\ InitialState("context_stale") = "waiting_on_data"
      /\ InitialState("risk_review") = "ready_for_review"
      /\ InitialState("price_alert") = "ready_for_review"
  BY DEF OpenStates, InitialState
<1>2. CASE \E state \in Raisable : Refresh(k, state)
  BY <1>2, RefreshKeeps, RefreshStays
<1>3. CASE \E state \in Raisable : Upsert(k, state)
  BY <1>3, UpsertKeeps, UpsertExists
<1>4. CASE \E state \in Raisable : UpsertLogged(k, state)
  BY <1>4, UpsertLoggedKeeps
<1>5. CASE Revise(k) \/ Resolve(k)
  BY <1>5, ReviseKeeps, ResolveKeeps
<1> HIDE DEF Raisable
<1> QED
  BY <1>1, <1>2, <1>3, <1>4, <1>5 DEF Produce, MissingThesis, ActionableThesis, RiskVerdict

(***************************************************************************)
(* Discovery and the other cards, in any order                             *)
(***************************************************************************)
LEMMA OtherCardsKeep ==
    ASSUME DiscoveryInv, UNCHANGED discoveryVars, CardsAreSound',
           \A j \in Cards : Exists(j) => Exists(j)'
    PROVE  DiscoveryInv'
<1>1. \A c \in Candidates : Exists(c) => Exists(c)'
  BY CardAssumption
<1> QED
  BY <1>1, Parts, CardStepKeeps DEF discoveryVars, BeingCarded

LEMMA BenchStep ==
    ASSUME DiscoveryInv, BenchNext PROVE DiscoveryInv'
<1>1. CASE DiscoveryNext
  BY <1>1, DiscoveryNextInv
<1>2. CASE \E k \in Others : OnCards(Produce(k))
  BY <1>2, Parts, ProduceKeeps, OtherCardsKeep DEF OnCards, Others
<1>3. CASE \E k \in Cards : OnCards(Handle(k) \/ DateIsReached(k))
  BY <1>3, Parts, HandleKeeps, OtherCardsKeep DEF OnCards
<1> QED
  BY <1>1, <1>2, <1>3 DEF BenchNext

\* The invariant of discovery is one of the whole queue: no producer, resolver
\* or move of the operator on any card of any kind disturbs it.
THEOREM BenchInvHolds == BenchSpec => []DiscoveryInv
<1>1. BenchInit => DiscoveryInv
  BY DiscoveryInitInv DEF BenchInit
<1>2. DiscoveryInv /\ [BenchNext]_benchVars => DiscoveryInv'
  <2>1. DiscoveryInv /\ UNCHANGED benchVars => DiscoveryInv'
    BY DiscoveryNextInv DEF benchVars
  <2> QED
    BY <2>1, BenchStep
<1> QED
  BY <1>1, <1>2, PTL DEF BenchSpec

\* Every card, its history and the steps of the two loops keep their types,
\* however many cards of however many kinds share the queue.
THEOREM BenchTypeCorrect == BenchSpec => []WorkbenchTypeOK
<1>1. DiscoveryInv => WorkbenchTypeOK
  BY DEF DiscoveryInv, CardsAreSound, WorkbenchTypeOK
<1> QED
  BY <1>1, BenchInvHolds, PTL

\* The columns of every card agree with each other and with its history, no
\* deferred card is left without its date, and the candidates stay in step
\* with their cards, whatever happens to the other cards in between.
THEOREM BenchQueueSound == BenchSpec => []QueueIsSound
<1>1. DiscoveryInv => QueueIsSound
  BY DEF DiscoveryInv, CardsAreSound, QueueIsSound
<1> QED
  BY <1>1, BenchInvHolds, PTL

\* No step of the whole queue decides a candidate and leaves its card open.
THEOREM BenchDecisionsClose == BenchSpec => DecisionsCloseCards
<1>1. DiscoveryInv /\ [BenchNext]_benchVars =>
          [\A c \in Candidates : candidate'[c] # candidate[c] /\ candidate[c] # Absent
              => card'[c].status # "open"]_workbenchVars
  <2> SUFFICES ASSUME DiscoveryInv, [BenchNext]_benchVars,
                      NEW c \in Candidates, candidate'[c] # candidate[c], candidate[c] # Absent
               PROVE  card'[c].status # "open"
    OBVIOUS
  <2>1. CASE DiscoveryNext
    BY <2>1, DecisionStep
  <2>2. CASE UNCHANGED discoveryVars
    BY <2>2 DEF discoveryVars
  <2> QED
    BY <2>1, <2>2 DEF BenchNext, OnCards, benchVars, workbenchVars
<1> QED
  BY <1>1, BenchInvHolds, PTL DEF BenchSpec, DecisionsCloseCards
=============================================================================
