------------------------------ MODULE Discovery ------------------------------
(***************************************************************************)
(* Discovery candidates of one symbol and their review cards.              *)
(*                                                                         *)
(* The scanner reads the symbol, composes at most one interpretation and   *)
(* persists it in separate statements: stale candidates are superseded,    *)
(* the candidate inserted, its card inserted.  The pool loop nominates the *)
(* symbol for research in the same way and trims nominations to a review   *)
(* budget.  The operator confirms, rejects, dismisses or defers at any     *)
(* time, and the symbol may become tracked or get a thesis meanwhile.      *)
(***************************************************************************)
EXTENDS Attention, SignalComposition

CONSTANTS
    Candidates,     \* identities of rows of discovery_candidate
    Trigger,        \* the thesis_actionable card of the symbol's thesis
    Theses,         \* what a thesis may offer: "none", "open", "armed"
    Hits,           \* what the detectors may say
    Marks,          \* price extensions the scanner may read
    MaxDecisions,   \* bound: candidates confirmed or rejected
    MaxFaults       \* bound: failed statements and restarts

ASSUME CardAssumption == Candidates \union {Trigger} \subseteq Cards
ASSUME TriggerAssumption == Trigger \notin Candidates
ASSUME ThesisAssumption == "none" \in Theses /\ Theses \subseteq {"none", "open", "armed"}
ASSUME HitAssumption == Hits \subseteq HitRows
ASSUME MarkAssumption == Marks \subseteq Extensions \union {NoExtension}
ASSUME DiscoveryBoundAssumption == {MaxDecisions, MaxFaults} \subseteq Nat

VARIABLES
    candidate,  \* discovery_candidate: status and signal
    tracked,    \* the symbol is an active ticker
    thesis,     \* what the symbol's thesis offers the scanner
    scan,       \* the step of the scanner, and what it read
    nominate,   \* the step of the pool loop
    decisions,
    faults

discoveryVars == <<candidate, tracked, thesis, scan, nominate, decisions, faults>>
workbenchVars == <<attentionVars, discoveryVars>>

Nomination == "research_nomination"
Signals == Composed \union RawSignals \union {Nomination}
Absent == [status |-> "absent"]
CandidateRows ==
    [status : {"proposed", "confirmed", "rejected", "superseded"}, signal : Signals]

AtRest == [step |-> "rest"]
Scans ==
    [step : {"read", "clear_all"}]
        \union [step : {"clear_raw"}, raw : SUBSET RawSignals]
        \union [step : {"supersede", "insert"}, name : Composed,
                raw : SUBSET RawSignals]
        \union [step : {"card"}, made : Candidates]
Nominations == [step : {"insert", "trim"}] \union [step : {"card"}, made : Candidates]

DiscoveryTypeOK ==
    /\ candidate \in [Candidates -> CandidateRows \union {Absent}]
    /\ tracked \in BOOLEAN
    /\ thesis \in Theses
    /\ scan \in Scans \union {AtRest}
    /\ nominate \in Nominations \union {AtRest}
    /\ decisions \in 0..MaxDecisions
    /\ faults \in 0..MaxFaults

\* Rows of a raw signal are left from before the composer.
DiscoveryInit ==
    /\ candidate \in [Candidates ->
           {Absent, [status |-> "proposed", signal |-> "volume_anomaly"]}]
    /\ \A c, d \in Candidates :
           candidate[c] # Absent /\ candidate[d] # Absent => c = d
    /\ card = [k \in Cards |->
           IF k \in Candidates /\ candidate[k] # Absent
           THEN Fresh("ready_for_review") ELSE NoCard]
    /\ logged = [k \in Cards |-> "none"]
    /\ handled = 0
    /\ tracked = FALSE
    /\ thesis = "none"
    /\ scan = AtRest
    /\ nominate = AtRest
    /\ decisions = 0
    /\ faults = 0

-----------------------------------------------------------------------------
Proposed(c) == candidate[c].status = "proposed"
SignalOf(c) == candidate[c].signal

Proposals == {c \in Candidates : Proposed(c)}
ProposedWith(names) == {c \in Candidates : Proposed(c) /\ SignalOf(c) \in names}

Unused == {c \in Candidates : candidate[c] = Absent}
NextRow == CHOOSE c \in Unused : TRUE

Decided(C, status) ==
    candidate' = [c \in Candidates |->
        IF c \in C THEN [candidate[c] EXCEPT !.status = status] ELSE candidate[c]]

\* The four supersede statements of the scanner and the trim of the pool: the
\* candidates and their open cards in one statement.
Supersede(C) ==
    /\ Decided(C, "superseded")
    /\ Closed(C, "dismissed")
    /\ UNCHANGED handled

Inserted(c, name) ==
    candidate' = [candidate EXCEPT ![c] = [status |-> "proposed", signal |-> name]]

-----------------------------------------------------------------------------
(***************************************************************************)
(* The scanner                                                             *)
(***************************************************************************)
StartScanWithoutClearing ==   \* deliberate error: tracked symbols are not cleared
    /\ scan = AtRest
    /\ scan' = [step |-> "read"]
    /\ UNCHANGED <<attentionVars, candidate, tracked, thesis, nominate, decisions, faults>>

\* run_once begins with supersede_active_ticker_candidate_reviews.
StartScan ==
    /\ scan = AtRest
    /\ Supersede(IF tracked THEN Proposals ELSE {})
    /\ scan' = [step |-> "read"]
    /\ UNCHANGED <<tracked, thesis, nominate, decisions, faults>>

\* scan_one up to its first statement that writes.
ReadSymbol(h, e) ==
    /\ scan.step = "read"
    /\ LET name == Compose(h, e, tracked, thesis = "armed", thesis # "none")
           raw == HitNames(h)
       IN  scan' = CASE raw = {} -> AtRest
                     [] raw # {} /\ name # "none" ->
                            [step |-> "supersede", name |-> name, raw |-> raw]
                     [] raw # {} /\ name = "none" /\ tracked -> [step |-> "clear_all"]
                     [] raw # {} /\ name = "none" /\ ~tracked ->
                            [step |-> "clear_raw", raw |-> raw]
    /\ UNCHANGED <<attentionVars, candidate, tracked, thesis, nominate, decisions, faults>>

\* supersede_open_candidates_for_symbol
ClearAll ==
    /\ scan.step = "clear_all"
    /\ Supersede(Proposals)
    /\ scan' = AtRest
    /\ UNCHANGED <<tracked, thesis, nominate, decisions, faults>>

\* supersede_raw_open_candidates
ClearRaw ==
    /\ scan.step = "clear_raw"
    /\ Supersede(ProposedWith(scan.raw))
    /\ scan' = AtRest
    /\ UNCHANGED <<tracked, thesis, nominate, decisions, faults>>

\* supersede_stale_open_candidates: the other interpretations, and what is left
\* of the raw signals behind this one.
SupersedeStale ==
    /\ scan.step = "supersede"
    /\ Supersede(ProposedWith((Composed \ {scan.name}) \union scan.raw))
    /\ scan' = [scan EXCEPT !.step = "insert"]
    /\ UNCHANGED <<tracked, thesis, nominate, decisions, faults>>

\* persist: no second proposal of one signal.  A bound: a pass that needs a row
\* more than there are Candidates stops here.
InsertCandidate ==
    /\ scan.step = "insert"
    /\ scan.name # "existing_thesis_trigger"
    /\ IF ProposedWith({scan.name}) = {} /\ Unused # {}
       THEN /\ Inserted(NextRow, scan.name)
            /\ scan' = [step |-> "card", made |-> NextRow]
       ELSE candidate' = candidate /\ scan' = AtRest
    /\ UNCHANGED <<attentionVars, tracked, thesis, nominate, decisions, faults>>

InsertCard ==
    /\ scan.step = "card"
    /\ Upsert(scan.made, InitialState("candidate_review"))
    /\ scan' = AtRest
    /\ UNCHANGED <<candidate, tracked, thesis, nominate, decisions, faults>>

\* persist_existing_thesis_trigger
RaiseTrigger ==
    /\ scan.step = "insert"
    /\ scan.name = "existing_thesis_trigger"
    /\ Refresh(Trigger, InitialState("thesis_actionable"))
    /\ scan' = AtRest
    /\ UNCHANGED <<candidate, tracked, thesis, nominate, decisions, faults>>

-----------------------------------------------------------------------------
(***************************************************************************)
(* The pool loop                                                           *)
(***************************************************************************)
Nominated == \E c \in Candidates : candidate[c] # Absent /\ SignalOf(c) = Nomination

\* The eligible rows of queue_research_nominations: never nominated before, and
\* with evidence enough, which may be missing.
StartNomination ==
    /\ nominate = AtRest
    /\ nominate' \in
           {[step |-> "trim"]} \union
           IF tracked \/ thesis # "none" \/ Nominated THEN {}
           ELSE {[step |-> "insert"]}
    /\ UNCHANGED <<attentionVars, candidate, tracked, thesis, scan, decisions, faults>>

InsertNomination ==
    /\ nominate.step = "insert"
    /\ IF Unused # {}
       THEN /\ Inserted(NextRow, Nomination)
            /\ nominate' = [step |-> "card", made |-> NextRow]
       ELSE candidate' = candidate /\ nominate' = [step |-> "trim"]
    /\ UNCHANGED <<attentionVars, tracked, thesis, scan, decisions, faults>>

InsertNominationCard ==
    /\ nominate.step = "card"
    /\ Upsert(nominate.made, InitialState("candidate_review"))
    /\ nominate' = [step |-> "trim"]
    /\ UNCHANGED <<candidate, tracked, thesis, scan, decisions, faults>>

\* trim_open_research_nominations: whether the nomination ranks below the
\* budget depends on the symbols that are not modelled.
Trim(overBudget) ==
    /\ nominate.step = "trim"
    /\ Supersede(IF overBudget THEN ProposedWith({Nomination}) ELSE {})
    /\ nominate' = AtRest
    /\ UNCHANGED <<tracked, thesis, scan, decisions, faults>>

-----------------------------------------------------------------------------
(***************************************************************************)
(* Failures, the operator and the rest of the system                       *)
(***************************************************************************)
Fault == faults < MaxFaults /\ faults' = faults + 1

\* A statement fails or the process restarts: what was written stays.
ScanFails ==
    /\ scan # AtRest
    /\ Fault
    /\ scan' = AtRest
    /\ UNCHANGED <<attentionVars, candidate, tracked, thesis, nominate, decisions>>

NominationFails ==
    /\ nominate # AtRest
    /\ Fault
    /\ nominate' = AtRest
    /\ UNCHANGED <<attentionVars, candidate, tracked, thesis, scan, decisions>>

Deciding == decisions < MaxDecisions /\ decisions' = decisions + 1

\* confirm_discovery_candidate: whatever the status of the candidate is; a new
\* ticker is active.
Confirm(c) ==
    /\ candidate[c] # Absent
    /\ Deciding
    /\ Decided({c}, "confirmed")
    /\ Closed({c}, "resolved")
    /\ tracked' = TRUE
    /\ UNCHANGED <<handled, thesis, scan, nominate, faults>>

RejectLeavesCard(c) ==   \* deliberate error: the card is not dismissed
    /\ candidate[c] # Absent
    /\ Deciding
    /\ Decided({c}, "rejected")
    /\ UNCHANGED <<attentionVars, tracked, thesis, scan, nominate, faults>>

\* reject_discovery_candidate: likewise.
Reject(c) ==
    /\ candidate[c] # Absent
    /\ Deciding
    /\ Decided({c}, "rejected")
    /\ Closed({c}, "dismissed")
    /\ UNCHANGED <<handled, tracked, thesis, scan, nominate, faults>>

\* The symbol becomes an active ticker by another way: research, an import.
Track ==
    /\ ~tracked
    /\ tracked' = TRUE
    /\ UNCHANGED <<attentionVars, candidate, thesis, scan, nominate, decisions, faults>>

\* A thesis is drafted, armed, or closed.
ThesisMoves(to) ==
    /\ to # thesis
    /\ thesis' = to
    /\ UNCHANGED <<attentionVars, candidate, tracked, scan, nominate, decisions, faults>>

-----------------------------------------------------------------------------
ScanStep ==
    \/ StartScan
    \/ \E h \in Hits, e \in Marks : ReadSymbol(h, e)
    \/ ClearAll
    \/ ClearRaw
    \/ SupersedeStale
    \/ InsertCandidate
    \/ InsertCard
    \/ RaiseTrigger

NominateStep ==
    \/ StartNomination
    \/ InsertNomination
    \/ InsertNominationCard
    \/ \E overBudget \in BOOLEAN : Trim(overBudget)

OnCards(A) == A /\ UNCHANGED discoveryVars

\* What the operator does to a card without deciding its candidate is to close
\* it or to put it aside; the other moves are those of any card.
DiscoveryNext ==
    \/ ScanStep
    \/ NominateStep
    \/ ScanFails
    \/ NominationFails
    \/ \E c \in Candidates : Confirm(c) \/ Reject(c)
    \/ Track
    \/ \E to \in Theses : ThesisMoves(to)
    \/ \E c \in Candidates : OnCards(Dismiss(c) \/ Defer(c) \/ DateIsReached(c))
    \/ OnCards(ResurfaceDue)

\* Without the fairness of its timers, which safety does not need.
DiscoverySpec == DiscoveryInit /\ [][DiscoveryNext]_workbenchVars

-----------------------------------------------------------------------------
BeingCarded(c) ==
    \/ scan.step = "card" /\ scan.made = c
    \/ nominate.step = "card" /\ nominate.made = c

\* A proposal nobody can see takes a failure between the two inserts: the next
\* firing of the signal finds the proposal and makes no card for it.
ProposalsAreShown ==
    \A c \in Candidates :
        Proposed(c) /\ ~Exists(c) /\ ~BeingCarded(c) => faults > 0

\* One interpretation of a symbol is up for review at a time.
OneInterpretation ==
    \A c, d \in ProposedWith(Composed) : c = d

\* What holds of the queue and of the proposals in every state.
QueueIsSound ==
    /\ StatusFollowsState
    /\ ClosedCardsAreLogged
    /\ SnoozesHaveDates
    /\ ProposalsAreShown
    /\ OneInterpretation

\* "So queue + candidate status stay consistent": the step that decides a
\* candidate closes its card, whoever decides.
DecisionsCloseCards ==
    [][\A c \in Candidates :
          candidate'[c] # candidate[c] /\ candidate[c] # Absent
              => card'[c].status # "open"]_workbenchVars

\* A symbol that is tracked has its proposals taken back, also those a scan or
\* a nomination that read it before was about to insert.
TrackedProposalsClear ==
    tracked /\ Proposals # {} ~> Proposals = {}
=============================================================================
