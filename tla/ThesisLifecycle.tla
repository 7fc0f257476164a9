-------------------------- MODULE ThesisLifecycle --------------------------
(***************************************************************************)
(* The life of a thesis, as the database sees it.                          *)
(*                                                                         *)
(* Four kinds of process write to the thesis tables and none of them holds *)
(* a lock across its own read and write:                                   *)
(*                                                                         *)
(*   - gateway request handlers (transition_thesis, record_decision) load  *)
(*     a snapshot, check the promotion on it, then write by thesis_id;     *)
(*   - drafters of the cognition service insert a forming thesis, or       *)
(*     overwrite the conditions of the open one from a prior they loaded   *)
(*     before a call to the language model;                                *)
(*   - the discovery scanner opens an attention card for a thesis it found *)
(*     armed, actionable or position_open; the operator may dismiss it.    *)
(*                                                                         *)
(* An action is one statement or one transaction: what PostgreSQL makes    *)
(* atomic.  Between two actions of one process the others may run.         *)
(***************************************************************************)
EXTENDS Naturals, Sequences

CONSTANTS
    Theses,        \* thesis ids, used or yet to be drawn
    Symbols,
    SymbolOf,      \* the symbol a thesis id is drawn for
    Handlers,      \* gateway requests that may be in progress at once
    Drafters,      \* cognition pipelines that may be in progress at once
    Drafts,        \* the sets of substance slots a draft may come back with
    None,
    MaxHistory,    \* bound: rows of thesis_state_history per thesis
    MaxVersion,    \* bound: thesis.version
    MaxEnters,     \* bound: entry fills per thesis
    MaxAbandons    \* bound: requests that die between two statements

Slots == {"forecast", "conviction", "trigger", "invalidation", "size",
          "fulfillment"}

ASSUME SymbolAssumption  == SymbolOf \in [Theses -> Symbols]
ASSUME DraftAssumption   == Drafts \subseteq SUBSET Slots
ASSUME NoneAssumption    == None \notin Theses \union Symbols
ASSUME BoundAssumption   == {MaxHistory, MaxVersion, MaxEnters, MaxAbandons}
                                \subseteq Nat

VARIABLES
    thesis,      \* the row: state, slots with a well-formed content, version
    history,     \* thesis_state_history, oldest first
    revisions,   \* versions recorded in thesis_version_history, oldest first
    card,        \* is a thesis_actionable attention item open?
    enters,      \* entry fills committed; each one opened a position
    exits,       \* exit fills committed; each one closed a position
    request,     \* what each gateway handler is in the middle of
    draft,       \* what each cognition pipeline is in the middle of
    scan,        \* the thesis the discovery scanner is about to flag
    abandons     \* requests that died half-way, for the bound

vars == <<thesis, history, revisions, card, enters, exits, request, draft,
          scan, abandons>>

(***************************************************************************)
(* The lifecycle graph                                                     *)
(***************************************************************************)
Terminal == {"closed", "disqualified"}

States == {"forming", "building_conviction", "armed", "actionable",
           "position_open", "exiting"} \union Terminal

Ladder == {<<"forming", "building_conviction">>,
           <<"building_conviction", "armed">>,
           <<"armed", "actionable">>,
           <<"actionable", "position_open">>,
           <<"position_open", "exiting">>,
           <<"exiting", "closed">>}

\* Deliberate error: a disqualified thesis may be promoted again.
LegalEdgeReopens(from, to) ==
    \/ <<from, to>> \in Ladder \union {<<"disqualified", "forming">>}
    \/ to = "disqualified"

LegalEdge(from, to) ==
    \/ <<from, to>> \in Ladder
    \/ to = "disqualified" /\ from # "disqualified"

Required ==
    [building_conviction |-> {"forecast", "conviction"},
     armed               |-> {"invalidation", "trigger"},
     actionable          |-> {"size"},
     exiting             |-> {"fulfillment"}]

\* Deliberate error: substance is checked, the edge is not.
PromotionAllowedAnyEdge(from, to, slots) ==
    to \in DOMAIN Required => Required[to] \subseteq slots

PromotionAllowed(from, to, slots) ==
    /\ LegalEdge(from, to)
    /\ to \in DOMAIN Required => Required[to] \subseteq slots

(***************************************************************************)
(* Types                                                                   *)
(***************************************************************************)
Rows == [state : States \union {"absent"}, slots : SUBSET Slots,
         version : 0..MaxVersion]

Fills == {"enter", "resize", "exit"}

Idle == [op |-> "idle", thesis |-> None, from |-> "absent",
         goal |-> "no_fill"]

Requests ==
    {Idle}
    \union [op : {"transition"}, thesis : Theses, from : States, goal : States]
    \union [op : {"fill", "resolve"}, thesis : Theses, from : States,
            goal : Fills]
    \union [op : {"resolve"}, thesis : Theses, from : States,
            goal : {"no_fill"}]
    \union [op : {"advance"}, thesis : Theses, from : States, goal : {"enter"}]

NoDraft == [symbol |-> None, prior |-> None, version |-> 0]

Pipelines ==
    {NoDraft}
    \union [symbol : Symbols, prior : Theses \union {None},
            version : 0..MaxVersion]

TypeOK ==
    /\ thesis \in [Theses -> Rows]
    /\ history \in [Theses -> Seq([from : States, to : States])]
    /\ revisions \in [Theses -> Seq(1..MaxVersion)]
    /\ card \in [Theses -> BOOLEAN]
    /\ enters \in [Theses -> 0..MaxEnters]
    /\ exits \in [Theses -> 0..MaxEnters]
    /\ request \in [Handlers -> Requests]
    /\ draft \in [Drafters -> Pipelines]
    /\ scan \in Theses \union {None}
    /\ abandons \in 0..MaxAbandons

Init ==
    /\ thesis = [t \in Theses |->
                    [state |-> "absent", slots |-> {}, version |-> 0]]
    /\ history = [t \in Theses |-> <<>>]
    /\ revisions = [t \in Theses |-> <<>>]
    /\ card = [t \in Theses |-> FALSE]
    /\ enters = [t \in Theses |-> 0]
    /\ exits = [t \in Theses |-> 0]
    /\ request = [h \in Handlers |-> Idle]
    /\ draft = [d \in Drafters |-> NoDraft]
    /\ scan = None
    /\ abandons = 0

Exists(t) == thesis[t].state # "absent"

Open(t) == Exists(t) /\ thesis[t].state \notin Terminal

\* Deliberate error: the partial unique index is missing.
OnlyOpenOfUnchecked(t) == TRUE

(***************************************************************************)
(* ux_thesis_one_open_per_symbol: a statement that would leave a second    *)
(* open thesis on the symbol of t fails, and its transaction with it.      *)
(***************************************************************************)
OnlyOpenOf(t) ==
    \A u \in Theses \ {t} : SymbolOf[u] = SymbolOf[t] => ~Open(u)

\* Deliberate error: the update is conditional on `from`, its row count is not
\* looked at and the history row is written regardless.
ApplyStateTransitionSilent(t, from, to) ==
    /\ Len(history[t]) < MaxHistory
    /\ to \notin Terminal => OnlyOpenOf(t)
    /\ thesis' = IF thesis[t].state = from
                 THEN [thesis EXCEPT ![t].state = to] ELSE thesis
    /\ history' = [history EXCEPT
                     ![t] = Append(@, [from |-> from, to |-> to])]
    /\ card' = [card EXCEPT ![t] = IF from = "actionable" THEN FALSE
                                   ELSE @ \/ to = "actionable"]

\* Deliberate error: only the way forward resolves the card.
ApplyStateTransitionKeepsCard(t, from, to) ==
    /\ Len(history[t]) < MaxHistory
    /\ to \notin Terminal => OnlyOpenOf(t)
    /\ thesis' = [thesis EXCEPT ![t].state = to]
    /\ history' = [history EXCEPT
                     ![t] = Append(@, [from |-> from, to |-> to])]
    /\ card' = [card EXCEPT ![t] =
           IF <<from, to>> = <<"actionable", "position_open">> THEN FALSE
           ELSE @ \/ to = "actionable"]

(***************************************************************************)
(* apply_state_transition: one transaction.  The row is updated by id, the *)
(* state it is in is not looked at; `from` is the caller's snapshot.       *)
(***************************************************************************)
ApplyStateTransition(t, from, to) ==
    /\ Len(history[t]) < MaxHistory
    /\ to \notin Terminal => OnlyOpenOf(t)
    /\ thesis' = [thesis EXCEPT ![t].state = to]
    /\ history' = [history EXCEPT
                     ![t] = Append(@, [from |-> from, to |-> to])]
    /\ card' = [card EXCEPT ![t] = IF from = "actionable" THEN FALSE
                                   ELSE @ \/ to = "actionable"]

-----------------------------------------------------------------------------
(***************************************************************************)
(* POST /theses/{id}/transition                                            *)
(***************************************************************************)

\* Load the thesis and check the edge and its substance on the snapshot.  The
\* freshness gate on actionable only refuses more: a refused request ends
\* where it began.
LoadTransition(h, t, to) ==
    /\ request[h].op = "idle"
    /\ Exists(t)
    /\ PromotionAllowed(thesis[t].state, to, thesis[t].slots)
    /\ request' = [request EXCEPT ![h] =
           [op |-> "transition", thesis |-> t, from |-> thesis[t].state,
            goal |-> to]]
    /\ UNCHANGED <<thesis, history, revisions, card, enters, exits, draft,
                   scan, abandons>>

Transition(h) ==
    /\ request[h].op = "transition"
    /\ ApplyStateTransition(request[h].thesis, request[h].from,
                            request[h].goal)
    /\ request' = [request EXCEPT ![h] = Idle]
    /\ UNCHANGED <<revisions, enters, exits, draft, scan, abandons>>

(***************************************************************************)
(* POST /decisions                                                         *)
(***************************************************************************)

\* A decision with no fill is accepted in any state and only writes its own
\* audit rows (decision, decision_replay, trade_ticket).
DecideWithoutFill(h, t) ==
    /\ request[h].op = "idle"
    /\ Exists(t)
    /\ request' = [request EXCEPT ![h] =
           [op |-> "resolve", thesis |-> t, from |-> thesis[t].state,
            goal |-> "no_fill"]]
    /\ UNCHANGED <<thesis, history, revisions, card, enters, exits, draft,
                   scan, abandons>>

\* Deliberate errors: an entry is accepted one state early, or one state late.
FillStatesEarly(action) ==
    CASE action = "enter"  -> {"armed", "actionable"}
      [] action = "resize" -> {"position_open"}
      [] action = "exit"   -> {"position_open", "exiting"}

FillStatesLate(action) ==
    CASE action = "enter"  -> {"actionable", "position_open"}
      [] action = "resize" -> {"position_open"}
      [] action = "exit"   -> {"position_open", "exiting"}

FillStates(action) ==
    CASE action = "enter"  -> {"actionable"}
      [] action = "resize" -> {"position_open"}
      [] action = "exit"   -> {"position_open", "exiting"}

\* load_decision_thesis reads the row without a lock.
LoadFill(h, t, action) ==
    /\ request[h].op = "idle"
    /\ thesis[t].state \in FillStates(action)
    /\ request' = [request EXCEPT ![h] =
           [op |-> "fill", thesis |-> t, from |-> thesis[t].state,
            goal |-> action]]
    /\ UNCHANGED <<thesis, history, revisions, card, enters, exits, draft,
                   scan, abandons>>

\* Deliberate error: an exit does not need an open position.
CommitFillUnchecked(h) ==
    LET t == request[h].thesis IN
    /\ request[h].op = "fill"
    /\ \/ /\ request[h].goal = "enter"
          /\ enters[t] < MaxEnters
          /\ enters' = [enters EXCEPT ![t] = @ + 1]
          /\ UNCHANGED exits
       \/ /\ request[h].goal = "exit"
          /\ exits' = [exits EXCEPT ![t] = @ + 1]
          /\ UNCHANGED enters
       \/ request[h].goal = "resize" /\ UNCHANGED <<enters, exits>>
    /\ request' = [request EXCEPT ![h].op = "resolve"]
    /\ UNCHANGED <<thesis, history, revisions, card, draft, scan, abandons>>

\* The decision transaction: an entry inserts a position; a resize and an exit
\* lock an open position of the thesis and are refused without one.
CommitFill(h) ==
    LET t == request[h].thesis IN
    /\ request[h].op = "fill"
    /\ \/ /\ request[h].goal = "enter"
          /\ enters[t] < MaxEnters
          /\ enters' = [enters EXCEPT ![t] = @ + 1]
          /\ UNCHANGED exits
       \/ /\ request[h].goal = "exit"
          /\ exits[t] < enters[t]
          /\ exits' = [exits EXCEPT ![t] = @ + 1]
          /\ UNCHANGED enters
       \/ /\ request[h].goal = "resize"
          /\ exits[t] < enters[t]
          /\ UNCHANGED <<enters, exits>>
    /\ request' = [request EXCEPT ![h].op = "resolve"]
    /\ UNCHANGED <<thesis, history, revisions, card, draft, scan, abandons>>

\* Deliberate errors: every fill advances the thesis, or none does.
ResolveCardAlwaysAdvances(h) ==
    /\ request[h].op = "resolve"
    /\ card' \in {card, [card EXCEPT ![request[h].thesis] = FALSE]}
    /\ request' = [request EXCEPT ![h] =
           IF @.goal # "no_fill" THEN [@ EXCEPT !.op = "advance"] ELSE Idle]
    /\ UNCHANGED <<thesis, history, revisions, enters, exits, draft, scan,
                   abandons>>

ResolveCardNeverAdvances(h) ==
    /\ request[h].op = "resolve"
    /\ card' \in {card, [card EXCEPT ![request[h].thesis] = FALSE]}
    /\ request' = [request EXCEPT ![h] = Idle]
    /\ UNCHANGED <<thesis, history, revisions, enters, exits, draft, scan,
                   abandons>>

\* resolve_attention, after the commit and in a transaction of its own; its
\* failure is logged and ignored.
ResolveCard(h) ==
    /\ request[h].op = "resolve"
    /\ card' \in {card, [card EXCEPT ![request[h].thesis] = FALSE]}
    /\ request' = [request EXCEPT ![h] =
           IF @.goal = "enter" THEN [@ EXCEPT !.op = "advance"] ELSE Idle]
    /\ UNCHANGED <<thesis, history, revisions, enters, exits, draft, scan,
                   abandons>>

\* The entry fill moves the thesis, a third transaction, from the state the
\* handler saw at its start.
Advance(h) ==
    /\ request[h].op = "advance"
    /\ ApplyStateTransition(request[h].thesis, "actionable", "position_open")
    /\ request' = [request EXCEPT ![h] = Idle]
    /\ UNCHANGED <<revisions, enters, exits, draft, scan, abandons>>

\* The gateway stops, the client hangs up, or a statement fails: what was
\* committed stays, the rest of the handler never runs.
Abandon(h) ==
    /\ request[h].op # "idle"
    /\ abandons < MaxAbandons
    /\ abandons' = abandons + 1
    /\ request' = [request EXCEPT ![h] = Idle]
    /\ UNCHANGED <<thesis, history, revisions, card, enters, exits, draft,
                   scan>>

\* A refusal by the code itself: no open position to close or resize, or not
\* the one the request describes (side, instrument, all of its quantity); or
\* the unique index refused the transition.  Nothing of the transaction stays.
Refused(h) ==
    LET r == request[h] IN
    /\ \/ r.op = "fill" /\ r.goal # "enter"
       \/ r.op = "transition" /\ r.goal \notin Terminal /\ ~OnlyOpenOf(r.thesis)
       \/ r.op = "advance" /\ ~OnlyOpenOf(r.thesis)
    /\ request' = [request EXCEPT ![h] = Idle]
    /\ UNCHANGED <<thesis, history, revisions, card, enters, exits, draft,
                   scan, abandons>>

-----------------------------------------------------------------------------
(***************************************************************************)
(* The cognition pipeline                                                  *)
(***************************************************************************)

\* Deliberate error: a pipeline forgets to note its symbol.
InFlightForgotten == {}

\* _IN_FLIGHT_SYMBOLS: filled on entry of _run_symbol_once, emptied in its
\* finally clause, gone with the process.
InFlight == {draft[d].symbol : d \in Drafters} \ {None}

\* _load_prior_thesis, then the call to the language model.
BeginDraft(d, s) ==
    /\ draft[d] = NoDraft
    /\ s \notin InFlight
    /\ LET open == {t \in Theses : SymbolOf[t] = s /\ Open(t)} IN
       \/ /\ open = {}
          /\ draft' = [draft EXCEPT ![d] =
                 [symbol |-> s, prior |-> None, version |-> 0]]
       \/ \E t \in open :
             draft' = [draft EXCEPT ![d] =
                 [symbol |-> s, prior |-> t, version |-> thesis[t].version]]
    /\ UNCHANGED <<thesis, history, revisions, card, enters, exits, request,
                   scan, abandons>>

\* _persist_thesis: a first draft.  It writes no history row.
PersistThesis(d, slots) ==
    /\ draft[d].symbol # None
    /\ draft[d].prior = None
    /\ MaxVersion > 0
    /\ \E t \in Theses :
          /\ ~Exists(t)
          /\ SymbolOf[t] = draft[d].symbol
          /\ OnlyOpenOf(t)
          /\ thesis' = [thesis EXCEPT ![t] =
                 [state |-> "forming", slots |-> slots, version |-> 1]]
    /\ draft' = [draft EXCEPT ![d] = NoDraft]
    /\ UNCHANGED <<history, revisions, card, enters, exits, request, scan,
                   abandons>>

\* _reconcile_existing_thesis with any classification but no_change: the
\* conditions of the row are replaced, whatever became of it meanwhile.
Reconcile(d, slots) ==
    LET t == draft[d].prior
        version == draft[d].version + 1
    IN
    /\ t # None
    /\ version <= MaxVersion
    /\ thesis' = [thesis EXCEPT ![t].slots = slots, ![t].version = version]
    /\ revisions' = [revisions EXCEPT ![t] = Append(@, version)]
    /\ draft' = [draft EXCEPT ![d] = NoDraft]
    /\ UNCHANGED <<history, card, enters, exits, request, scan, abandons>>

\* _record_decline_reconciliation: a new version, the conditions stay.
Decline(d) ==
    draft[d].prior # None /\ Reconcile(d, thesis[draft[d].prior].slots)

\* no_change, a decline with nothing to decline against, an exception, or the
\* end of the process.
EndDraft(d) ==
    /\ draft[d] # NoDraft
    /\ draft' = [draft EXCEPT ![d] = NoDraft]
    /\ UNCHANGED <<thesis, history, revisions, card, enters, exits, request,
                   scan, abandons>>

-----------------------------------------------------------------------------
(***************************************************************************)
(* The discovery scanner: one task, sequential over its signals            *)
(***************************************************************************)

\* load_signal_context
ScanThesis(t) ==
    /\ scan = None
    /\ thesis[t].state \in {"armed", "actionable", "position_open"}
    /\ scan' = t
    /\ UNCHANGED <<thesis, history, revisions, card, enters, exits, request,
                   draft, abandons>>

\* persist_existing_thesis_trigger, or the failure of its statement.
FlagThesis ==
    /\ scan # None
    /\ card' \in {card, [card EXCEPT ![scan] = TRUE]}
    /\ scan' = None
    /\ UNCHANGED <<thesis, history, revisions, enters, exits, request, draft,
                   abandons>>

-----------------------------------------------------------------------------
\* The operator dismisses the card, or moves it to a state that is not open
\* (dismiss_attention, transition_attention).
DismissCard(t) ==
    /\ card[t]
    /\ card' = [card EXCEPT ![t] = FALSE]
    /\ UNCHANGED <<thesis, history, revisions, enters, exits, request, draft,
                   scan, abandons>>

-----------------------------------------------------------------------------
HandlerStep(h) ==
    \/ Transition(h)
    \/ CommitFill(h)
    \/ ResolveCard(h)
    \/ Advance(h)
    \/ Refused(h)

NewRequest(h) ==
    \E t \in Theses :
        \/ \E to \in States : LoadTransition(h, t, to)
        \/ DecideWithoutFill(h, t)
        \/ \E action \in Fills : LoadFill(h, t, action)

DrafterStep(d) ==
    \/ \E s \in Symbols : BeginDraft(d, s)
    \/ \E slots \in Drafts : PersistThesis(d, slots) \/ Reconcile(d, slots)
    \/ Decline(d)
    \/ EndDraft(d)

Scanner == (\E t \in Theses : ScanThesis(t)) \/ FlagThesis

Next ==
    \/ \E h \in Handlers : NewRequest(h) \/ HandlerStep(h) \/ Abandon(h)
    \/ \E d \in Drafters : DrafterStep(d)
    \/ Scanner
    \/ \E t \in Theses : DismissCard(t)

Spec == Init /\ [][Next]_vars

\* A request that was accepted is carried through unless it dies: a handler
\* is a task of the runtime and awaits only the database.
FairSpec == Spec /\ \A h \in Handlers : WF_vars(HandlerStep(h))
-----------------------------------------------------------------------------
(***************************************************************************)
(* Properties for any number of handlers                                   *)
(***************************************************************************)

\* The state of a thesis is the target of its newest history row, and forming
\* while it has none: however transitions race, the row lock makes them write
\* state and history in one order, and no other process touches the state.
HistoryTracksState ==
    \A t \in Theses :
        Exists(t) => thesis[t].state = IF history[t] = <<>> THEN "forming"
                                       ELSE history[t][Len(history[t])].to

\* A history row claims a legal edge, and leaves a state some earlier row
\* entered (or forming): a stale snapshot is old, it is never invented.
HistoryIsGrounded ==
    \A t \in Theses : \A i \in DOMAIN history[t] :
        LET from == history[t][i].from IN
        /\ LegalEdge(from, history[t][i].to)
        /\ \/ from = "forming"
           \/ \E j \in 1..(i - 1) : history[t][j].to = from

\* The audit trail of a thesis can be trusted: it ends where the thesis stands,
\* and every row of it is a legal step from where the thesis had been.
HistoryIsSound == HistoryTracksState /\ HistoryIsGrounded

\* No entry fill for a thesis that was never actionable: the unlocked check of
\* record_decision may be out of date when the fill commits, but it was true.
FillFollowsActionable ==
    \A t \in Theses :
        enters[t] > 0 => \E i \in DOMAIN history[t] :
                             history[t][i].to = "actionable"

\* At most one thesis of a symbol is neither closed nor disqualified, whether
\* it was drafted or put back by a transition that was checked before its end.
OneOpenThesisPerSymbol ==
    \A t, u \in Theses :
        Open(t) /\ Open(u) /\ SymbolOf[t] = SymbolOf[u] => t = u

\* The recorded revisions are exactly 2, 3, ... up to the version of the row:
\* two pipelines never both write prior + 1, because _run_symbol_once admits
\* one per symbol.
RevisionsContiguous ==
    \A t \in Theses :
        Exists(t) =>
            /\ Len(revisions[t]) = thesis[t].version - 1
            /\ \A i \in DOMAIN revisions[t] : revisions[t][i] = i + 1

(***************************************************************************)
(* Properties when one handler runs at a time                              *)
(***************************************************************************)

\* Each history row leaves the state the row before it entered.
HistoryIsChain ==
    \A t \in Theses : \A i \in DOMAIN history[t] :
        history[t][i].from =
            IF i = 1 THEN "forming" ELSE history[t][i - 1].to

\* A disqualified thesis stays disqualified and a closed one can only still be
\* disqualified.
TerminalIsFinal ==
    [][\A t \in Theses :
          /\ thesis[t].state = "disqualified"
                => thesis'[t].state = "disqualified"
          /\ thesis[t].state = "closed" => thesis'[t].state \in Terminal]_vars

\* Leaving actionable, forward or to disqualified, closes the attention card
\* that asked for the decision.
LeavingActionableClosesCard ==
    [][\A t \in Theses :
          thesis[t].state = "actionable" /\ thesis'[t].state # "actionable"
              => ~card'[t]]_vars

\* A thesis gets a second entry fill only if a request died between the commit
\* of the first and its transition: one lost request, one more entry at most.
ExtraEntryNeedsLostRequest ==
    \A t \in Theses : enters[t] <= 1 + abandons

\* A committed entry takes the thesis out of actionable, unless a request died.
EntryLeavesActionable ==
    \A t \in Theses :
        enters[t] > 0 ~> (thesis[t].state # "actionable" \/ abandons > 0)

(***************************************************************************)
(* Claims of the documentation the code does not keep                      *)
(***************************************************************************)

\* docs/LIFECYCLE.md: only after an actual fill may the thesis move to
\* position_open.
PositionOpenHasFill ==
    \A t \in Theses : thesis[t].state = "position_open" => enters[t] > 0
=============================================================================
