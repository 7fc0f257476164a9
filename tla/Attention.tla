------------------------------ MODULE Attention ------------------------------
(***************************************************************************)
(* The attention queue: cards that ask the operator for something.         *)
(*                                                                         *)
(* attention_item keeps a coarse status next to a finer fsm_state, and     *)
(* attention_state_history a row per transition.  Both columns and the     *)
(* history are written by some twenty statements in two languages, which   *)
(* this module has by what they do to a card.  A card stands for its       *)
(* deduplication key (kind and candidate, thesis or symbol): a new row of  *)
(* a key takes the place of the closed one.  Severity, owner, title and    *)
(* source are not kept: no statement here asks for them.                   *)
(***************************************************************************)
EXTENDS Naturals

CONSTANTS
    Cards,          \* deduplication keys of cards
    MaxHandlings    \* bound: cards the operator dismisses, defers or moves

ASSUME HandlingAssumption == MaxHandlings \in Nat

VARIABLES
    card,       \* attention_item, the newest row of each key
    logged,     \* to_state of the newest history row of that row
    handled

attentionVars == <<card, logged, handled>>

ClosedStates == {"resolved", "dismissed"}
OpenStates == {"queued", "evaluating", "waiting_on_data", "ready_for_review",
               "operator_deferred", "actionable", "blocked"}
FsmStates == OpenStates \union ClosedStates

\* When the card is to come back: resurface_at is null, ahead or reached.
Dates == {"none", "later", "due"}

Statuses == {"open", "resolved", "dismissed"}
NoCard == [status |-> "absent"]
CardRows == [status : Statuses, state : FsmStates, resurface : Dates]

AttentionTypeOK ==
    /\ card \in [Cards -> CardRows \union {NoCard}]
    /\ logged \in [Cards -> FsmStates \union {"none"}]
    /\ handled \in 0..MaxHandlings

-----------------------------------------------------------------------------
Exists(k) == card[k] # NoCard
IsOpen(k) == Exists(k) /\ card[k].status = "open"

StatusForState(state) == IF state \in ClosedStates THEN state ELSE "open"

\* initial_assignment, of the kinds this project raises.
InitialState(kind) ==
    CASE kind = "thesis_actionable" -> "actionable"
      [] kind = "thesis_incomplete" -> "evaluating"
      [] kind = "context_stale"     -> "waiting_on_data"
      [] OTHER                      -> "ready_for_review"

FreshMixed(state) ==   \* deliberate error: the fine state in the coarse column
    [status |-> state, state |-> state, resurface |-> "none"]

\* A new row.
Fresh(state) == [status |-> "open", state |-> state, resurface |-> "none"]

\* What a statement makes of the cards and of their history, for the keys K.
Raised(K, state) ==
    /\ card' = [k \in Cards |-> IF k \in K THEN Fresh(state) ELSE card[k]]
    /\ logged' = [k \in Cards |-> IF k \in K THEN "none" ELSE logged[k]]

ClosedUnlogged(K, state) ==   \* deliberate error: the history is not written
    /\ card' = [k \in Cards |->
           IF k \in K /\ IsOpen(k)
           THEN [status |-> state, state |-> state, resurface |-> "none"]
           ELSE card[k]]
    /\ logged' = logged

\* The WITH matched, updated, inserted of every resolver.
Closed(K, state) ==
    LET matched == {k \in K : IsOpen(k)}
    IN  /\ card' = [k \in Cards |->
               IF k \in matched
               THEN [status |-> state, state |-> state, resurface |-> "none"]
               ELSE card[k]]
        /\ logged' = [k \in Cards |-> IF k \in matched THEN state ELSE logged[k]]

-----------------------------------------------------------------------------
(***************************************************************************)
(* Producers                                                               *)
(***************************************************************************)
\* upsert_attention: ON CONFLICT DO NOTHING keeps a card that is open, and the
\* insert leaves no history row.
Upsert(k, state) ==
    /\ IF IsOpen(k) THEN UNCHANGED <<card, logged>> ELSE Raised({k}, state)
    /\ UNCHANGED handled

\* emit_context_stale_attention inserts with a history row.
UpsertLogged(k, state) ==
    /\ IF IsOpen(k) THEN UNCHANGED <<card, logged>>
       ELSE /\ card' = [card EXCEPT ![k] = Fresh(state)]
            /\ logged' = [logged EXCEPT ![k] = state]
    /\ UNCHANGED handled

\* Producers that insert and then refresh what is open: the missing thesis of
\* consensus, the decline of cognition, the trigger of discovery.  They move
\* the card, a deferred one too, and leave its date and its history alone.
Refresh(k, state) ==
    /\ IF IsOpen(k)
       THEN card' = [card EXCEPT ![k].state = state] /\ UNCHANGED logged
       ELSE Raised({k}, state)
    /\ UNCHANGED handled

\* _upsert_thesis_review_attention: ON CONFLICT DO UPDATE starts the card anew.
Revise(k) ==
    /\ IF IsOpen(k)
       THEN card' = [card EXCEPT ![k] = Fresh("ready_for_review")] /\ UNCHANGED logged
       ELSE Raised({k}, "ready_for_review")
    /\ UNCHANGED handled

\* Resolvers that are not the operator: a draft that supersedes the missing
\* thesis, a decision, a transition of the thesis.
Resolve(k) ==
    /\ IsOpen(k)
    /\ Closed({k}, "resolved")
    /\ UNCHANGED handled

-----------------------------------------------------------------------------
(***************************************************************************)
(* The operator                                                            *)
(***************************************************************************)
Handling == handled < MaxHandlings /\ handled' = handled + 1

\* dismiss_attention
Dismiss(k) ==
    /\ IsOpen(k)
    /\ Handling
    /\ Closed({k}, "dismissed")

\* dismiss_attention with reason "defer": seven days of rest.
Defer(k) ==
    /\ IsOpen(k)
    /\ Handling
    /\ card' = [card EXCEPT ![k] =
           [status |-> "open", state |-> "operator_deferred", resurface |-> "later"]]
    /\ logged' = [logged EXCEPT ![k] = "operator_deferred"]

\* transition_attention_item: any open card to any state, with any date; a
\* deferral without one gets seven days.
Transition(k, to, date) ==
    /\ IsOpen(k)
    /\ Handling
    /\ card' = [card EXCEPT ![k] =
           [status |-> StatusForState(to), state |-> to,
            resurface |-> IF to = "operator_deferred" /\ date = "none"
                          THEN "later" ELSE date]]
    /\ logged' = [logged EXCEPT ![k] = to]

DueCards == {k \in Cards : /\ IsOpen(k)
                           /\ card[k].state = "operator_deferred"
                           /\ card[k].resurface = "due"}

\* resurface_due_attention, when the open queue or a workflow is read.
ResurfaceDue ==
    /\ DueCards # {}
    /\ card' = [k \in Cards |->
           IF k \in DueCards
           THEN [card[k] EXCEPT !.state = "ready_for_review", !.resurface = "none"]
           ELSE card[k]]
    /\ logged' = [k \in Cards |->
           IF k \in DueCards THEN "ready_for_review" ELSE logged[k]]
    /\ UNCHANGED handled

\* A date of an open card is reached.
DateIsReached(k) ==
    /\ IsOpen(k)
    /\ card[k].resurface = "later"
    /\ card' = [card EXCEPT ![k].resurface = "due"]
    /\ UNCHANGED <<logged, handled>>

Handle(k) ==
    \/ Dismiss(k)
    \/ Defer(k)
    \/ \E to \in FsmStates, date \in Dates : Transition(k, to, date)

-----------------------------------------------------------------------------
\* The two columns never disagree: a closed card is not left in the queue, nor
\* an open one hidden from it.
StatusFollowsState ==
    \A k \in Cards : Exists(k) => card[k].status = StatusForState(card[k].state)

\* "Resolvers must close attention through a transition path that ... appends
\* attention_state_history": whoever closed a card, its last row says so.
ClosedCardsAreLogged ==
    \A k \in Cards : Exists(k) /\ ~IsOpen(k) => logged[k] = card[k].state

\* "A real snooze instead of a terminal dismissal": no deferred card is left
\* without a date on which it comes back.
SnoozesHaveDates ==
    \A k \in Cards :
        IsOpen(k) /\ card[k].state = "operator_deferred" => card[k].resurface # "none"
=============================================================================
