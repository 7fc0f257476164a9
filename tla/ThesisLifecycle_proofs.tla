----------------------- MODULE ThesisLifecycle_proofs -----------------------
(***************************************************************************)
(* What holds of ThesisLifecycle for every set of theses, symbols,         *)
(* handlers and drafters, every set of drafts and every bound.             *)
(***************************************************************************)
EXTENDS ThesisLifecycle, SequenceTheorems, TLAPS

\* One transaction of apply_state_transition writes well-typed rows.
LEMMA ApplyTyped ==
    ASSUME TypeOK, NEW t \in Theses, NEW from \in States, NEW to \in States,
           ApplyStateTransition(t, from, to)
    PROVE  /\ thesis' \in [Theses -> Rows]
           /\ history' \in [Theses -> Seq([from : States, to : States])]
           /\ card' \in [Theses -> BOOLEAN]
<1>1. thesis' \in [Theses -> Rows]
  BY DEF TypeOK, ApplyStateTransition, Rows
<1>2. Append(history[t], [from |-> from, to |-> to])
          \in Seq([from : States, to : States])
  BY AppendProperties DEF TypeOK
<1>3. history' \in [Theses -> Seq([from : States, to : States])]
  BY <1>2 DEF TypeOK, ApplyStateTransition
<1>4. card' \in [Theses -> BOOLEAN]
  <2>1. (IF from = "actionable" THEN FALSE
         ELSE card[t] \/ to = "actionable") \in BOOLEAN
    OBVIOUS
  <2>2. QED
    BY <2>1 DEF TypeOK, ApplyStateTransition
<1>5. QED
  BY <1>1, <1>3, <1>4

\* The initial state is well typed.
LEMMA InitTyped == Init => TypeOK
<1>1. SUFFICES ASSUME Init PROVE TypeOK
  OBVIOUS
<1>2. <<>> \in Seq([from : States, to : States]) /\ <<>> \in Seq(1..MaxVersion)
  BY EmptySeq
<1>3. 0 \in 0..MaxVersion /\ 0 \in 0..MaxEnters /\ 0 \in 0..MaxAbandons
  BY BoundAssumption
<1>4. QED
  BY <1>1, <1>2, <1>3
  DEF Init, TypeOK, Rows, Requests, Pipelines

\* Every step of every process keeps the types.
LEMMA NextTyped == TypeOK /\ [Next]_vars => TypeOK'
<1> SUFFICES ASSUME TypeOK, [Next]_vars PROVE TypeOK'
  OBVIOUS
<1>0. MaxVersion \in Nat /\ MaxEnters \in Nat /\ MaxAbandons \in Nat
  BY BoundAssumption
<1> USE <1>0, NoneAssumption
<1>1. ASSUME NEW h \in Handlers, NEW t \in Theses, NEW to \in States,
             LoadTransition(h, t, to)
      PROVE  TypeOK'
  BY <1>1 DEF TypeOK, LoadTransition, Exists, Rows, Requests
<1>2. ASSUME NEW h \in Handlers, NEW t \in Theses, DecideWithoutFill(h, t)
      PROVE  TypeOK'
  BY <1>2 DEF TypeOK, DecideWithoutFill, Exists, Rows, Requests
<1>3. ASSUME NEW h \in Handlers, NEW t \in Theses, NEW action \in Fills,
             LoadFill(h, t, action)
      PROVE  TypeOK'
  BY <1>3 DEF TypeOK, LoadFill, FillStates, Fills, States, Rows, Requests
<1>4. ASSUME NEW h \in Handlers, Transition(h) PROVE TypeOK'
  <2>1. /\ request[h].thesis \in Theses
        /\ request[h].from \in States
        /\ request[h].goal \in States
    BY <1>4 DEF TypeOK, Transition, Requests, Idle
  <2>2. request' \in [Handlers -> Requests]
    BY <1>4 DEF TypeOK, Transition, Requests
  <2>3. QED
    BY <1>4, <2>1, <2>2, ApplyTyped DEF TypeOK, Transition
<1>5. ASSUME NEW h \in Handlers, CommitFill(h) PROVE TypeOK'
  <2>1. /\ request[h].thesis \in Theses
        /\ request[h].from \in States
        /\ request[h].goal \in Fills
    BY <1>5 DEF TypeOK, CommitFill, Requests, Idle
  <2>2. request[h] = [op |-> "fill", thesis |-> request[h].thesis,
                      from |-> request[h].from, goal |-> request[h].goal]
    BY <1>5 DEF TypeOK, CommitFill, Requests, Idle
  <2>3. request' \in [Handlers -> Requests]
    BY <1>5, <2>1, <2>2 DEF TypeOK, CommitFill, Requests
  <2>4. /\ enters' \in [Theses -> 0..MaxEnters]
        /\ exits' \in [Theses -> 0..MaxEnters]
    <3>1. CASE request[h].goal = "enter"
      <4>1. enters[request[h].thesis] + 1 \in 0..MaxEnters
        BY <1>5, <2>1, <3>1 DEF TypeOK, CommitFill
      <4>2. /\ enters' = [enters EXCEPT ![request[h].thesis] = @ + 1]
            /\ exits' = exits
        BY <1>5, <3>1 DEF CommitFill
      <4>3. enters \in [Theses -> 0..MaxEnters] /\ exits \in [Theses -> 0..MaxEnters]
        BY DEF TypeOK
      <4>4. QED
        BY <2>1, <4>1, <4>2, <4>3
    <3>2. CASE request[h].goal = "exit"
      <4>1. exits[request[h].thesis] + 1 \in 0..MaxEnters
        BY <1>5, <2>1, <3>2 DEF TypeOK, CommitFill
      <4>2. /\ exits' = [exits EXCEPT ![request[h].thesis] = @ + 1]
            /\ enters' = enters
        BY <1>5, <3>2 DEF CommitFill
      <4>3. exits \in [Theses -> 0..MaxEnters] /\ enters \in [Theses -> 0..MaxEnters]
        BY DEF TypeOK
      <4>4. QED
        BY <2>1, <4>1, <4>2, <4>3
    <3>3. CASE request[h].goal = "resize"
      BY <1>5, <2>1, <3>3 DEF TypeOK, CommitFill
    <3>4. QED
      BY <1>5, <2>1, <3>1, <3>2, <3>3 DEF Fills
  <2>5. QED
    BY <1>5, <2>3, <2>4 DEF TypeOK, CommitFill
<1>6. ASSUME NEW h \in Handlers, ResolveCard(h) PROVE TypeOK'
  <2>1. /\ request[h].thesis \in Theses
        /\ request[h].from \in States
    BY <1>6 DEF TypeOK, ResolveCard, Requests, Idle
  <2>2. request[h] = [op |-> "resolve", thesis |-> request[h].thesis,
                      from |-> request[h].from, goal |-> request[h].goal]
    BY <1>6 DEF TypeOK, ResolveCard, Requests, Idle
  <2>3. request' \in [Handlers -> Requests]
    BY <1>6, <2>1, <2>2 DEF TypeOK, ResolveCard, Requests
  <2>4. card' \in [Theses -> BOOLEAN]
    BY <1>6 DEF TypeOK, ResolveCard
  <2>5. QED
    BY <1>6, <2>3, <2>4 DEF TypeOK, ResolveCard
<1>7. ASSUME NEW h \in Handlers, Advance(h) PROVE TypeOK'
  <2>1. request[h].thesis \in Theses
    BY <1>7 DEF TypeOK, Advance, Requests, Idle
  <2>2. request' \in [Handlers -> Requests]
    BY <1>7 DEF TypeOK, Advance, Requests
  <2>3. "actionable" \in States /\ "position_open" \in States
    BY DEF States
  <2>4. QED
    BY <1>7, <2>1, <2>2, <2>3, ApplyTyped DEF TypeOK, Advance
<1>8. ASSUME NEW h \in Handlers, Refused(h) PROVE TypeOK'
  BY <1>8 DEF TypeOK, Refused, Requests
<1>9. ASSUME NEW h \in Handlers, Abandon(h) PROVE TypeOK'
  <2>1. abandons' \in 0..MaxAbandons
    BY <1>9 DEF TypeOK, Abandon
  <2>2. request' \in [Handlers -> Requests]
    BY <1>9 DEF TypeOK, Abandon, Requests
  <2>3. QED
    BY <1>9, <2>1, <2>2 DEF TypeOK, Abandon
<1>10. ASSUME NEW d \in Drafters, NEW s \in Symbols, BeginDraft(d, s)
       PROVE  TypeOK'
  <2>1. PICK prior \in Theses \union {None}, version \in 0..MaxVersion :
            draft' = [draft EXCEPT ![d] =
                [symbol |-> s, prior |-> prior, version |-> version]]
    BY <1>10 DEF TypeOK, BeginDraft, Rows
  <2>2. draft' \in [Drafters -> Pipelines]
    BY <2>1 DEF TypeOK, Pipelines
  <2>3. QED
    BY <1>10, <2>2 DEF TypeOK, BeginDraft
<1>11. ASSUME NEW d \in Drafters, NEW slots \in Drafts,
              PersistThesis(d, slots)
       PROVE  TypeOK'
  <2>1. slots \in SUBSET Slots /\ 1 \in 0..MaxVersion /\ "forming" \in States
    BY <1>11, DraftAssumption DEF PersistThesis, States
  <2>2. thesis' \in [Theses -> Rows]
    BY <1>11, <2>1 DEF TypeOK, PersistThesis, Rows
  <2>3. draft' \in [Drafters -> Pipelines]
    BY <1>11 DEF TypeOK, PersistThesis, Pipelines
  <2>4. QED
    BY <1>11, <2>2, <2>3 DEF TypeOK, PersistThesis
<1>12. ASSUME NEW d \in Drafters, NEW slots \in SUBSET Slots,
              Reconcile(d, slots)
       PROVE  TypeOK'
  <2> DEFINE t == draft[d].prior
             version == draft[d].version + 1
  <2>1. t \in Theses /\ version \in 0..MaxVersion /\ version \in 1..MaxVersion
    BY <1>12 DEF TypeOK, Reconcile, Pipelines, NoDraft
  <2>2. thesis' \in [Theses -> Rows]
    <3>1. thesis' = [thesis EXCEPT ![t].slots = slots, ![t].version = version]
      BY <1>12 DEF Reconcile
    <3>2. [thesis[t] EXCEPT !.slots = slots, !.version = version] \in Rows
      <4>1. thesis[t] \in Rows
        BY <2>1 DEF TypeOK
      <4>2. QED
        BY <2>1, <4>1 DEF Rows
    <3>3. thesis' = [thesis EXCEPT ![t] =
                        [@ EXCEPT !.slots = slots, !.version = version]]
      BY <2>1, <3>1 DEF TypeOK, Rows
    <3>4. QED
      BY <2>1, <3>2, <3>3 DEF TypeOK
  <2>3. revisions' \in [Theses -> Seq(1..MaxVersion)]
    <3>1. Append(revisions[t], version) \in Seq(1..MaxVersion)
      BY <2>1, AppendProperties DEF TypeOK
    <3>2. revisions' = [revisions EXCEPT ![t] = Append(@, version)]
      BY <1>12 DEF Reconcile
    <3>3. QED
      BY <3>1, <3>2 DEF TypeOK
  <2>4. draft' \in [Drafters -> Pipelines]
    BY <1>12 DEF TypeOK, Reconcile, Pipelines
  <2>5. QED
    BY <1>12, <2>2, <2>3, <2>4 DEF TypeOK, Reconcile
<1>13. ASSUME NEW d \in Drafters, Decline(d) PROVE TypeOK'
  <2>1. thesis[draft[d].prior].slots \in SUBSET Slots
    BY <1>13 DEF TypeOK, Decline, Pipelines, NoDraft, Rows
  <2>2. QED
    BY <1>12, <1>13, <2>1 DEF Decline
<1>14. ASSUME NEW d \in Drafters, EndDraft(d) PROVE TypeOK'
  BY <1>14 DEF TypeOK, EndDraft, Pipelines
<1>15. ASSUME NEW t \in Theses, ScanThesis(t) PROVE TypeOK'
  BY <1>15 DEF TypeOK, ScanThesis
<1>16. CASE FlagThesis
  BY <1>16 DEF TypeOK, FlagThesis
<1>17. ASSUME NEW t \in Theses, DismissCard(t) PROVE TypeOK'
  BY <1>17 DEF TypeOK, DismissCard
<1>18. CASE UNCHANGED vars
  BY <1>18 DEF TypeOK, vars
<1>19. QED
  BY <1>1, <1>2, <1>3, <1>4, <1>5, <1>6, <1>7, <1>8, <1>9, <1>10, <1>11,
     <1>12, <1>13, <1>14, <1>15, <1>16, <1>17, <1>18, DraftAssumption
  DEF Next, NewRequest, HandlerStep, DrafterStep, Scanner

\* Every reachable state of the thesis tables, of the requests and of the
\* pipelines is well typed: no handler ever writes a row the schema refuses.
THEOREM TypeCorrect == Spec => []TypeOK
<1>1. Init => TypeOK
  BY InitTyped
<1>2. TypeOK /\ [Next]_vars => TypeOK'
  BY NextTyped
<1>3. QED
  BY <1>1, <1>2, PTL DEF Spec
-----------------------------------------------------------------------------
(***************************************************************************)
(* At most one open thesis per symbol                                      *)
(***************************************************************************)

\* The property only depends on the states, and a transaction that makes a
\* thesis open went past the unique index.
LEMMA NextKeepsOneOpen ==
    TypeOK /\ OneOpenThesisPerSymbol /\ [Next]_vars => OneOpenThesisPerSymbol'
<1> SUFFICES ASSUME TypeOK, OneOpenThesisPerSymbol, [Next]_vars
             PROVE  OneOpenThesisPerSymbol'
  OBVIOUS
<1>1. ASSUME \A u \in Theses : thesis'[u].state = thesis[u].state
      PROVE  OneOpenThesisPerSymbol'
  BY <1>1 DEF OneOpenThesisPerSymbol, Open, Exists
<1>2. ASSUME NEW t \in Theses, NEW from \in States, NEW to \in States,
             ApplyStateTransition(t, from, to)
      PROVE  OneOpenThesisPerSymbol'
  <2>1. \A u \in Theses \ {t} : thesis'[u] = thesis[u]
    BY <1>2 DEF TypeOK, ApplyStateTransition
  <2>2. thesis'[t].state = to
    BY <1>2 DEF TypeOK, ApplyStateTransition, Rows
  <2>3. to \notin Terminal => OnlyOpenOf(t)
    BY <1>2 DEF ApplyStateTransition
  <2>4. QED
    BY <2>1, <2>2, <2>3
    DEF OneOpenThesisPerSymbol, Open, Exists, OnlyOpenOf
<1>3. ASSUME NEW h \in Handlers, Transition(h)
      PROVE  OneOpenThesisPerSymbol'
  <2>1. /\ request[h].thesis \in Theses
        /\ request[h].from \in States
        /\ request[h].goal \in States
    BY <1>3 DEF TypeOK, Transition, Requests, Idle
  <2>2. QED
    BY <1>2, <1>3, <2>1 DEF Transition
<1>4. ASSUME NEW h \in Handlers, Advance(h)
      PROVE  OneOpenThesisPerSymbol'
  <2>1. /\ request[h].thesis \in Theses
        /\ "actionable" \in States
        /\ "position_open" \in States
    BY <1>4 DEF TypeOK, Advance, Requests, Idle, States
  <2>2. QED
    BY <1>2, <1>4, <2>1 DEF Advance
<1>5. ASSUME NEW d \in Drafters, NEW slots \in Drafts,
             PersistThesis(d, slots)
      PROVE  OneOpenThesisPerSymbol'
  <2>1. PICK t \in Theses :
            /\ OnlyOpenOf(t)
            /\ thesis' = [thesis EXCEPT ![t] =
                   [state |-> "forming", slots |-> slots, version |-> 1]]
    BY <1>5 DEF PersistThesis
  <2>2. \A u \in Theses \ {t} : thesis'[u] = thesis[u]
    BY <2>1 DEF TypeOK
  <2>3. QED
    BY <2>1, <2>2 DEF OneOpenThesisPerSymbol, Open, Exists, OnlyOpenOf
<1>6. ASSUME NEW d \in Drafters, NEW slots, Reconcile(d, slots)
      PROVE  OneOpenThesisPerSymbol'
  <2>1. \A u \in Theses : thesis'[u].state = thesis[u].state
    BY <1>6 DEF TypeOK, Rows, Reconcile
  <2>2. QED
    BY <1>1, <2>1
<1>7. CASE UNCHANGED thesis
  BY <1>1, <1>7
<1>8. QED
  BY <1>3, <1>4, <1>5, <1>6, <1>7
  DEF Next, NewRequest, HandlerStep, DrafterStep, Scanner, LoadTransition,
      DecideWithoutFill, LoadFill, CommitFill, ResolveCard, Refused, Abandon,
      BeginDraft, Decline, EndDraft, ScanThesis, FlagThesis, DismissCard, vars

\* Whatever handlers and pipelines race, a symbol never has two theses that are
\* neither closed nor disqualified.
THEOREM OneOpenThesis == Spec => []OneOpenThesisPerSymbol
<1>1. Init => OneOpenThesisPerSymbol
  BY DEF Init, OneOpenThesisPerSymbol, Open, Exists
<1>2. TypeOK /\ OneOpenThesisPerSymbol /\ [Next]_vars
          => OneOpenThesisPerSymbol'
  BY NextKeepsOneOpen
<1>3. QED
  BY <1>1, <1>2, TypeCorrect, PTL DEF Spec
-----------------------------------------------------------------------------
(***************************************************************************)
(* The audit trail                                                         *)
(*                                                                         *)
(* The two properties about history rows are not inductive: a row is       *)
(* written from a snapshot a request took earlier, so the invariant must   *)
(* say what that snapshot still guarantees however old it is: the state it *)
(* saw is one the thesis has been in.                                      *)
(***************************************************************************)
Visited(t) == {"forming"} \union {history[t][i].to : i \in DOMAIN history[t]}

AbsentIsBlank ==
    \A t \in Theses : ~Exists(t) => history[t] = <<>> /\ enters[t] = 0

\* What a request in progress has checked stays true of the history.
Grounded(r) ==
    r.op # "idle" =>
        /\ Exists(r.thesis)
        /\ r.from \in Visited(r.thesis)
        /\ r.op = "transition" => LegalEdge(r.from, r.goal)
        /\ r.goal = "enter" => r.from = "actionable"

RequestsGrounded == \A h \in Handlers : Grounded(request[h])

AuditInv ==
    /\ HistoryTracksState
    /\ HistoryIsGrounded
    /\ FillFollowsActionable
    /\ AbsentIsBlank
    /\ RequestsGrounded

\* An appended row is the last one, and the rows before it stay.
LEMMA AppendRow ==
    ASSUME NEW S, NEW s \in Seq(S), NEW e \in S
    PROVE  /\ Append(s, e) # <<>>
           /\ Len(Append(s, e)) = Len(s) + 1
           /\ Append(s, e)[Len(s) + 1] = e
           /\ \A i \in 1..Len(s) : Append(s, e)[i] = s[i]
           /\ DOMAIN s = 1..Len(s)
           /\ DOMAIN Append(s, e) = 1..(Len(s) + 1)
           /\ Len(s) \in Nat
BY AppendProperties, LenProperties

\* The state a thesis is in is one it has visited.
LEMMA StateIsVisited ==
    ASSUME TypeOK, HistoryTracksState, NEW t \in Theses, Exists(t)
    PROVE  thesis[t].state \in Visited(t)
<1>1. CASE history[t] = <<>>
  BY <1>1 DEF HistoryTracksState, Visited
<1>2. CASE history[t] # <<>>
  <2>1. Len(history[t]) \in DOMAIN history[t]
    BY <1>2, LenProperties, EmptySeq DEF TypeOK
  <2>2. thesis[t].state = history[t][Len(history[t])].to
    BY <1>2 DEF HistoryTracksState
  <2>3. QED
    BY <2>1, <2>2 DEF Visited
<1>3. QED
  BY <1>1, <1>2

\* A grounded transition of t keeps the audit trail, and forgets no visit.
LEMMA ApplyKeepsAudit ==
    ASSUME TypeOK, AuditInv, NEW t \in Theses, NEW from \in States,
           NEW to \in States, Exists(t), from \in Visited(t),
           LegalEdge(from, to), ApplyStateTransition(t, from, to),
           UNCHANGED enters
    PROVE  /\ HistoryTracksState'
           /\ HistoryIsGrounded'
           /\ FillFollowsActionable'
           /\ AbsentIsBlank'
           /\ \A u \in Theses : Exists(u) => Exists(u)'
           /\ \A u \in Theses : Visited(u) \subseteq Visited(u)'
<1> DEFINE row == [from |-> from, to |-> to]
           n == Len(history[t]) + 1
<1>1. /\ history[t] \in Seq([from : States, to : States])
      /\ row \in [from : States, to : States]
  BY DEF TypeOK
<1>2. /\ history'[t] = Append(history[t], row)
      /\ \A u \in Theses \ {t} : history'[u] = history[u]
  BY DEF TypeOK, ApplyStateTransition
<1>3. /\ thesis'[t].state = to
      /\ \A u \in Theses \ {t} : thesis'[u] = thesis[u]
  BY DEF TypeOK, ApplyStateTransition, Rows
<1>4. /\ history'[t] # <<>>
      /\ Len(history'[t]) = n
      /\ history'[t][n] = row
      /\ \A i \in 1..(n - 1) : history'[t][i] = history[t][i]
      /\ DOMAIN history[t] = 1..(n - 1)
      /\ DOMAIN history'[t] = 1..n
      /\ n \in Nat \ {0}
  <2>1. Len(history[t]) \in Nat /\ n - 1 = Len(history[t])
    BY <1>1, LenProperties
  <2>2. QED
    BY <1>1, <1>2, <2>1, AppendRow
<1>5. HistoryTracksState'
  BY <1>2, <1>3, <1>4 DEF HistoryTracksState, AuditInv, Exists
<1>6. \A u \in Theses : Visited(u) \subseteq Visited(u)'
  <2>1. Visited(t) \subseteq Visited(t)'
    BY <1>4 DEF Visited
  <2>2. \A u \in Theses \ {t} : Visited(u)' = Visited(u)
    BY <1>2 DEF Visited
  <2>3. QED
    BY <2>1, <2>2
<1>7. HistoryIsGrounded'
  <2> DEFINE RowGrounded(h, i) ==
                /\ LegalEdge(h[i].from, h[i].to)
                /\ \/ h[i].from = "forming"
                   \/ \E j \in 1..(i - 1) : h[j].to = h[i].from
  <2>1. SUFFICES ASSUME NEW i \in DOMAIN history'[t]
                 PROVE  RowGrounded(history'[t], i)
    <3>1. ASSUME NEW u \in Theses, u # t, NEW i \in DOMAIN history'[u]
          PROVE  RowGrounded(history'[u], i)
      <4>1. RowGrounded(history[u], i)
        BY <1>2, <3>1 DEF HistoryIsGrounded, AuditInv
      <4>2. QED
        BY <1>2, <3>1, <4>1
    <3>2. \A u \in Theses : \A i \in DOMAIN history'[u] :
              RowGrounded(history'[u], i)
      BY <2>1, <3>1
    <3>3. QED
      BY <3>2 DEF HistoryIsGrounded
  <2>2. CASE i = n
    BY <1>4, <2>2 DEF Visited
  <2>3. CASE i # n
    <3>1. i \in 1..(n - 1) /\ history'[t][i] = history[t][i]
      BY <1>4, <2>1, <2>3
    <3>2. /\ LegalEdge(history[t][i].from, history[t][i].to)
          /\ \/ history[t][i].from = "forming"
             \/ \E j \in 1..(i - 1) : history[t][j].to = history[t][i].from
      BY <1>4, <3>1 DEF HistoryIsGrounded, AuditInv
    <3>3. \A j \in 1..(i - 1) : history'[t][j] = history[t][j]
      BY <1>4, <3>1
    <3>4. QED
      BY <3>1, <3>2, <3>3
  <2>4. QED
    BY <2>2, <2>3
<1>8. FillFollowsActionable'
  <2>1. ASSUME NEW u \in Theses, enters[u] > 0
        PROVE  \E i \in DOMAIN history'[u] : history'[u][i].to = "actionable"
    <3>1. PICK i \in DOMAIN history[u] : history[u][i].to = "actionable"
      BY <2>1 DEF AuditInv, FillFollowsActionable
    <3>2. CASE u = t
      BY <1>4, <3>1, <3>2
    <3>3. CASE u # t
      BY <1>2, <3>1, <3>3
    <3>4. QED
      BY <3>2, <3>3
  <2>2. QED
    BY <2>1 DEF FillFollowsActionable
<1>9. AbsentIsBlank'
  BY <1>2, <1>3 DEF AbsentIsBlank, AuditInv, Exists, States, Terminal
<1>10. \A u \in Theses : Exists(u) => Exists(u)'
  BY <1>3 DEF Exists, States, Terminal
<1>11. QED
  BY <1>5, <1>6, <1>7, <1>8, <1>9, <1>10

\* A step that moves no thesis and writes no row keeps the audit trail, if what
\* its requests hold is grounded and an entry is one an old visit allows.
LEMMA StillKeepsAudit ==
    ASSUME TypeOK, AuditInv, UNCHANGED history,
           \A u \in Theses : thesis'[u].state = thesis[u].state,
           \A u \in Theses :
               enters'[u] = enters[u] \/ "actionable" \in Visited(u),
           \A h \in Handlers : Grounded(request'[h]),
           request' \in [Handlers -> Requests]
    PROVE  AuditInv'
<1>1. \A u \in Theses : Exists(u)' = Exists(u) /\ Visited(u)' = Visited(u)
  BY DEF Exists, Visited
<1>2. HistoryTracksState' /\ HistoryIsGrounded'
  BY <1>1 DEF AuditInv, HistoryTracksState, HistoryIsGrounded, Exists,
              LegalEdge
<1>3. ASSUME NEW u \in Theses
      PROVE  enters'[u] > 0 => \E i \in DOMAIN history'[u] :
                                   history'[u][i].to = "actionable"
  BY <1>3 DEF AuditInv, FillFollowsActionable, Visited
<1>4. AbsentIsBlank'
  <2>1. ASSUME NEW u \in Theses, ~Exists(u)
        PROVE  history[u] = <<>> /\ enters'[u] = 0
    <3>1. history[u] = <<>> /\ enters[u] = 0
      BY <2>1 DEF AuditInv, AbsentIsBlank
    <3>2. "actionable" \notin Visited(u)
      BY <3>1, EmptySeq DEF Visited
    <3>3. QED
      BY <3>1, <3>2
  <2>2. QED
    BY <1>1, <2>1 DEF AbsentIsBlank
<1>5. RequestsGrounded'
  <2>1. ASSUME NEW h \in Handlers, request'[h].op # "idle"
        PROVE  request'[h].thesis \in Theses
    BY <2>1 DEF Requests, Idle
  <2>2. QED
    BY <1>1, <2>1 DEF RequestsGrounded, Grounded, LegalEdge
<1>6. QED
  BY <1>2, <1>3, <1>4, <1>5 DEF AuditInv, FillFollowsActionable

\* A request moved by a transition, or by none of its own, stays grounded.
LEMMA ApplyKeepsRequests ==
    ASSUME TypeOK, AuditInv, NEW h \in Handlers,
           request' = [request EXCEPT ![h] = Idle],
           \A u \in Theses : Exists(u) => Exists(u)',
           \A u \in Theses : Visited(u) \subseteq Visited(u)'
    PROVE  RequestsGrounded'
<1>1. ASSUME NEW k \in Handlers, request'[k].op # "idle"
      PROVE  request'[k] = request[k] /\ request[k].thesis \in Theses
  BY <1>1 DEF TypeOK, Requests, Idle
<1>2. QED
  BY <1>1 DEF AuditInv, RequestsGrounded, Grounded, LegalEdge

\* Every step keeps the audit trail.
LEMMA NextKeepsAudit == TypeOK /\ AuditInv /\ [Next]_vars => AuditInv'
<1> SUFFICES ASSUME TypeOK, AuditInv, [Next]_vars PROVE AuditInv'
  OBVIOUS
<1>0. TypeOK'
  BY NextTyped
<1>1. \A k \in Handlers : Grounded(request[k])
  BY DEF AuditInv, RequestsGrounded
<1>2. \A t \in Theses : Exists(t) => thesis[t].state \in Visited(t)
  BY StateIsVisited DEF AuditInv
<1>3. request' \in [Handlers -> Requests]
  BY <1>0 DEF TypeOK
<1>4. Grounded(Idle)
  BY DEF Grounded, Idle
<1>5. ASSUME NEW h \in Handlers, NEW t \in Theses, NEW to \in States,
             LoadTransition(h, t, to)
      PROVE  AuditInv'
  <2>1. Grounded(request'[h])
    BY <1>2, <1>5
    DEF TypeOK, LoadTransition, Grounded, PromotionAllowed, LegalEdge, Ladder
  <2>2. \A k \in Handlers : Grounded(request'[k])
    BY <1>1, <1>5, <2>1 DEF TypeOK, LoadTransition
  <2>3. QED
    BY <1>3, <1>5, <2>2, StillKeepsAudit DEF LoadTransition
<1>6. ASSUME NEW h \in Handlers, NEW t \in Theses, DecideWithoutFill(h, t)
      PROVE  AuditInv'
  <2>1. Grounded(request'[h])
    BY <1>2, <1>6 DEF TypeOK, DecideWithoutFill, Grounded
  <2>2. \A k \in Handlers : Grounded(request'[k])
    BY <1>1, <1>6, <2>1 DEF TypeOK, DecideWithoutFill
  <2>3. QED
    BY <1>3, <1>6, <2>2, StillKeepsAudit DEF DecideWithoutFill
<1>7. ASSUME NEW h \in Handlers, NEW t \in Theses, NEW action \in Fills,
             LoadFill(h, t, action)
      PROVE  AuditInv'
  <2>1. Grounded(request'[h])
    BY <1>2, <1>7 DEF TypeOK, LoadFill, Grounded, FillStates, Fills, Exists
  <2>2. \A k \in Handlers : Grounded(request'[k])
    BY <1>1, <1>7, <2>1 DEF TypeOK, LoadFill
  <2>3. QED
    BY <1>3, <1>7, <2>2, StillKeepsAudit DEF LoadFill
<1>8. ASSUME NEW h \in Handlers, Transition(h) PROVE AuditInv'
  <2>1. /\ request[h].thesis \in Theses
        /\ request[h].from \in States
        /\ request[h].goal \in States
    BY <1>8 DEF TypeOK, Transition, Requests, Idle
  <2>2. /\ Exists(request[h].thesis)
        /\ request[h].from \in Visited(request[h].thesis)
        /\ LegalEdge(request[h].from, request[h].goal)
    BY <1>1, <1>8 DEF Transition, Grounded
  <2>3. /\ ApplyStateTransition(request[h].thesis, request[h].from,
                                request[h].goal)
        /\ UNCHANGED enters
        /\ request' = [request EXCEPT ![h] = Idle]
    BY <1>8 DEF Transition
  <2>4. QED
    BY <2>1, <2>2, <2>3, ApplyKeepsAudit, ApplyKeepsRequests DEF AuditInv
<1>9. ASSUME NEW h \in Handlers, CommitFill(h) PROVE AuditInv'
  <2>1. request[h].thesis \in Theses
    BY <1>9 DEF TypeOK, CommitFill, Requests, Idle
  <2>2. request'[h] = [request[h] EXCEPT !.op = "resolve"]
    BY <1>9 DEF TypeOK, CommitFill
  <2>3. Grounded(request'[h])
    BY <1>1, <1>9, <2>1, <2>2 DEF TypeOK, CommitFill, Grounded, Requests, Idle
  <2>4. \A k \in Handlers : Grounded(request'[k])
    BY <1>1, <1>9, <2>3 DEF TypeOK, CommitFill
  <2>5. request[h].goal = "enter" => "actionable" \in Visited(request[h].thesis)
    BY <1>1, <1>9 DEF CommitFill, Grounded
  <2>6. \A u \in Theses : enters'[u] = enters[u] \/ "actionable" \in Visited(u)
    BY <1>9, <2>1, <2>5 DEF TypeOK, CommitFill
  <2>7. QED
    BY <1>3, <1>9, <2>4, <2>6, StillKeepsAudit DEF CommitFill
<1>10. ASSUME NEW h \in Handlers, ResolveCard(h) PROVE AuditInv'
  <2>1. \/ request'[h] = Idle
        \/ request'[h] = [request[h] EXCEPT !.op = "advance"]
    BY <1>10 DEF TypeOK, ResolveCard
  <2>2. Grounded(request'[h])
    <3>1. CASE request'[h] = [request[h] EXCEPT !.op = "advance"]
      BY <1>1, <1>10, <3>1 DEF TypeOK, ResolveCard, Grounded, Requests, Idle
    <3>2. QED
      BY <1>4, <2>1, <3>1
  <2>3. \A k \in Handlers : Grounded(request'[k])
    BY <1>1, <1>10, <2>2 DEF TypeOK, ResolveCard
  <2>4. QED
    BY <1>3, <1>10, <2>3, StillKeepsAudit DEF ResolveCard
<1>11. ASSUME NEW h \in Handlers, Advance(h) PROVE AuditInv'
  <2>1. /\ request[h].thesis \in Theses
        /\ request[h].goal = "enter"
    BY <1>11 DEF TypeOK, Advance, Requests, Idle
  <2>2. /\ Exists(request[h].thesis)
        /\ "actionable" \in Visited(request[h].thesis)
    BY <1>1, <1>11, <2>1 DEF Advance, Grounded
  <2>3. /\ "actionable" \in States
        /\ "position_open" \in States
        /\ LegalEdge("actionable", "position_open")
    BY DEF States, LegalEdge, Ladder
  <2>4. /\ ApplyStateTransition(request[h].thesis, "actionable",
                                "position_open")
        /\ UNCHANGED enters
        /\ request' = [request EXCEPT ![h] = Idle]
    BY <1>11 DEF Advance
  <2>5. QED
    BY <2>1, <2>2, <2>3, <2>4, ApplyKeepsAudit, ApplyKeepsRequests
    DEF AuditInv
<1>12. ASSUME NEW h \in Handlers, Refused(h) \/ Abandon(h) PROVE AuditInv'
  <2>1. \A k \in Handlers : Grounded(request'[k])
    BY <1>1, <1>4, <1>12 DEF TypeOK, Refused, Abandon
  <2>2. QED
    BY <1>3, <1>12, <2>1, StillKeepsAudit DEF Refused, Abandon
<1>13. ASSUME NEW d \in Drafters, NEW slots \in Drafts,
              PersistThesis(d, slots)
       PROVE  AuditInv'
  <2>1. PICK t \in Theses :
            /\ ~Exists(t)
            /\ thesis' = [thesis EXCEPT ![t] =
                   [state |-> "forming", slots |-> slots, version |-> 1]]
    BY <1>13 DEF PersistThesis
  <2>2. /\ thesis'[t].state = "forming"
        /\ \A u \in Theses \ {t} : thesis'[u] = thesis[u]
    BY <2>1 DEF TypeOK
  <2>3. UNCHANGED <<history, enters, request>>
    BY <1>13 DEF PersistThesis
  <2>4. history[t] = <<>>
    BY <2>1 DEF AuditInv, AbsentIsBlank
  <2>5. HistoryTracksState'
    BY <2>2, <2>3, <2>4 DEF AuditInv, HistoryTracksState, Exists
  <2>6. HistoryIsGrounded' /\ FillFollowsActionable'
    BY <2>3
    DEF AuditInv, HistoryIsGrounded, FillFollowsActionable, LegalEdge
  <2>7. AbsentIsBlank'
    BY <2>2, <2>3 DEF AuditInv, AbsentIsBlank, Exists
  <2>8. RequestsGrounded'
    <3>1. \A u \in Theses : Exists(u) => Exists(u)'
      BY <2>2 DEF Exists
    <3>2. \A u \in Theses : Visited(u)' = Visited(u)
      BY <2>3 DEF Visited
    <3>3. \A k \in Handlers :
              request[k].op # "idle" => request[k].thesis \in Theses
      BY DEF TypeOK, Requests, Idle
    <3>4. QED
      BY <2>3, <3>1, <3>2, <3>3
      DEF AuditInv, RequestsGrounded, Grounded, LegalEdge
  <2>9. QED
    BY <2>5, <2>6, <2>7, <2>8 DEF AuditInv
<1>14. ASSUME NEW d \in Drafters, NEW slots, Reconcile(d, slots)
       PROVE  AuditInv'
  <2>1. \A u \in Theses : thesis'[u].state = thesis[u].state
    BY <1>14 DEF TypeOK, Rows, Reconcile
  <2>2. QED
    BY <1>1, <1>3, <1>14, <2>1, StillKeepsAudit DEF Reconcile
<1>15. CASE UNCHANGED <<thesis, history, enters, request>>
  BY <1>1, <1>3, <1>15, StillKeepsAudit
<1>16. QED
  BY <1>5, <1>6, <1>7, <1>8, <1>9, <1>10, <1>11, <1>12, <1>13, <1>14, <1>15
  DEF Next, NewRequest, HandlerStep, DrafterStep, Scanner, BeginDraft,
      Decline, EndDraft, ScanThesis, FlagThesis, DismissCard, vars

LEMMA InitAudit == Init => AuditInv
BY EmptySeq
DEF Init, AuditInv, HistoryTracksState, HistoryIsGrounded,
    FillFollowsActionable, AbsentIsBlank, RequestsGrounded, Grounded, Exists,
    Idle

LEMMA AuditHolds == Spec => []AuditInv
<1>1. Init => AuditInv
  BY InitAudit
<1>2. TypeOK /\ AuditInv /\ [Next]_vars => AuditInv'
  BY NextKeepsAudit
<1>3. QED
  BY <1>1, <1>2, TypeCorrect, PTL DEF Spec

\* The history table always ends in the state the thesis is in, and no row of it
\* claims an illegal edge or leaves a state the thesis was never in, for any
\* number of racing transitions, fills and drafts.
THEOREM HistorySound == Spec => []HistoryIsSound
<1>1. AuditInv => HistoryIsSound
  BY DEF AuditInv, HistoryIsSound
<1>2. QED
  BY <1>1, AuditHolds, PTL

\* No thesis has an entry fill without having been actionable.
THEOREM FillNeedsActionable == Spec => []FillFollowsActionable
<1>1. AuditInv => FillFollowsActionable
  BY DEF AuditInv
<1>2. QED
  BY <1>1, AuditHolds, PTL
-----------------------------------------------------------------------------
(***************************************************************************)
(* Revisions                                                               *)
(*                                                                         *)
(* The recorded versions follow one another because the version a pipeline *)
(* read before its call to the language model is still the version of the  *)
(* row when it writes: no other pipeline has the symbol, and a pipeline    *)
(* only writes the row of its own symbol.                                  *)
(***************************************************************************)
AbsentIsUnrevised == \A t \in Theses : ~Exists(t) => revisions[t] = <<>>

PriorsAreCurrent ==
    \A d \in Drafters :
        draft[d].prior # None =>
            /\ Exists(draft[d].prior)
            /\ SymbolOf[draft[d].prior] = draft[d].symbol
            /\ thesis[draft[d].prior].version = draft[d].version

OneDraftPerSymbol ==
    \A d, e \in Drafters :
        draft[d].symbol # None /\ draft[d].symbol = draft[e].symbol => d = e

RevisionInv ==
    /\ RevisionsContiguous
    /\ AbsentIsUnrevised
    /\ PriorsAreCurrent
    /\ OneDraftPerSymbol

\* The next version makes a contiguous list of versions one longer.
LEMMA NextRevision ==
    ASSUME NEW S \in SUBSET Nat, NEW s \in Seq(S), NEW v \in S,
           Len(s) = v - 2, \A i \in DOMAIN s : s[i] = i + 1
    PROVE  /\ Len(Append(s, v)) = v - 1
           /\ \A i \in DOMAIN Append(s, v) : Append(s, v)[i] = i + 1
<1>1. /\ Len(Append(s, v)) = Len(s) + 1
      /\ Append(s, v)[Len(s) + 1] = v
      /\ \A i \in 1..Len(s) : Append(s, v)[i] = s[i]
      /\ DOMAIN s = 1..Len(s)
      /\ DOMAIN Append(s, v) = 1..(Len(s) + 1)
      /\ Len(s) \in Nat
  BY AppendRow
<1>2. v \in Nat /\ Len(s) + 1 = v - 1 /\ v = (Len(s) + 1) + 1
  BY <1>1
<1>3. ASSUME NEW i \in DOMAIN Append(s, v) PROVE Append(s, v)[i] = i + 1
  <2>1. i \in 1..Len(s) \/ i = Len(s) + 1
    BY <1>1, <1>3
  <2>2. QED
    BY <1>1, <1>2, <2>1
<1>4. QED
  BY <1>1, <1>2, <1>3

\* A pipeline's prior is a thesis, and its symbol is one.
LEMMA DraftParts ==
    ASSUME TypeOK, NEW d \in Drafters, draft[d].prior # None
    PROVE  /\ draft[d].prior \in Theses
           /\ draft[d].symbol \in Symbols
           /\ draft[d].symbol # None
           /\ draft[d].version \in 0..MaxVersion
BY NoneAssumption DEF TypeOK, Pipelines, NoDraft

LEMMA NextKeepsRevisions ==
    TypeOK /\ AuditInv /\ RevisionInv /\ [Next]_vars => RevisionInv'
<1> SUFFICES ASSUME TypeOK, AuditInv, RevisionInv, [Next]_vars
             PROVE  RevisionInv'
  OBVIOUS
<1> USE NoneAssumption
<1>1. ASSUME UNCHANGED <<revisions, draft>>,
             \A t \in Theses : /\ Exists(t)' = Exists(t)
                               /\ thesis'[t].version = thesis[t].version
      PROVE  RevisionInv'
  BY <1>1, DraftParts
  DEF RevisionInv, RevisionsContiguous, AbsentIsUnrevised, PriorsAreCurrent,
      OneDraftPerSymbol
<1>2. ASSUME NEW t \in Theses, NEW from \in States, NEW to \in States,
             Exists(t), ApplyStateTransition(t, from, to),
             UNCHANGED <<revisions, draft>>
      PROVE  RevisionInv'
  <2>1. /\ thesis'[t].state = to
        /\ thesis'[t].version = thesis[t].version
        /\ \A u \in Theses \ {t} : thesis'[u] = thesis[u]
    BY <1>2 DEF ApplyStateTransition, TypeOK, Rows
  <2>2. \A u \in Theses : /\ Exists(u)' = Exists(u)
                          /\ thesis'[u].version = thesis[u].version
    BY <1>2, <2>1 DEF Exists, States, Terminal
  <2>3. QED
    BY <1>1, <1>2, <2>2
<1>3. ASSUME NEW h \in Handlers, Transition(h) \/ Advance(h)
      PROVE  RevisionInv'
  <2>1. /\ request[h].thesis \in Theses
        /\ Exists(request[h].thesis)
    BY <1>3 DEF TypeOK, Transition, Advance, Requests, Idle, AuditInv,
                RequestsGrounded, Grounded
  <2>2. CASE Transition(h)
    <3>1. request[h].from \in States /\ request[h].goal \in States
      BY <2>2 DEF TypeOK, Transition, Requests, Idle
    <3>2. QED
      BY <1>2, <2>1, <2>2, <3>1 DEF Transition
  <2>3. CASE Advance(h)
    <3>1. "actionable" \in States /\ "position_open" \in States
      BY DEF States
    <3>2. QED
      BY <1>2, <2>1, <2>3, <3>1 DEF Advance
  <2>4. QED
    BY <1>3, <2>2, <2>3
<1>4. ASSUME NEW d \in Drafters, UNCHANGED <<thesis, revisions>>,
             draft'[d] = NoDraft,
             \A e \in Drafters \ {d} : draft'[e] = draft[e]
      PROVE  RevisionInv'
  <2>1. PriorsAreCurrent'
    BY <1>4 DEF RevisionInv, PriorsAreCurrent, NoDraft, Exists
  <2>2. OneDraftPerSymbol'
    BY <1>4 DEF RevisionInv, OneDraftPerSymbol, NoDraft
  <2>3. QED
    BY <1>4, <2>1, <2>2
    DEF RevisionInv, RevisionsContiguous, AbsentIsUnrevised, Exists
<1>5. ASSUME NEW d \in Drafters, NEW s \in Symbols, BeginDraft(d, s)
      PROVE  RevisionInv'
  <2>1. PICK p \in Theses \union {None}, v \in 0..MaxVersion :
            /\ draft' = [draft EXCEPT ![d] =
                   [symbol |-> s, prior |-> p, version |-> v]]
            /\ p # None => /\ Exists(p)
                           /\ SymbolOf[p] = s
                           /\ thesis[p].version = v
    <3>1. CASE draft' = [draft EXCEPT ![d] =
                   [symbol |-> s, prior |-> None, version |-> 0]]
      <4>1. None \in Theses \union {None} /\ 0 \in 0..MaxVersion
        BY BoundAssumption
      <4>2. QED
        BY <3>1, <4>1
    <3>2. CASE \E t \in {t \in Theses : SymbolOf[t] = s /\ Open(t)} :
                   draft' = [draft EXCEPT ![d] =
                       [symbol |-> s, prior |-> t,
                        version |-> thesis[t].version]]
      BY <3>2 DEF Open, TypeOK, Rows
    <3>3. QED
      BY <1>5, <3>1, <3>2 DEF BeginDraft
  <2>2. /\ draft'[d] = [symbol |-> s, prior |-> p, version |-> v]
        /\ \A e \in Drafters \ {d} : draft'[e] = draft[e]
        /\ UNCHANGED <<thesis, revisions>>
    BY <1>5, <2>1 DEF TypeOK, BeginDraft
  <2>3. PriorsAreCurrent'
    BY <2>1, <2>2 DEF RevisionInv, PriorsAreCurrent, Exists
  <2>4. OneDraftPerSymbol'
    <3>1. \A e \in Drafters : draft[e].symbol # s
      BY <1>5 DEF BeginDraft, InFlight
    <3>2. QED
      BY <2>2, <3>1 DEF RevisionInv, OneDraftPerSymbol
  <2>5. QED
    BY <2>2, <2>3, <2>4
    DEF RevisionInv, RevisionsContiguous, AbsentIsUnrevised, Exists
<1>6. ASSUME NEW d \in Drafters, NEW slots \in Drafts,
             PersistThesis(d, slots)
      PROVE  RevisionInv'
  <2>1. PICK t \in Theses :
            /\ ~Exists(t)
            /\ thesis' = [thesis EXCEPT ![t] =
                   [state |-> "forming", slots |-> slots, version |-> 1]]
    BY <1>6 DEF PersistThesis
  <2>2. /\ thesis'[t].state = "forming"
        /\ thesis'[t].version = 1
        /\ \A u \in Theses \ {t} : thesis'[u] = thesis[u]
        /\ draft'[d] = NoDraft
        /\ \A e \in Drafters \ {d} : draft'[e] = draft[e]
        /\ UNCHANGED revisions
    BY <1>6, <2>1 DEF TypeOK, PersistThesis
  <2>3. revisions[t] = <<>>
    BY <2>1 DEF RevisionInv, AbsentIsUnrevised
  <2>4. RevisionsContiguous'
    <3>1. Len(<<>>) = 0 /\ DOMAIN <<>> = {}
      BY EmptySeq
    <3>2. QED
      BY <2>2, <2>3, <3>1 DEF RevisionInv, RevisionsContiguous, Exists
  <2>5. AbsentIsUnrevised'
    BY <2>2, <2>3 DEF RevisionInv, AbsentIsUnrevised, Exists
  <2>6. PriorsAreCurrent'
    <3>1. ASSUME NEW e \in Drafters \ {d}, draft[e].prior # None
          PROVE  draft[e].prior \in Theses \ {t}
      BY <2>1, <3>1, DraftParts DEF RevisionInv, PriorsAreCurrent
    <3>2. QED
      BY <2>2, <3>1 DEF RevisionInv, PriorsAreCurrent, NoDraft, Exists
  <2>7. OneDraftPerSymbol'
    BY <2>2 DEF RevisionInv, OneDraftPerSymbol, NoDraft
  <2>8. QED
    BY <2>4, <2>5, <2>6, <2>7 DEF RevisionInv
<1>7. ASSUME NEW d \in Drafters, NEW slots, Reconcile(d, slots)
      PROVE  RevisionInv'
  <2> DEFINE t == draft[d].prior
             v == draft[d].version + 1
  <2>1. /\ t \in Theses
        /\ v \in 1..MaxVersion
        /\ Exists(t)
        /\ SymbolOf[t] = draft[d].symbol
        /\ thesis[t].version = draft[d].version
        /\ draft[d].symbol # None
        /\ draft[d].version \in Nat
    BY <1>7, DraftParts, BoundAssumption
    DEF Reconcile, RevisionInv, PriorsAreCurrent
  <2>2. /\ thesis'[t].version = v
        /\ thesis'[t].state = thesis[t].state
        /\ \A u \in Theses \ {t} : thesis'[u] = thesis[u]
    <3>1. thesis' = [thesis EXCEPT ![t].slots = slots, ![t].version = v]
      BY <1>7 DEF Reconcile
    <3>2. QED
      BY <2>1, <3>1 DEF TypeOK, Rows
  <2>3. /\ draft'[d] = NoDraft
        /\ \A e \in Drafters \ {d} : draft'[e] = draft[e]
        /\ revisions'[t] = Append(revisions[t], v)
        /\ \A u \in Theses \ {t} : revisions'[u] = revisions[u]
    BY <1>7, <2>1 DEF TypeOK, Reconcile
  <2>4. RevisionsContiguous'
    <3>1. /\ Len(revisions[t]) = v - 2
          /\ \A i \in DOMAIN revisions[t] : revisions[t][i] = i + 1
          /\ revisions[t] \in Seq(1..MaxVersion)
          /\ (1..MaxVersion) \in SUBSET Nat
      <4>1. /\ Len(revisions[t]) = draft[d].version - 1
            /\ \A i \in DOMAIN revisions[t] : revisions[t][i] = i + 1
        BY <2>1 DEF RevisionInv, RevisionsContiguous
      <4>2. draft[d].version - 1 = v - 2
        BY <2>1
      <4>3. QED
        BY <2>1, <4>1, <4>2 DEF TypeOK
    <3>2. /\ Len(revisions'[t]) = v - 1
          /\ \A i \in DOMAIN revisions'[t] : revisions'[t][i] = i + 1
      BY <2>1, <2>3, <3>1, NextRevision
    <3>3. QED
      BY <2>2, <2>3, <3>2 DEF RevisionInv, RevisionsContiguous, Exists
  <2>5. AbsentIsUnrevised'
    BY <2>1, <2>2, <2>3 DEF RevisionInv, AbsentIsUnrevised, Exists
  <2>6. PriorsAreCurrent'
    <3>1. ASSUME NEW e \in Drafters \ {d}, draft[e].prior # None
          PROVE  draft[e].prior \in Theses \ {t}
      <4>1. draft[e].symbol # draft[d].symbol
        BY <2>1, <3>1 DEF RevisionInv, OneDraftPerSymbol
      <4>2. SymbolOf[draft[e].prior] = draft[e].symbol
        BY <3>1 DEF RevisionInv, PriorsAreCurrent
      <4>3. QED
        BY <2>1, <3>1, <4>1, <4>2, DraftParts
    <3>2. QED
      BY <2>2, <2>3, <3>1 DEF RevisionInv, PriorsAreCurrent, NoDraft, Exists
  <2>7. OneDraftPerSymbol'
    BY <2>3 DEF RevisionInv, OneDraftPerSymbol, NoDraft
  <2>8. QED
    BY <2>4, <2>5, <2>6, <2>7 DEF RevisionInv
<1>8. ASSUME NEW d \in Drafters, EndDraft(d) PROVE RevisionInv'
  BY <1>4, <1>8 DEF TypeOK, EndDraft
<1>9. CASE UNCHANGED <<thesis, revisions, draft>>
  BY <1>1, <1>9 DEF Exists
<1>10. QED
  BY <1>3, <1>5, <1>6, <1>7, <1>8, <1>9
  DEF Next, NewRequest, HandlerStep, DrafterStep, Scanner, LoadTransition,
      DecideWithoutFill, LoadFill, CommitFill, ResolveCard, Refused, Abandon,
      Decline, ScanThesis, FlagThesis, DismissCard, vars

\* The version history of every thesis is gapless and ends at the version of
\* the row, however many pipelines and handlers run: one process keeps two
\* pipelines off one symbol.
THEOREM RevisionsFollow == Spec => []RevisionsContiguous
<1>1. Init => RevisionInv
  <2> SUFFICES ASSUME Init PROVE RevisionInv
    OBVIOUS
  <2>1. \A d \in Drafters : draft[d].prior = None /\ draft[d].symbol = None
    BY DEF Init, NoDraft
  <2>2. \A t \in Theses : ~Exists(t) /\ revisions[t] = <<>>
    BY DEF Init, Exists
  <2>3. QED
    BY <2>1, <2>2
    DEF RevisionInv, RevisionsContiguous, AbsentIsUnrevised, PriorsAreCurrent,
        OneDraftPerSymbol
<1>2. TypeOK /\ AuditInv /\ RevisionInv /\ [Next]_vars => RevisionInv'
  BY NextKeepsRevisions
<1>3. RevisionInv => RevisionsContiguous
  BY DEF RevisionInv
<1>4. QED
  BY <1>1, <1>2, <1>3, TypeCorrect, AuditHolds, PTL DEF Spec
-----------------------------------------------------------------------------
(***************************************************************************)
(* One handler at a time                                                   *)
(*                                                                         *)
(* What the documentation says of the lifecycle holds when requests do not *)
(* overlap: the snapshot a request took is then still the state of the     *)
(* thesis when it writes, because nobody else moves an existing thesis.    *)
(***************************************************************************)
OneHandler == \A h, g \in Handlers : h = g

SnapshotIsCurrent ==
    \A h \in Handlers :
        request[h].op # "idle" =>
            thesis[request[h].thesis].state = request[h].from

\* An entry was committed and its handler has not moved the thesis yet.
EntryInFlight(t) ==
    \E h \in Handlers : /\ request[h].op \in {"resolve", "advance"}
                        /\ request[h].goal = "enter"
                        /\ request[h].thesis = t

BeforeEntry == {"absent", "forming", "building_conviction", "armed",
                "actionable"}

\* While a thesis may still be entered, each entry but the one in flight was
\* lost with its request.
EntriesAreLost ==
    \A t \in Theses :
        /\ enters[t] <= abandons + 1
        /\ thesis[t].state \in BeforeEntry /\ ~EntryInFlight(t)
               => enters[t] <= abandons

SerialInv ==
    /\ SnapshotIsCurrent
    /\ HistoryIsChain
    /\ EntriesAreLost

\* The only transactions that move an existing thesis, and what they then know.
LEMMA SerialMove ==
    ASSUME TypeOK, AuditInv, SnapshotIsCurrent, NEW h \in Handlers,
           Transition(h) \/ Advance(h)
    PROVE  \E t \in Theses, to \in States :
               /\ t = request[h].thesis
               /\ Exists(t)
               /\ thesis[t].state \in States
               /\ LegalEdge(thesis[t].state, to)
               /\ ApplyStateTransition(t, thesis[t].state, to)
               /\ request' = [request EXCEPT ![h] = Idle]
               /\ UNCHANGED <<enters, abandons>>
               /\ request[h].op # "transition" => to = "position_open"
<1>1. /\ request[h].thesis \in Theses
      /\ request[h].from \in States
      /\ request[h].from = thesis[request[h].thesis].state
      /\ Exists(request[h].thesis)
  BY DEF TypeOK, Transition, Advance, Requests, Idle, SnapshotIsCurrent,
         AuditInv, RequestsGrounded, Grounded
<1>2. CASE Transition(h)
  <2>1. /\ request[h] \in Requests
        /\ request[h].op = "transition"
        /\ request[h].goal \in States
    BY <1>2 DEF TypeOK, Transition, Requests, Idle
  <2>2. LegalEdge(request[h].from, request[h].goal)
    BY <1>2 DEF Transition, AuditInv, RequestsGrounded, Grounded
  <2>3. QED
    BY <1>1, <1>2, <2>1, <2>2 DEF Transition
<1>3. CASE Advance(h)
  <2>1. /\ request[h] \in Requests
        /\ request[h].op = "advance"
        /\ request[h].goal = "enter"
    BY <1>3 DEF TypeOK, Advance, Requests, Idle
  <2>2. request[h].from = "actionable"
    BY <1>3, <2>1 DEF Advance, AuditInv, RequestsGrounded, Grounded
  <2>3. "position_open" \in States /\ LegalEdge("actionable", "position_open")
    BY DEF States, LegalEdge, Ladder
  <2>4. QED
    BY <1>1, <1>3, <2>2, <2>3 DEF Advance
<1>4. QED
  BY <1>2, <1>3

\* The row and the history of a thesis after such a transaction.
LEMMA MoveEffect ==
    ASSUME TypeOK, NEW t \in Theses, NEW from \in States, NEW to \in States,
           ApplyStateTransition(t, from, to)
    PROVE  /\ thesis'[t].state = to
           /\ \A u \in Theses \ {t} : thesis'[u] = thesis[u]
           /\ history'[t] = Append(history[t], [from |-> from, to |-> to])
           /\ \A u \in Theses \ {t} : history'[u] = history[u]
           /\ card'[t] = IF from = "actionable" THEN FALSE
                         ELSE card[t] \/ to = "actionable"
BY DEF TypeOK, ApplyStateTransition, Rows

LEMMA MoveKeepsChain ==
    ASSUME TypeOK, HistoryTracksState, HistoryIsChain, NEW t \in Theses,
           Exists(t), NEW to \in States, thesis[t].state \in States,
           ApplyStateTransition(t, thesis[t].state, to)
    PROVE  HistoryIsChain'
<1> DEFINE row == [from |-> thesis[t].state, to |-> to]
           n == Len(history[t]) + 1
           ChainRow(h, i) ==
               h[i].from = IF i = 1 THEN "forming" ELSE h[i - 1].to
<1>1. /\ history'[t] = Append(history[t], row)
      /\ \A u \in Theses \ {t} : history'[u] = history[u]
  BY MoveEffect
<1>2. /\ history[t] \in Seq([from : States, to : States])
      /\ row \in [from : States, to : States]
  BY DEF TypeOK
<1>3. /\ history'[t][n] = row
      /\ \A i \in 1..(n - 1) : history'[t][i] = history[t][i]
      /\ DOMAIN history[t] = 1..(n - 1)
      /\ DOMAIN history'[t] = 1..n
      /\ n \in Nat \ {0}
  <2>1. Len(history[t]) \in Nat /\ n - 1 = Len(history[t])
    BY <1>2, LenProperties
  <2>2. QED
    BY <1>1, <1>2, <2>1, AppendRow
<1>4. ASSUME NEW i \in 1..n PROVE ChainRow(history'[t], i)
  <2>1. CASE i < n
    <3>1. i \in 1..(n - 1) /\ (i # 1 => i - 1 \in 1..(n - 1))
      BY <1>3, <2>1
    <3>2. ChainRow(history[t], i)
      BY <1>3, <3>1 DEF HistoryIsChain
    <3>3. QED
      BY <1>3, <3>1, <3>2
  <2>2. CASE i = n
    <3>1. CASE n = 1
      <4>1. history[t] = <<>>
        BY <1>2, <1>3, <3>1, EmptySeq, LenProperties
      <4>2. thesis[t].state = "forming"
        BY <4>1 DEF HistoryTracksState
      <4>3. QED
        BY <1>3, <2>2, <3>1, <4>2
    <3>2. CASE n # 1
      <4>1. /\ n - 1 \in 1..(n - 1)
            /\ n - 1 = Len(history[t])
            /\ history[t] # <<>>
        BY <1>2, <1>3, <3>2, EmptySeq, LenProperties
      <4>2. thesis[t].state = history[t][n - 1].to
        BY <4>1 DEF HistoryTracksState
      <4>3. QED
        BY <1>3, <2>2, <3>2, <4>1, <4>2
    <3>3. QED
      BY <3>1, <3>2
  <2>3. QED
    BY <1>3, <1>4, <2>1, <2>2
<1>5. ASSUME NEW u \in Theses, NEW i \in DOMAIN history'[u]
      PROVE  ChainRow(history'[u], i)
  <2>1. CASE u = t
    BY <1>3, <1>4, <1>5, <2>1
  <2>2. CASE u # t
    BY <1>1, <1>5, <2>2 DEF HistoryIsChain
  <2>3. QED
    BY <2>1, <2>2
<1>6. QED
  BY <1>5 DEF HistoryIsChain

LEMMA NextKeepsSerial ==
    ASSUME OneHandler
    PROVE  TypeOK /\ AuditInv /\ OneOpenThesisPerSymbol /\ SerialInv
               /\ [Next]_vars => SerialInv'
<1> SUFFICES ASSUME TypeOK, AuditInv, OneOpenThesisPerSymbol, SerialInv,
                    [Next]_vars
             PROVE  SerialInv'
  OBVIOUS
<1>0. abandons \in Nat /\ \A t \in Theses : enters[t] \in Nat
  BY BoundAssumption DEF TypeOK
<1>1. ASSUME NEW h \in Handlers, Transition(h) \/ Advance(h)
      PROVE  SerialInv'
  <2>1. PICK t \in Theses, to \in States :
            /\ t = request[h].thesis
            /\ Exists(t)
            /\ thesis[t].state \in States
            /\ LegalEdge(thesis[t].state, to)
            /\ ApplyStateTransition(t, thesis[t].state, to)
            /\ request' = [request EXCEPT ![h] = Idle]
            /\ UNCHANGED <<enters, abandons>>
            /\ request[h].op # "transition" => to = "position_open"
    BY <1>1, SerialMove DEF SerialInv
  <2>2. /\ thesis'[t].state = to
        /\ \A u \in Theses \ {t} : thesis'[u] = thesis[u]
    <3>1. thesis[t].state \in States
      BY <2>1
    <3>2. ApplyStateTransition(t, thesis[t].state, to)
      BY <2>1
    <3>3. QED
      BY <3>1, <3>2, MoveEffect
  <2>3. \A g \in Handlers : request'[g] = Idle
    BY <2>1 DEF TypeOK, OneHandler
  <2>4. SnapshotIsCurrent'
    BY <2>3 DEF SnapshotIsCurrent, Idle
  <2>5. HistoryIsChain'
    BY <2>1, MoveKeepsChain DEF AuditInv, SerialInv
  <2>6. ASSUME NEW u \in Theses, thesis'[u].state \in BeforeEntry
        PROVE  enters[u] <= abandons
    <3>1. CASE EntryInFlight(u)
      <4>1. request[h].op # "transition" /\ u = t
        BY <2>1, <3>1 DEF EntryInFlight, OneHandler
      <4>2. QED
        BY <2>1, <2>2, <2>6, <4>1 DEF BeforeEntry
    <3>2. CASE ~EntryInFlight(u)
      <4>1. thesis[u].state \in BeforeEntry
        BY <2>1, <2>2, <2>6
        DEF BeforeEntry, LegalEdge, Ladder, States, Terminal
      <4>2. QED
        BY <3>2, <4>1 DEF SerialInv, EntriesAreLost
    <3>3. QED
      BY <3>1, <3>2
  <2>7. EntriesAreLost'
    BY <2>1, <2>6 DEF SerialInv, EntriesAreLost
  <2>8. QED
    BY <2>4, <2>5, <2>7 DEF SerialInv
<1>2. ASSUME UNCHANGED history, NEW h \in Handlers,
             \A u \in Theses : thesis'[u].state = thesis[u].state,
             \A g \in Handlers :
                 request'[g].op # "idle" =>
                     /\ request'[g].thesis \in Theses
                     /\ thesis[request'[g].thesis].state = request'[g].from,
             EntriesAreLost'
      PROVE  SerialInv'
  <2>1. SnapshotIsCurrent'
    BY <1>2 DEF SnapshotIsCurrent
  <2>2. HistoryIsChain'
    BY <1>2 DEF SerialInv, HistoryIsChain
  <2>3. QED
    BY <1>2, <2>1, <2>2 DEF SerialInv
<1>3. ASSUME UNCHANGED <<enters, abandons>>,
             \A u \in Theses : thesis'[u].state = thesis[u].state,
             \A u \in Theses : EntryInFlight(u) => EntryInFlight(u)'
      PROVE  EntriesAreLost'
  BY <1>3 DEF SerialInv, EntriesAreLost
<1>4. ASSUME NEW h \in Handlers, NewRequest(h) PROVE SerialInv'
  <2>1. /\ UNCHANGED <<thesis, history, enters, abandons>>
        /\ request[h].op = "idle"
        /\ request'[h].thesis \in Theses
        /\ request'[h].from = thesis[request'[h].thesis].state
    BY <1>4
    DEF NewRequest, LoadTransition, DecideWithoutFill, LoadFill, TypeOK
  <2>2. \A g \in Handlers : g = h
    BY DEF OneHandler
  <2>3. \A u \in Theses : ~EntryInFlight(u)
    BY <2>1, <2>2 DEF EntryInFlight
  <2>4. QED
    BY <1>2, <1>3, <2>1, <2>2, <2>3
<1>5. ASSUME NEW h \in Handlers, CommitFill(h) PROVE SerialInv'
  <2> DEFINE t == request[h].thesis
  <2>1. /\ t \in Theses
        /\ request[h].from = thesis[t].state
        /\ request[h].goal = "enter" => request[h].from = "actionable"
    BY <1>5 DEF CommitFill, TypeOK, Requests, Idle, SerialInv,
                SnapshotIsCurrent, AuditInv, RequestsGrounded, Grounded
  <2>2. /\ request'[h] = [request[h] EXCEPT !.op = "resolve"]
        /\ \A g \in Handlers : g = h
        /\ UNCHANGED <<thesis, history, abandons>>
    BY <1>5 DEF CommitFill, TypeOK, OneHandler
  <2>3. /\ request'[h].op = "resolve"
        /\ request'[h].thesis = t
        /\ request'[h].from = request[h].from
        /\ request'[h].goal = request[h].goal
    <3>1. request[h] = [op |-> "fill", thesis |-> t,
                        from |-> request[h].from, goal |-> request[h].goal]
      BY <1>5 DEF TypeOK, CommitFill, Requests, Idle
    <3>2. QED
      BY <2>2, <3>1
  <2>4. EntriesAreLost'
    <3>1. \A u \in Theses : ~EntryInFlight(u)
      BY <1>5, <2>2 DEF CommitFill, EntryInFlight
    <3>2. CASE request[h].goal = "enter"
      <4>1. enters[t] <= abandons
        BY <2>1, <3>1, <3>2 DEF SerialInv, EntriesAreLost, BeforeEntry
      <4>2. /\ enters'[t] = enters[t] + 1
            /\ \A u \in Theses \ {t} : enters'[u] = enters[u]
        BY <1>5, <2>1, <3>2 DEF CommitFill, TypeOK
      <4>3. enters'[t] <= abandons' + 1
        BY <1>0, <2>1, <2>2, <4>1, <4>2
      <4>4. ASSUME NEW u \in Theses \ {t}
            PROVE  /\ enters'[u] <= abandons' + 1
                   /\ thesis'[u].state \in BeforeEntry
                          => enters'[u] <= abandons'
        BY <2>2, <3>1, <4>2, <4>4 DEF SerialInv, EntriesAreLost
      <4>5. ASSUME NEW u \in Theses, u = t
            PROVE  enters'[u] <= abandons' + 1 /\ EntryInFlight(u)'
        BY <2>3, <3>2, <4>3, <4>5 DEF EntryInFlight
      <4>6. QED
        BY <4>4, <4>5 DEF EntriesAreLost
    <3>3. CASE request[h].goal # "enter"
      <4>1. UNCHANGED enters
        BY <1>5, <3>3 DEF CommitFill
      <4>2. QED
        BY <1>3, <2>2, <3>1, <4>1
    <3>4. QED
      BY <3>2, <3>3
  <2>5. QED
    BY <1>2, <2>1, <2>2, <2>3, <2>4
<1>6. ASSUME NEW h \in Handlers, ResolveCard(h) PROVE SerialInv'
  <2>1. /\ request[h].thesis \in Theses
        /\ request[h].from = thesis[request[h].thesis].state
    BY <1>6 DEF ResolveCard, TypeOK, Requests, Idle, SerialInv,
                SnapshotIsCurrent
  <2>2. /\ \A g \in Handlers : g = h
        /\ UNCHANGED <<thesis, history, enters, abandons>>
        /\ request'[h] = IF request[h].goal = "enter"
                         THEN [request[h] EXCEPT !.op = "advance"] ELSE Idle
    BY <1>6 DEF ResolveCard, TypeOK, OneHandler
  <2>3. request[h] = [op |-> "resolve", thesis |-> request[h].thesis,
                      from |-> request[h].from, goal |-> request[h].goal]
    BY <1>6 DEF TypeOK, ResolveCard, Requests, Idle
  <2>4. CASE request[h].goal = "enter"
    <3>1. /\ request'[h].op = "advance"
          /\ request'[h].goal = "enter"
          /\ request'[h].thesis = request[h].thesis
          /\ request'[h].from = request[h].from
      BY <2>2, <2>3, <2>4
    <3>2. \A u \in Theses : EntryInFlight(u) => EntryInFlight(u)'
      BY <2>2, <3>1 DEF EntryInFlight
    <3>3. QED
      BY <1>2, <1>3, <2>1, <2>2, <3>1, <3>2
  <2>5. CASE request[h].goal # "enter"
    <3>1. \A u \in Theses : ~EntryInFlight(u)
      BY <2>2, <2>5 DEF EntryInFlight
    <3>2. QED
      BY <1>2, <1>3, <2>2, <2>5, <3>1 DEF Idle
  <2>6. QED
    BY <2>4, <2>5
<1>7. ASSUME NEW h \in Handlers, Refused(h) PROVE SerialInv'
  <2>1. /\ \A g \in Handlers : g = h /\ request'[g] = Idle
        /\ UNCHANGED <<thesis, history, enters, abandons>>
    BY <1>7 DEF Refused, TypeOK, OneHandler
  <2>2. request[h].op # "advance"
    <3>1. SUFFICES ASSUME request[h].op = "advance" PROVE FALSE
      OBVIOUS
    <3>2. /\ request[h] \in Requests
          /\ request[h].thesis \in Theses
          /\ request[h].goal = "enter"
      BY <3>1 DEF TypeOK, Requests, Idle
    <3>3. thesis[request[h].thesis].state = "actionable"
      BY <3>1, <3>2
      DEF SerialInv, SnapshotIsCurrent, AuditInv, RequestsGrounded, Grounded
    <3>4. OnlyOpenOf(request[h].thesis)
      BY <3>2, <3>3
      DEF OneOpenThesisPerSymbol, OnlyOpenOf, Open, Exists, Terminal
    <3>5. QED
      BY <1>7, <3>1, <3>4 DEF Refused
  <2>3. \A u \in Theses : ~EntryInFlight(u)
    BY <1>7, <2>1, <2>2 DEF Refused, EntryInFlight
  <2>4. QED
    BY <1>2, <1>3, <2>1, <2>3 DEF Idle
<1>8. ASSUME NEW h \in Handlers, Abandon(h) PROVE SerialInv'
  <2>1. /\ \A g \in Handlers : request'[g] = Idle
        /\ UNCHANGED <<thesis, history, enters>>
        /\ abandons' = abandons + 1
    BY <1>8 DEF Abandon, TypeOK, OneHandler
  <2>2. EntriesAreLost'
    <3>1. \A u \in Theses : enters[u] <= abandons + 1
      BY DEF SerialInv, EntriesAreLost
    <3>2. \A u \in Theses : /\ enters'[u] <= abandons'
                            /\ enters'[u] <= abandons' + 1
      BY <1>0, <2>1, <3>1
    <3>3. QED
      BY <3>2 DEF EntriesAreLost
  <2>3. QED
    BY <1>2, <2>1, <2>2 DEF Idle
<1>9. ASSUME UNCHANGED <<history, enters, abandons, request>>,
             \A u \in Theses :
                 \/ thesis'[u].state = thesis[u].state
                 \/ ~Exists(u) /\ thesis'[u].state = "forming"
      PROVE  SerialInv'
  <2>1. SnapshotIsCurrent'
    <3>1. ASSUME NEW h \in Handlers, request[h].op # "idle"
          PROVE  /\ request[h].thesis \in Theses
                 /\ Exists(request[h].thesis)
      BY <3>1 DEF TypeOK, Requests, Idle, AuditInv, RequestsGrounded, Grounded
    <3>2. QED
      BY <1>9, <3>1 DEF SerialInv, SnapshotIsCurrent
  <2>2. HistoryIsChain'
    BY <1>9 DEF SerialInv, HistoryIsChain
  <2>3. EntriesAreLost'
    <3>1. \A u \in Theses : thesis'[u].state \in BeforeEntry
                                => thesis[u].state \in BeforeEntry
      BY <1>9 DEF BeforeEntry, Exists
    <3>2. \A u \in Theses : EntryInFlight(u)' = EntryInFlight(u)
      BY <1>9 DEF EntryInFlight
    <3>3. QED
      BY <1>9, <3>1, <3>2 DEF SerialInv, EntriesAreLost
  <2>4. QED
    BY <2>1, <2>2, <2>3 DEF SerialInv
<1>10. ASSUME NEW d \in Drafters, NEW slots \in Drafts,
              PersistThesis(d, slots)
       PROVE  SerialInv'
  <2>1. PICK t \in Theses :
            /\ ~Exists(t)
            /\ thesis' = [thesis EXCEPT ![t] =
                   [state |-> "forming", slots |-> slots, version |-> 1]]
    BY <1>10 DEF PersistThesis
  <2>2. /\ thesis'[t].state = "forming"
        /\ \A u \in Theses \ {t} : thesis'[u] = thesis[u]
    BY <2>1 DEF TypeOK
  <2>3. UNCHANGED <<history, enters, abandons, request>>
    BY <1>10 DEF PersistThesis
  <2>4. QED
    BY <1>9, <2>1, <2>2, <2>3
<1>11. ASSUME NEW d \in Drafters, NEW slots, Reconcile(d, slots)
       PROVE  SerialInv'
  <2>1. \A u \in Theses : thesis'[u].state = thesis[u].state
    BY <1>11 DEF TypeOK, Rows, Reconcile
  <2>2. QED
    BY <1>9, <1>11, <2>1 DEF Reconcile
<1>12. CASE UNCHANGED <<thesis, history, enters, abandons, request>>
  BY <1>9, <1>12
<1>13. QED
  BY <1>1, <1>4, <1>5, <1>6, <1>7, <1>8, <1>10, <1>11, <1>12
  DEF Next, HandlerStep, DrafterStep, Scanner, BeginDraft, Decline, EndDraft,
      ScanThesis, FlagThesis, DismissCard, vars

LEMMA InitSerial == Init => SerialInv
<1> SUFFICES ASSUME Init PROVE SerialInv
  OBVIOUS
<1>1. SnapshotIsCurrent
  BY DEF Init, SnapshotIsCurrent, Idle
<1>2. HistoryIsChain
  BY EmptySeq DEF Init, HistoryIsChain
<1>3. EntriesAreLost
  <2>1. abandons = 0 /\ \A t \in Theses : enters[t] = 0
    BY DEF Init
  <2>2. 0 <= 0 + 1 /\ 0 <= 0
    OBVIOUS
  <2>3. QED
    BY <2>1, <2>2 DEF EntriesAreLost
<1>4. QED
  BY <1>1, <1>2, <1>3 DEF SerialInv

LEMMA SerialHolds == ASSUME OneHandler PROVE Spec => []SerialInv
<1>1. Init => SerialInv
  BY InitSerial
<1>2. TypeOK /\ AuditInv /\ OneOpenThesisPerSymbol /\ SerialInv /\ [Next]_vars
          => SerialInv'
  BY NextKeepsSerial
<1>3. QED
  BY <1>1, <1>2, TypeCorrect, AuditHolds, OneOpenThesis, PTL DEF Spec

\* When requests do not overlap, each row of the audit trail leaves the state
\* the row before it entered.
THEOREM SerialChain == ASSUME OneHandler PROVE Spec => []HistoryIsChain
<1>1. SerialInv => HistoryIsChain
  BY DEF SerialInv
<1>2. QED
  BY <1>1, SerialHolds, PTL

\* When requests do not overlap, a thesis has at most one entry fill more than
\* requests died: the gap between the commit of a fill and its transition is the
\* only way to enter twice.
THEOREM SerialEntries ==
    ASSUME OneHandler PROVE Spec => []ExtraEntryNeedsLostRequest
<1>1. TypeOK /\ SerialInv => ExtraEntryNeedsLostRequest
  <2> SUFFICES ASSUME TypeOK, SerialInv, NEW t \in Theses
               PROVE  enters[t] <= 1 + abandons
    BY DEF ExtraEntryNeedsLostRequest
  <2>1. enters[t] <= abandons + 1 /\ abandons \in Nat
    BY BoundAssumption DEF SerialInv, EntriesAreLost, TypeOK
  <2>2. QED
    BY <2>1
<1>2. QED
  BY <1>1, SerialHolds, TypeCorrect, PTL

\* What a step does to the states, when requests do not overlap.
LEMMA SerialStep ==
    ASSUME OneHandler, TypeOK, AuditInv, SerialInv, [Next]_vars,
           NEW t \in Theses, Exists(t), thesis'[t].state # thesis[t].state
    PROVE  /\ LegalEdge(thesis[t].state, thesis'[t].state)
           /\ thesis[t].state = "actionable" => ~card'[t]
<1>1. ASSUME NEW h \in Handlers, Transition(h) \/ Advance(h)
      PROVE  /\ LegalEdge(thesis[t].state, thesis'[t].state)
             /\ thesis[t].state = "actionable" => ~card'[t]
  <2>1. PICK u \in Theses, to \in States :
            /\ thesis[u].state \in States
            /\ LegalEdge(thesis[u].state, to)
            /\ ApplyStateTransition(u, thesis[u].state, to)
    BY <1>1, SerialMove DEF SerialInv
  <2>2. /\ thesis'[u].state = to
        /\ \A v \in Theses \ {u} : thesis'[v] = thesis[v]
        /\ card'[u] = IF thesis[u].state = "actionable" THEN FALSE
                      ELSE card[u] \/ to = "actionable"
    BY <2>1, MoveEffect
  <2>3. u = t
    BY <2>2
  <2>4. QED
    BY <2>1, <2>2, <2>3
<1>2. ASSUME NEW d \in Drafters, NEW slots \in Drafts, PersistThesis(d, slots)
      PROVE  FALSE
  <2>1. PICK u \in Theses :
            /\ ~Exists(u)
            /\ thesis' = [thesis EXCEPT ![u] =
                   [state |-> "forming", slots |-> slots, version |-> 1]]
    BY <1>2 DEF PersistThesis
  <2>2. thesis'[t] = thesis[t]
    BY <2>1 DEF TypeOK
  <2>3. QED
    BY <2>2
<1>3. ASSUME NEW d \in Drafters, NEW slots, Reconcile(d, slots)
      PROVE  FALSE
  BY <1>3 DEF TypeOK, Rows, Reconcile
<1>4. thesis' # thesis
  OBVIOUS
<1>5. QED
  BY <1>1, <1>2, <1>3, <1>4
  DEF Next, NewRequest, HandlerStep, DrafterStep, Scanner, LoadTransition,
      DecideWithoutFill, LoadFill, CommitFill, ResolveCard, Refused, Abandon,
      BeginDraft, Decline, EndDraft, ScanThesis, FlagThesis, DismissCard, vars

\* When requests do not overlap, a disqualified thesis stays so and a closed one
\* can only be disqualified.
THEOREM SerialTerminal == ASSUME OneHandler PROVE Spec => TerminalIsFinal
<1>1. TypeOK /\ AuditInv /\ SerialInv /\ [Next]_vars
          => [\A t \in Theses :
                 /\ thesis[t].state = "disqualified"
                       => thesis'[t].state = "disqualified"
                 /\ thesis[t].state = "closed"
                       => thesis'[t].state \in Terminal]_vars
  <2> SUFFICES ASSUME TypeOK, AuditInv, SerialInv, [Next]_vars,
                      NEW t \in Theses, thesis[t].state \in Terminal,
                      thesis'[t].state # thesis[t].state
               PROVE  /\ thesis[t].state = "closed"
                      /\ thesis'[t].state = "disqualified"
    BY DEF Terminal
  <2>1. LegalEdge(thesis[t].state, thesis'[t].state)
    BY SerialStep DEF Exists, Terminal
  <2>2. QED
    BY <2>1 DEF LegalEdge, Ladder, Terminal
<1>2. QED
  BY <1>1, SerialHolds, TypeCorrect, AuditHolds, PTL DEF Spec, TerminalIsFinal

\* When requests do not overlap, the card that asks for a decision is closed by
\* every way out of actionable.
THEOREM SerialCard ==
    ASSUME OneHandler PROVE Spec => LeavingActionableClosesCard
<1>1. TypeOK /\ AuditInv /\ SerialInv /\ [Next]_vars
          => [\A t \in Theses :
                 thesis[t].state = "actionable"
                     /\ thesis'[t].state # "actionable" => ~card'[t]]_vars
  <2> SUFFICES ASSUME TypeOK, AuditInv, SerialInv, [Next]_vars,
                      NEW t \in Theses, thesis[t].state = "actionable",
                      thesis'[t].state # "actionable"
               PROVE  ~card'[t]
    OBVIOUS
  <2>1. QED
    BY SerialStep DEF Exists
<1>2. QED
  BY <1>1, SerialHolds, TypeCorrect, AuditHolds, PTL
  DEF Spec, LeavingActionableClosesCard
=============================================================================
