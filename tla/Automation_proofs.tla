-------------------------- MODULE Automation_proofs --------------------------
(***************************************************************************)
(* Proofs about the readiness gate, for any number of passes and           *)
(* approvals, any metrics and any bounds; and, at the end, about the gate  *)
(* and the runner together, for every interleaving of their steps.         *)
(*                                                                         *)
(* PromotionTypeOK is not inductive as it stands: that a pass which        *)
(* promotes holds an approval needs what it knew when it read one          *)
(* (HeldApprovals); that a promotion paid from an approval is the first,   *)
(* or took a crash or an overlap, needs a count of the passes that have    *)
(* promoted and not yet marked it (Pays).                                  *)
(***************************************************************************)
EXTENDS Automation, StrategyRunner_proofs

Users(a) == {p \in Passes : pass[p].step = "use" /\ pass[p].holds = a}
Holders(a) ==
    {p \in Passes : pass[p].step \in {"metrics", "promote"} /\ pass[p].holds = a}
Writers == {p \in Passes : pass[p].step \in {"use", "record"}}
HandWriter == IF hand.step = "record" THEN 1 ELSE 0

\* What a pass holds is an approval of the step above the stage it read, and a
\* pass that writes holds one.
HeldApprovals ==
    \A p \in Passes :
        /\ pass[p].step \in {"metrics", "promote", "use", "record"} /\ pass[p].holds # NoRow
               => /\ pass[p].holds \in Approvals
                  /\ approval[pass[p].holds] # NoApproval
                  /\ \E t \in NextStage(pass[p].from) :
                        approval[pass[p].holds].edge = <<pass[p].from, t>>
        /\ pass[p].step \in {"promote", "use", "record"} => pass[p].holds # NoRow

HandIsAllowed == hand # AtRest => ManualChangeAllowed(hand.from, hand.to)

\* What an approval has paid for, while it is active and afterwards.
PaysFor(a) ==
    /\ approval[a] = NoApproval => spent[a] = 0
    /\ approval[a].status = "approved" => spent[a] <= crashes + Cardinality(Users(a))
    /\ approval[a].status \in {"used", "revoked"} =>
           spent[a] + Cardinality(Holders(a)) <= crashes + Cardinality(Passes)
Pays == \A a \in Approvals : PaysFor(a)

Logged == moves <= events + Cardinality(Writers) + HandWriter + crashes

PromotionInv == PromotionTypeOK /\ HeldApprovals /\ HandIsAllowed /\ Pays /\ Logged

(***************************************************************************)
(* The stages                                                              *)
(***************************************************************************)
LEMMA RankValues ==
    /\ Ladder = {"draft", "shadow", "paper", "canary_live", "expanded_live"}
    /\ Rank["draft"] = 0 /\ Rank["shadow"] = 1 /\ Rank["paper"] = 2
    /\ Rank["canary_live"] = 3 /\ Rank["expanded_live"] = 4
BY DEF Ladder, Rank

LEMMA RankIsInteger == \A s \in Ladder : Rank[s] \in Int
BY RankValues

LEMMA OffIsOffTheLadder == Ladder \cap Off = {}
BY RankValues DEF Off

\* next_stage is a function: at most one stage is above another.
LEMMA NextStageIsOne ==
    ASSUME NEW s \in Stages, NEW t \in NextStage(s), NEW u \in NextStage(s)
    PROVE  t = u
BY RankValues DEF NextStage

LEMMA NextStageRises ==
    ASSUME NEW s \in Stages, NEW t \in NextStage(s)
    PROVE  s \in Ladder /\ t \in Ladder /\ Rank[t] = Rank[s] + 1
BY DEF NextStage

\* A change by hand leaves the ladder or goes down on it, and nothing that is
\* off the ladder returns.
LEMMA HandsNeverRaise ==
    ASSUME NEW from \in Stages, NEW to \in Stages, ManualChangeAllowed(from, to)
    PROVE  /\ ~Rises(from, to)
           /\ IsOff(from) => IsOff(to)
           /\ to \in Off \/ ({from, to} \subseteq Ladder /\ Rank[to] < Rank[from])
<1>1. CASE to \in Off
  BY <1>1, OffIsOffTheLadder DEF Rises, IsOff
<1>2. CASE Rises(to, from)
  BY <1>2, OffIsOffTheLadder, RankIsInteger DEF Rises, IsOff
<1> QED
  BY <1>1, <1>2 DEF ManualChangeAllowed

(***************************************************************************)
(* Counting passes                                                         *)
(***************************************************************************)
LEMMA PassesAreFinite ==
    ASSUME NEW S, S \subseteq Passes
    PROVE  /\ IsFiniteSet(S)
           /\ Cardinality(S) \in Nat
           /\ Cardinality(S) <= Cardinality(Passes)
           /\ Cardinality(Passes) \in Nat
BY PassAssumption, FS_Subset, FS_CardinalityType

LEMMA OneMore ==
    ASSUME NEW S, S \subseteq Passes, NEW p \in Passes, p \notin S
    PROVE  Cardinality(S \union {p}) = Cardinality(S) + 1
BY PassesAreFinite, FS_AddElement

LEMMA OneLess ==
    ASSUME NEW S, S \subseteq Passes, NEW p \in S
    PROVE  Cardinality(S \ {p}) = Cardinality(S) - 1
BY PassesAreFinite, FS_RemoveElement

\* Two sets of passes without a pass in common.
LEMMA Apart ==
    ASSUME NEW S, S \subseteq Passes, NEW T, T \subseteq Passes, S \cap T = {}
    PROVE  Cardinality(S) + Cardinality(T) <= Cardinality(Passes)
<1>1. IsFiniteSet(S) /\ IsFiniteSet(T) /\ S \union T \subseteq Passes
  BY PassesAreFinite
<1>2. Cardinality(S \intersect T) = 0
  BY FS_EmptySet
<1>3. Cardinality(S \union T) = Cardinality(S) + Cardinality(T) - Cardinality(S \intersect T)
  BY <1>1, FS_Union
<1>4. /\ Cardinality(S) \in Nat /\ Cardinality(T) \in Nat
      /\ Cardinality(S \union T) <= Cardinality(Passes)
  BY <1>1, PassesAreFinite
<1> QED
  BY <1>2, <1>3, <1>4, PassesAreFinite

\* Kept folded, so that the provers see terms and not sets.
With(S, p) == S \union {p}
Without(S, p) == S \ {p}

\* The counted sets after a pass takes the row r.
LEMMA PassTakesRow ==
    ASSUME NEW p \in Passes, NEW r, DOMAIN pass = Passes,
           pass' = [pass EXCEPT ![p] = r]
    PROVE  /\ pass'[p] = r /\ \A q \in Passes \ {p} : pass'[q] = pass[q]
           /\ r.step \in {"use", "record"} => Writers' = With(Writers, p)
           /\ r.step \notin {"use", "record"} => Writers' = Without(Writers, p)
<1>1. pass'[p] = r /\ \A q \in Passes \ {p} : pass'[q] = pass[q]
  OBVIOUS
<1> QED
  BY <1>1 DEF Writers, With, Without

LEMMA UsersAfter ==
    ASSUME NEW p \in Passes, NEW r, DOMAIN pass = Passes,
           pass' = [pass EXCEPT ![p] = r], NEW a \in Approvals
    PROVE  /\ r.step = "use" /\ r.holds = a => Users(a)' = With(Users(a), p)
           /\ r.step # "use" => Users(a)' = Without(Users(a), p)
           /\ r.holds # a => Users(a)' = Without(Users(a), p)
BY PassTakesRow DEF Users, With, Without

LEMMA HoldersAfter ==
    ASSUME NEW p \in Passes, NEW r, DOMAIN pass = Passes,
           pass' = [pass EXCEPT ![p] = r], NEW a \in Approvals
    PROVE  /\ r.step \in {"metrics", "promote"} /\ r.holds = a
                  => Holders(a)' = With(Holders(a), p)
           /\ r.step \notin {"metrics", "promote"} => Holders(a)' = Without(Holders(a), p)
           /\ r.holds # a => Holders(a)' = Without(Holders(a), p)
BY PassTakesRow DEF Holders, With, Without

\* The counts of a set that p joins or leaves.
LEMMA JoinOrLeave ==
    ASSUME NEW S, S \subseteq Passes, NEW p \in Passes
    PROVE  /\ p \notin S => /\ Cardinality(With(S, p)) = Cardinality(S) + 1
                            /\ Without(S, p) = S
           /\ p \in S => /\ Cardinality(Without(S, p)) = Cardinality(S) - 1
                         /\ With(S, p) = S
           /\ Cardinality(S) \in Nat
<1>1. /\ p \notin S => Cardinality(With(S, p)) = Cardinality(S) + 1
      /\ p \in S => Cardinality(Without(S, p)) = Cardinality(S) - 1
      /\ Cardinality(S) \in Nat
  BY PassesAreFinite, FS_AddElement, FS_RemoveElement DEF With, Without
<1>2. /\ p \notin S => Without(S, p) = S
      /\ p \in S => With(S, p) = S
  BY DEF With, Without
<1> QED
  BY <1>1, <1>2

(***************************************************************************)
(* The initial states                                                      *)
(***************************************************************************)
LEMMA PromotionInitInv == PromotionInit => PromotionInv
<1> SUFFICES ASSUME PromotionInit PROVE PromotionInv
  OBVIOUS
<1>1. PromotionTypeOK
  <2>1. MaxHands \in Nat /\ MaxCrashes \in Nat
    BY PromotionBoundAssumption
  <2>2. status \in Stages
    BY DEF PromotionInit, Stages
  <2>3. /\ approval \in [Approvals -> ApprovalRows \union {NoApproval}]
        /\ pass \in [Passes -> PassRows \union {AtRest}]
        /\ hand \in HandRows \union {AtRest}
        /\ spent \in [Approvals -> Nat]
    BY DEF PromotionInit
  <2>4. /\ moves \in Nat /\ events \in Nat
        /\ hands \in 0..MaxHands /\ crashes \in 0..MaxCrashes
    BY <2>1 DEF PromotionInit
  <2> QED
    BY <2>2, <2>3, <2>4 DEF PromotionTypeOK, PromotionInit
<1>2. HeldApprovals /\ HandIsAllowed
  BY DEF PromotionInit, HeldApprovals, HandIsAllowed, AtRest
<1>3. Pays
  BY DEF PromotionInit, Pays, PaysFor, NoApproval
<1>4. Logged
  <2>1. Cardinality(Writers) \in Nat
    BY PassesAreFinite DEF Writers
  <2>2. moves = 0 /\ events = 0 /\ crashes = 0 /\ HandWriter = 0
    BY DEF PromotionInit, HandWriter, AtRest
  <2> QED
    BY <2>1, <2>2 DEF Logged
<1> QED
  BY <1>1, <1>2, <1>3, <1>4 DEF PromotionInv

(***************************************************************************)
(* A pass                                                                  *)
(***************************************************************************)
\* A step of p that changes nothing else, writes no stage and pays nothing.
LEMMA QuietPassStep ==
    ASSUME PromotionInv, NEW p \in Passes, NEW r \in PassRows \union {AtRest},
           pass' = [pass EXCEPT ![p] = r],
           pass[p].step \notin {"use", "record"},
           r.step \notin {"use", "record"},
           r.step \in {"metrics", "promote"} /\ r.holds # NoRow
               => /\ approval[r.holds] # NoApproval
                  /\ \E t \in NextStage(r.from) : approval[r.holds].edge = <<r.from, t>>
                  /\ approval[r.holds].status = "approved" \/ p \in Holders(r.holds),
           r.step = "promote" => r.holds # NoRow,
           iced' \in BOOLEAN,
           UNCHANGED <<status, approval, hand, spent, moves, events, hands, crashes>>
    PROVE  PromotionInv'
<1> USE DEF PromotionInv
<1>1. DOMAIN pass = Passes
  BY DEF PromotionTypeOK
<1>2. PromotionTypeOK'
  BY DEF PromotionTypeOK
<1>3. HeldApprovals'
  BY <1>1, PassTakesRow DEF HeldApprovals, PassRows, AtRest
<1>4. HandIsAllowed'
  BY DEF HandIsAllowed
<1>5. ASSUME NEW a \in Approvals PROVE PaysFor(a)'
  <2>1. p \notin Users(a)
    BY DEF Users
  <2>2. Users(a)' = Users(a)
    <3>1. Users(a)' = Without(Users(a), p)
      BY <1>1, UsersAfter
    <3> QED
      BY <2>1, <3>1 DEF With, Without
  <2>3. approval[a].status \in {"used", "revoked"} => Holders(a)' \subseteq Holders(a)
    <3>1. CASE r.step \in {"metrics", "promote"} /\ r.holds = a
      <4>1. approval[a].status = "approved" \/ p \in Holders(a)
        BY <3>1, NoneAssumption
      <4>2. Holders(a)' = With(Holders(a), p)
        BY <1>1, <3>1, HoldersAfter
      <4> QED
        BY <4>1, <4>2 DEF With, Without
    <3>2. CASE ~(r.step \in {"metrics", "promote"} /\ r.holds = a)
      <4>1. Holders(a)' = Without(Holders(a), p)
        BY <1>1, <3>2, HoldersAfter
      <4> QED
        BY <4>1 DEF With, Without
    <3> QED
      BY <3>1, <3>2
  <2>4. approval[a].status \in {"used", "revoked"} =>
            Cardinality(Holders(a)') <= Cardinality(Holders(a))
    BY <2>3, PassAssumption, FS_Subset, PassesAreFinite DEF Holders
  <2>5. /\ spent[a] \in Nat /\ crashes \in Nat
        /\ Cardinality(Holders(a)) \in Nat /\ Cardinality(Holders(a)') \in Nat
    BY PassesAreFinite, PromotionBoundAssumption DEF Holders, PromotionTypeOK
  <2> QED
    BY <2>2, <2>4, <2>5, PassesAreFinite DEF Pays, PaysFor
<1>6. Logged'
  <2>1. Writers' = Writers
    BY <1>1, PassTakesRow DEF Writers
  <2> QED
    BY <2>1 DEF Logged, HandWriter
<1> QED
  BY <1>2, <1>3, <1>4, <1>5, <1>6 DEF Pays

LEMMA StartEvaluationInv ==
    ASSUME PromotionInv, NEW p \in Passes, StartEvaluation(p) PROVE PromotionInv'
<1> DEFINE r == [step |-> "approval", from |-> status, holds |-> NoRow,
                 lapsed |-> {a \in Approvals : approval[a] # NoApproval
                                                   /\ approval[a].expired}]
<1>1. r \in PassRows /\ r.step = "approval"
  BY DEF PromotionInv, PromotionTypeOK, PassRows, PassSteps
<1>2. pass' = [pass EXCEPT ![p] = r] /\ pass[p].step = "rest"
  BY DEF StartEvaluation, AtRest
<1>3. iced' \in BOOLEAN
  BY DEF StartEvaluation, PromotionInv, PromotionTypeOK
<1> QED
  <2> HIDE DEF r
  <2> QED
    BY <1>1, <1>2, <1>3, QuietPassStep DEF StartEvaluation

LEMMA ReadApprovalInv ==
    ASSUME PromotionInv, NEW p \in Passes, ReadApproval(p) PROVE PromotionInv'
<1> DEFINE from == pass[p].from
           found == {a \in Approvals : \E t \in NextStage(from) : IsActive(a, <<from, t>>)}
<1>1. PICK a \in IF found = {} THEN {NoRow} ELSE found :
          pass' = [pass EXCEPT ![p].step = "metrics", ![p].holds = a]
  BY DEF ReadApproval
<1> DEFINE r == [pass[p] EXCEPT !.step = "metrics", !.holds = a]
<1>2. pass[p] \in PassRows /\ pass[p].step = "approval"
  BY DEF ReadApproval, PromotionInv, PromotionTypeOK, AtRest
<1>3. r \in PassRows /\ r.step = "metrics" /\ r.holds = a /\ r.from = from
  BY <1>2 DEF PassRows, PassSteps
<1>4. pass' = [pass EXCEPT ![p] = r]
  BY <1>1 DEF PromotionInv, PromotionTypeOK
<1>5. a # NoRow => /\ approval[a].status = "approved"
                   /\ \E t \in NextStage(from) : approval[a].edge = <<from, t>>
  BY DEF IsActive
<1>6. a # NoRow => approval[a] # NoApproval
  BY <1>5 DEF NoApproval
<1>7. iced' \in BOOLEAN
  BY DEF ReadApproval, PromotionInv, PromotionTypeOK
<1> HIDE DEF r
<1> QED
  BY <1>2, <1>3, <1>4, <1>5, <1>6, <1>7, QuietPassStep DEF ReadApproval

LEMMA ToRest ==
    ASSUME PromotionInv, NEW p \in Passes, pass' = [pass EXCEPT ![p] = AtRest],
           pass[p].step \notin {"use", "record"}, iced' \in BOOLEAN,
           UNCHANGED <<status, approval, hand, spent, moves, events, hands, crashes>>
    PROVE  PromotionInv'
BY QuietPassStep DEF AtRest

LEMMA DecideInv ==
    ASSUME PromotionInv, NEW p \in Passes, NEW m \in Measured, Decide(p, m)
    PROVE  PromotionInv'
<1>1. pass[p] \in PassRows /\ pass[p].step = "metrics"
  BY DEF Decide, PromotionInv, PromotionTypeOK, AtRest
<1>2. iced' \in BOOLEAN
  BY DEF Decide, PromotionInv, PromotionTypeOK
<1>3. CASE MetricsPass(pass[p].from, m) /\ ApprovalValid(p)
  <2> DEFINE r == [pass[p] EXCEPT !.step = "promote"]
  <2>1. /\ r \in PassRows /\ r.step = "promote"
        /\ r.holds = pass[p].holds /\ r.from = pass[p].from
    BY <1>1 DEF PassRows, PassSteps
  <2>2. r.holds # NoRow
    BY <1>3, <2>1 DEF ApprovalValid
  <2>3. /\ r.holds \in Approvals /\ approval[r.holds] # NoApproval
        /\ \E t \in NextStage(r.from) : approval[r.holds].edge = <<r.from, t>>
    BY <1>1, <2>1, <2>2 DEF PromotionInv, HeldApprovals
  <2>4. p \in Holders(r.holds)
    BY <1>1, <2>1 DEF Holders
  <2>5. pass' = [pass EXCEPT ![p] = r]
    BY <1>3 DEF Decide
  <2> HIDE DEF r
  <2> QED
    BY <1>1, <1>2, <2>1, <2>2, <2>3, <2>4, <2>5, QuietPassStep DEF Decide
<1>4. CASE ~(MetricsPass(pass[p].from, m) /\ ApprovalValid(p))
           /\ FreezesLive(pass[p].from, m)
  <2> DEFINE r == [pass[p] EXCEPT !.step = "freeze"]
  <2>1. r \in PassRows /\ r.step = "freeze"
    BY <1>1 DEF PassRows, PassSteps
  <2>2. pass' = [pass EXCEPT ![p] = r]
    BY <1>4 DEF Decide
  <2> HIDE DEF r
  <2> QED
    BY <1>1, <1>2, <2>1, <2>2, QuietPassStep DEF Decide
<1>5. CASE ~(MetricsPass(pass[p].from, m) /\ ApprovalValid(p))
           /\ ~FreezesLive(pass[p].from, m)
  <2>1. pass' = [pass EXCEPT ![p] = AtRest]
    BY <1>5 DEF Decide
  <2> QED
    BY <1>1, <1>2, <2>1, ToRest DEF Decide
<1> QED
  BY <1>3, <1>4, <1>5

LEMMA FreezeLiveInv ==
    ASSUME PromotionInv, NEW p \in Passes, FreezeLive(p) PROVE PromotionInv'
BY ToRest DEF FreezeLive

\* The promotion: the stage, one more payment, one more change to record.
LEMMA PromoteInv ==
    ASSUME PromotionInv, NEW p \in Passes, Promote(p) PROVE PromotionInv'
<1> USE DEF PromotionInv
<1>1. pass[p] \in PassRows /\ pass[p].step = "promote" /\ DOMAIN pass = Passes
  BY DEF Promote, PromotionTypeOK, AtRest
<1>2. iced' \in BOOLEAN
  BY DEF Promote, PromotionTypeOK
<1>3. CASE status # pass[p].from
  BY <1>1, <1>2, <1>3, ToRest DEF Promote
<1>4. CASE status = pass[p].from
  <2> DEFINE a == pass[p].holds
             r == [pass[p] EXCEPT !.step = "use"]
  <2>1. a \in Approvals /\ approval[a] # NoApproval
    BY <1>1 DEF HeldApprovals
  <2>2. PICK t \in NextStage(status) :
            /\ status' = t
            /\ spent' = [spent EXCEPT ![a] = @ + 1]
            /\ moves' = moves + 1
            /\ pass' = [pass EXCEPT ![p].step = "use"]
    BY <1>4 DEF Promote
  <2>3. pass' = [pass EXCEPT ![p] = r] /\ r \in PassRows
        /\ r.step = "use" /\ r.holds = a /\ r.from = pass[p].from
    BY <1>1, <2>2 DEF PassRows, PassSteps
  <2>4. UNCHANGED <<approval, hand, iced, events, hands, crashes>>
    BY DEF Promote
  <2> HIDE DEF a, r
  <2>5. PromotionTypeOK'
    <3>1. status' \in Stages
      BY <2>2, NextStageRises DEF Stages, PromotionTypeOK
    <3>2. spent' \in [Approvals -> Nat] /\ moves' \in Nat
      BY <2>1, <2>2 DEF PromotionTypeOK
    <3>3. pass' \in [Passes -> PassRows \union {AtRest}]
      BY <2>3 DEF PromotionTypeOK
    <3> QED
      BY <2>4, <3>1, <3>2, <3>3 DEF PromotionTypeOK
  <2>6. HeldApprovals'
    BY <1>1, <2>1, <2>3, <2>4, PassTakesRow DEF HeldApprovals, a
  <2>7. HandIsAllowed'
    BY <2>4 DEF HandIsAllowed
  <2>8. ASSUME NEW b \in Approvals PROVE PaysFor(b)'
    <3>1. PaysFor(b) /\ spent[b] \in Nat /\ crashes \in Nat
      BY PromotionBoundAssumption DEF Pays, PromotionTypeOK
    <3>2. p \notin Users(b)
      BY <1>1 DEF Users
    <3>3. Users(b) \subseteq Passes /\ Holders(b) \subseteq Passes
      BY DEF Users, Holders
    <3>4. CASE b = a
      <4>1. p \in Holders(b)
        BY <1>1, <3>4 DEF Holders, a
      <4>2. Users(b)' = With(Users(b), p)
        BY <1>1, <2>3, <3>4, UsersAfter
      <4>3. Holders(b)' = Without(Holders(b), p)
        <5>1. r.step \notin {"metrics", "promote"}
          BY <2>3
        <5> QED
          BY <1>1, <2>3, <5>1, HoldersAfter
      <4>4. /\ Cardinality(Users(b)') = Cardinality(Users(b)) + 1
            /\ Cardinality(Holders(b)') = Cardinality(Holders(b)) - 1
            /\ Cardinality(Users(b)) \in Nat /\ Cardinality(Holders(b)) \in Nat
        BY <3>2, <3>3, <4>1, <4>2, <4>3, JoinOrLeave
      <4>5. spent'[b] = spent[b] + 1
        BY <2>2, <3>4 DEF PromotionTypeOK
      <4>6. approval[b] # NoApproval
        BY <2>1, <3>4
      <4> QED
        BY <2>4, <3>1, <4>4, <4>5, <4>6, PassesAreFinite DEF PaysFor
    <3>5. CASE b # a
      <4>1. Users(b)' = Without(Users(b), p)
        <5>1. r.holds # b
          BY <2>3, <3>5
        <5> QED
          BY <1>1, <2>3, <5>1, UsersAfter
      <4>2. Holders(b)' = Without(Holders(b), p)
        <5>1. r.step \notin {"metrics", "promote"}
          BY <2>3
        <5> QED
          BY <1>1, <2>3, <5>1, HoldersAfter
      <4>3. p \notin Holders(b)
        BY <3>5 DEF Holders, a
      <4>4. Users(b)' = Users(b) /\ Holders(b)' = Holders(b)
        BY <3>2, <4>1, <4>2, <4>3 DEF With, Without
      <4>5. spent'[b] = spent[b]
        BY <2>2, <3>5 DEF PromotionTypeOK
      <4> QED
        BY <2>4, <3>1, <4>4, <4>5 DEF PaysFor
    <3> QED
      BY <3>4, <3>5
  <2>9. Logged'
    <3>1. p \notin Writers /\ Writers \subseteq Passes
      BY <1>1 DEF Writers
    <3>2. Writers' = With(Writers, p)
      BY <1>1, <2>3, PassTakesRow
    <3>3. Cardinality(Writers') = Cardinality(Writers) + 1 /\ Cardinality(Writers) \in Nat
      BY <3>1, <3>2, JoinOrLeave
    <3>4. HandWriter' = HandWriter /\ HandWriter \in Nat
      BY <2>4 DEF HandWriter
    <3>5. moves \in Nat /\ events \in Nat /\ crashes \in Nat
      BY PromotionBoundAssumption DEF PromotionTypeOK
    <3> QED
      BY <2>2, <2>4, <3>3, <3>4, <3>5 DEF Logged
  <2> QED
    BY <2>5, <2>6, <2>7, <2>8, <2>9 DEF Pays
<1> QED
  BY <1>3, <1>4

\* The approval is marked: what it paid for no longer counts its user.
LEMMA MarkUsedInv ==
    ASSUME PromotionInv, NEW p \in Passes, MarkUsed(p) PROVE PromotionInv'
<1> USE DEF PromotionInv
<1> DEFINE a == pass[p].holds
           r == [pass[p] EXCEPT !.step = "record"]
<1>1. pass[p] \in PassRows /\ pass[p].step = "use" /\ DOMAIN pass = Passes
  BY DEF MarkUsed, PromotionTypeOK, AtRest
<1>2. a \in Approvals /\ approval[a] # NoApproval /\ approval[a] \in ApprovalRows
  BY <1>1 DEF HeldApprovals, PromotionTypeOK
<1>3. pass' = [pass EXCEPT ![p] = r] /\ r \in PassRows
      /\ r.step = "record" /\ r.holds = a /\ r.from = pass[p].from
  BY <1>1 DEF MarkUsed, PassRows, PassSteps
<1>4. /\ approval' = [approval EXCEPT ![a].status = "used"]
      /\ UNCHANGED <<status, hand, iced, spent, moves, events, hands, crashes>>
  BY DEF MarkUsed
<1>5. /\ approval'[a].status = "used" /\ approval'[a].edge = approval[a].edge
      /\ approval'[a] \in ApprovalRows
      /\ \A b \in Approvals \ {a} : approval'[b] = approval[b]
  BY <1>2, <1>4 DEF PromotionTypeOK, ApprovalRows
<1> HIDE DEF a, r
<1>6. PromotionTypeOK'
  <2>1. pass' \in [Passes -> PassRows \union {AtRest}]
    BY <1>3 DEF PromotionTypeOK
  <2>2. approval' \in [Approvals -> ApprovalRows \union {NoApproval}]
    BY <1>2, <1>4, <1>5 DEF PromotionTypeOK
  <2> QED
    BY <1>4, <2>1, <2>2 DEF PromotionTypeOK
<1>7. HeldApprovals'
  <2>1. \A b \in Approvals : /\ approval'[b].edge = approval[b].edge
                             /\ approval[b] # NoApproval => approval'[b] # NoApproval
    BY <1>5 DEF NoApproval
  <2>2. pass'[p] = r /\ \A q \in Passes \ {p} : pass'[q] = pass[q]
    BY <1>1, <1>3, PassTakesRow
  <2>3. r.holds # NoRow /\ \E t \in NextStage(r.from) : approval[a].edge = <<r.from, t>>
    BY <1>1, <1>3 DEF HeldApprovals, a
  <2>4. \A q \in Passes \ {p} :
           pass[q].step \in {"metrics", "promote", "use", "record"}
               /\ pass[q].holds # NoRow
               => /\ pass[q].holds \in Approvals
                  /\ approval'[pass[q].holds] # NoApproval
                  /\ \E t \in NextStage(pass[q].from) :
                        approval'[pass[q].holds].edge = <<pass[q].from, t>>
    BY <2>1 DEF HeldApprovals
  <2>5. \A q \in Passes \ {p} :
           pass[q].step \in {"promote", "use", "record"} => pass[q].holds # NoRow
    BY DEF HeldApprovals
  <2>6. a # NoRow /\ approval'[a] # NoApproval
        /\ \E t \in NextStage(r.from) : approval'[a].edge = <<r.from, t>>
    BY <1>2, <1>3, <2>1, <2>3
  <2> QED
    BY <1>2, <1>3, <2>2, <2>4, <2>5, <2>6 DEF HeldApprovals
<1>8. HandIsAllowed'
  BY <1>4 DEF HandIsAllowed
<1>9. ASSUME NEW b \in Approvals PROVE PaysFor(b)'
  <2>1. PaysFor(b) /\ spent[b] \in Nat /\ crashes \in Nat
    BY PromotionBoundAssumption DEF Pays, PromotionTypeOK
  <2>2. Users(b) \subseteq Passes /\ Holders(b) \subseteq Passes
        /\ Users(b) \intersect Holders(b) = {}
    BY DEF Users, Holders
  <2>3. p \notin Holders(b)
    BY <1>1 DEF Holders
  <2>4. Users(b)' = Without(Users(b), p) /\ Holders(b)' = Without(Holders(b), p)
    <3>1. r.step # "use" /\ r.step \notin {"metrics", "promote"}
      BY <1>3
    <3> QED
      BY <1>1, <1>3, <3>1, UsersAfter, HoldersAfter
  <2>5. Holders(b)' = Holders(b)
    BY <2>3, <2>4 DEF With, Without
  <2>6. CASE b # a
    <3>1. p \notin Users(b)
      BY <2>6 DEF Users, a
    <3>2. Users(b)' = Users(b)
      BY <2>4, <3>1 DEF With, Without
    <3> QED
      BY <1>4, <1>5, <2>1, <2>5, <2>6, <3>2 DEF PaysFor
  <2>7. CASE b = a
    <3>1. Cardinality(Users(b)) + Cardinality(Holders(b)) <= Cardinality(Passes)
      BY <2>2, Apart
    <3>2. /\ Cardinality(Users(b)) \in Nat /\ Cardinality(Holders(b)) \in Nat
          /\ Cardinality(Passes) \in Nat
      BY <2>2, PassesAreFinite
    <3>3. spent[b] + Cardinality(Holders(b)) <= crashes + Cardinality(Passes)
      BY <1>2, <2>1, <2>7, <3>1, <3>2 DEF PaysFor, ApprovalRows
    <3> QED
      BY <1>4, <1>5, <2>5, <2>7, <3>3 DEF PaysFor, NoApproval
  <2> QED
    BY <2>6, <2>7
<1>10. Logged'
  <2>1. p \in Writers
    BY <1>1 DEF Writers
  <2>2. Writers' = With(Writers, p)
    BY <1>1, <1>3, PassTakesRow
  <2>3. Writers' = Writers
    BY <2>1, <2>2 DEF With, Without
  <2> QED
    BY <1>4, <2>3 DEF Logged, HandWriter
<1> QED
  BY <1>6, <1>7, <1>8, <1>9, <1>10 DEF Pays

\* A pass that ends after it has written, with an event or a crash to show.
LEMMA EndOfPass ==
    ASSUME PromotionInv, NEW p \in Passes, pass[p] # AtRest,
           pass' = [pass EXCEPT ![p] = AtRest],
           UNCHANGED <<status, approval, hand, iced, spent, moves, hands>>,
           \/ crashes' = crashes + 1 /\ crashes < MaxCrashes /\ events' = events
           \/ crashes' = crashes /\ events' = events + 1 /\ pass[p].step = "record"
    PROVE  PromotionInv'
<1> USE DEF PromotionInv
<1>1. /\ DOMAIN pass = Passes /\ AtRest.step = "rest"
      /\ MaxCrashes \in Nat /\ crashes \in Nat /\ events \in Nat /\ moves \in Nat
  BY PromotionBoundAssumption DEF PromotionTypeOK, AtRest
<1>2. /\ crashes' \in 0..MaxCrashes /\ events' \in Nat
      /\ crashes' + events' = crashes + events + 1 /\ crashes' >= crashes
      /\ crashes' \in Nat
  BY <1>1 DEF PromotionTypeOK
<1>3. PromotionTypeOK'
  <2>1. pass' \in [Passes -> PassRows \union {AtRest}]
    BY DEF PromotionTypeOK
  <2> QED
    BY <1>2, <2>1 DEF PromotionTypeOK
<1>4. HeldApprovals'
  BY <1>1, PassTakesRow DEF HeldApprovals
<1>5. HandIsAllowed'
  BY DEF HandIsAllowed
<1>6. ASSUME NEW a \in Approvals PROVE PaysFor(a)'
  <2>1. PaysFor(a) /\ spent[a] \in Nat
    BY DEF Pays, PromotionTypeOK
  <2>2. Users(a) \subseteq Passes /\ Holders(a) \subseteq Passes
    BY DEF Users, Holders
  <2>3. /\ Users(a)' = Without(Users(a), p)
        /\ Holders(a)' = Without(Holders(a), p)
    BY <1>1, UsersAfter, HoldersAfter
  <2>4. /\ Cardinality(Holders(a)') <= Cardinality(Holders(a))
        /\ Cardinality(Users(a)') >= Cardinality(Users(a)) - 1
        /\ Cardinality(Users(a)) \in Nat /\ Cardinality(Users(a)') \in Nat
        /\ Cardinality(Holders(a)) \in Nat /\ Cardinality(Holders(a)') \in Nat
    <3>1. Users(a)' \subseteq Passes /\ Holders(a)' \subseteq Passes
      BY <2>2, <2>3 DEF Without
    <3>2. /\ Cardinality(Users(a)) \in Nat /\ Cardinality(Users(a)') \in Nat
          /\ Cardinality(Holders(a)) \in Nat /\ Cardinality(Holders(a)') \in Nat
      BY <2>2, <3>1, PassesAreFinite
    <3> QED
      BY <2>2, <2>3, <3>2, JoinOrLeave
  <2>5. crashes' = crashes => Users(a)' = Users(a)
    <3>1. crashes' = crashes => pass[p].step = "record"
      BY <1>1
    <3>2. pass[p].step = "record" => p \notin Users(a)
      BY DEF Users
    <3> QED
      BY <2>3, <3>1, <3>2 DEF Without
  <2>6. crashes' = crashes \/ crashes' = crashes + 1
    OBVIOUS
  <2>7. approval[a] = NoApproval => spent'[a] = 0
    BY <2>1 DEF PaysFor
  <2>8. approval[a].status = "approved" => spent'[a] <= crashes' + Cardinality(Users(a)')
    BY <1>1, <2>1, <2>4, <2>5, <2>6 DEF PaysFor
  <2>9. Cardinality(Passes) \in Nat
    BY <2>2, PassesAreFinite
  <2>10. approval[a].status \in {"used", "revoked"} =>
             spent'[a] + Cardinality(Holders(a)') <= crashes' + Cardinality(Passes)
    BY <1>1, <1>2, <2>1, <2>4, <2>9 DEF PaysFor
  <2> QED
    BY <2>7, <2>8, <2>10 DEF PaysFor
<1>7. Logged'
  <2>1. Writers \subseteq Passes /\ Writers' = Without(Writers, p)
    BY <1>1, PassTakesRow DEF Writers
  <2>2. Writers' \subseteq Passes
    BY <2>1 DEF Without
  <2>3. /\ Cardinality(Writers) \in Nat /\ Cardinality(Writers') \in Nat
        /\ Cardinality(Writers') >= Cardinality(Writers) - 1
    BY <2>1, <2>2, JoinOrLeave
  <2>4. HandWriter' = HandWriter /\ HandWriter \in Nat
    BY DEF HandWriter
  <2> QED
    BY <1>1, <1>2, <2>3, <2>4 DEF Logged
<1> QED
  BY <1>3, <1>4, <1>5, <1>6, <1>7 DEF Pays

LEMMA RecordPromotionInv ==
    ASSUME PromotionInv, NEW p \in Passes, RecordPromotion(p) PROVE PromotionInv'
<1>1. pass[p] # AtRest
  BY DEF RecordPromotion, AtRest
<1> QED
  BY <1>1, EndOfPass DEF RecordPromotion

LEMMA PassCrashesInv ==
    ASSUME PromotionInv, NEW p \in Passes, PassCrashes(p) PROVE PromotionInv'
BY EndOfPass DEF PassCrashes

(***************************************************************************)
(* The operator                                                            *)
(***************************************************************************)
\* A step that neither touches a pass nor an approval.
LEMMA HandStep ==
    ASSUME PromotionInv, PromotionTypeOK', HandIsAllowed',
           UNCHANGED <<approval, pass, spent>>, crashes' \in Nat, crashes' >= crashes,
           moves' + events + crashes + HandWriter
               <= moves + events' + crashes' + HandWriter'
    PROVE  PromotionInv'
<1> USE DEF PromotionInv
<1>1. HeldApprovals'
  BY DEF HeldApprovals
<1>2. ASSUME NEW a \in Approvals PROVE PaysFor(a)'
  <2>1. Users(a)' = Users(a) /\ Holders(a)' = Holders(a)
    BY DEF Users, Holders
  <2>2. /\ Cardinality(Users(a)) \in Nat /\ Cardinality(Holders(a)) \in Nat
        /\ Cardinality(Passes) \in Nat /\ spent[a] \in Nat /\ crashes \in Nat
    BY PassesAreFinite, PromotionBoundAssumption DEF Users, Holders, PromotionTypeOK
  <2> QED
    BY <2>1, <2>2 DEF Pays, PaysFor
<1>3. Logged'
  <2>1. Writers' = Writers /\ Cardinality(Writers) \in Nat
    BY PassesAreFinite DEF Writers
  <2>2. /\ moves \in Nat /\ events \in Nat /\ crashes \in Nat
        /\ moves' \in Nat /\ events' \in Nat
    BY PromotionBoundAssumption DEF PromotionTypeOK
  <2>3. HandWriter \in Nat /\ HandWriter' \in Nat
    BY DEF HandWriter
  <2>4. moves <= events + Cardinality(Writers) + HandWriter + crashes
    BY DEF Logged
  <2>5. crashes \in Nat /\ crashes' \in Nat
    BY PromotionBoundAssumption DEF PromotionTypeOK
  <2>6. PICK n \in Nat, h \in Nat, k \in Nat, m \in Nat, e \in Nat, c \in Nat,
             mm \in Nat, ee \in Nat, cc \in Nat :
            /\ Cardinality(Writers) = n /\ HandWriter = h /\ HandWriter' = k
            /\ moves = m /\ events = e /\ crashes = c
            /\ moves' = mm /\ events' = ee /\ crashes' = cc
    BY <2>1, <2>2, <2>3, <2>5
  <2>7. m <= e + n + h + c
    BY <2>4, <2>6
  <2>8. mm + e + c + h <= m + ee + cc + k
    BY <2>6
  <2>9. mm <= ee + n + k + cc
    BY <2>7, <2>8
  <2> QED
    BY <2>1, <2>6, <2>9 DEF Logged
<1> QED
  BY <1>1, <1>2, <1>3 DEF Pays

LEMMA StartManualChangeInv ==
    ASSUME PromotionInv, NEW to \in Stages, StartManualChange(to) PROVE PromotionInv'
<1>1. hand' = [step |-> "write", from |-> status, to |-> to] /\ hand = AtRest
      /\ hands' = hands + 1 /\ hands < MaxHands
      /\ UNCHANGED <<status, approval, pass, iced, spent, moves, events, crashes>>
  BY DEF StartManualChange
<1>2. HandIsAllowed'
  BY <1>1 DEF HandIsAllowed, StartManualChange
<1>3. PromotionTypeOK'
  <2>1. hand' \in HandRows
    BY <1>1 DEF PromotionInv, PromotionTypeOK, HandRows
  <2>2. hands' \in 0..MaxHands
    BY <1>1, PromotionBoundAssumption DEF PromotionInv, PromotionTypeOK
  <2> QED
    BY <1>1, <2>1, <2>2 DEF PromotionInv, PromotionTypeOK
<1>4. HandWriter' = 0 /\ HandWriter = 0
  BY <1>1 DEF HandWriter, AtRest
<1>5. moves \in Nat /\ events \in Nat /\ crashes \in Nat
  BY PromotionBoundAssumption DEF PromotionInv, PromotionTypeOK
<1> QED
  BY <1>1, <1>2, <1>3, <1>4, <1>5, HandStep

LEMMA WriteManualChangeInv ==
    ASSUME PromotionInv, WriteManualChange PROVE PromotionInv'
<1>1. /\ hand \in HandRows /\ hand.step = "write"
      /\ moves \in Nat /\ events \in Nat /\ crashes \in Nat
      /\ UNCHANGED <<approval, pass, iced, spent, events, hands, crashes>>
  BY PromotionBoundAssumption
  DEF WriteManualChange, PromotionInv, PromotionTypeOK, AtRest
<1>2. CASE status # hand.from
  <2>1. hand' = AtRest /\ UNCHANGED <<status, moves>>
    BY <1>2 DEF WriteManualChange
  <2>2. PromotionTypeOK' /\ HandIsAllowed'
    BY <1>1, <2>1 DEF PromotionInv, PromotionTypeOK, HandIsAllowed
  <2>3. HandWriter' = 0 /\ HandWriter = 0
    BY <1>1, <2>1 DEF HandWriter, AtRest
  <2> QED
    BY <1>1, <2>1, <2>2, <2>3, HandStep
<1>3. CASE status = hand.from
  <2>1. /\ status' = hand.to /\ moves' = moves + 1
        /\ hand' = [hand EXCEPT !.step = "record"]
    BY <1>3 DEF WriteManualChange
  <2>2. hand' \in HandRows /\ hand'.from = hand.from /\ hand'.to = hand.to
        /\ hand'.step = "record" /\ hand.to \in Stages
    BY <1>1, <2>1 DEF HandRows
  <2>3. PromotionTypeOK'
    BY <1>1, <2>1, <2>2 DEF PromotionInv, PromotionTypeOK
  <2>4. hand # AtRest
    BY <1>1 DEF AtRest
  <2>5. HandIsAllowed'
    BY <2>2, <2>4 DEF PromotionInv, HandIsAllowed
  <2>6. HandWriter' = 1 /\ HandWriter = 0
    BY <1>1, <2>2 DEF HandWriter
  <2> QED
    BY <1>1, <2>1, <2>3, <2>5, <2>6, HandStep
<1> QED
  BY <1>2, <1>3

LEMMA RecordManualChangeInv ==
    ASSUME PromotionInv, RecordManualChange PROVE PromotionInv'
<1>1. /\ hand.step = "record" /\ hand' = AtRest /\ events' = events + 1
      /\ moves \in Nat /\ events \in Nat /\ crashes \in Nat
      /\ UNCHANGED <<status, approval, pass, iced, spent, moves, hands, crashes>>
  BY PromotionBoundAssumption
  DEF RecordManualChange, PromotionInv, PromotionTypeOK
<1>2. PromotionTypeOK' /\ HandIsAllowed'
  BY <1>1 DEF PromotionInv, PromotionTypeOK, HandIsAllowed
<1>3. HandWriter' = 0 /\ HandWriter = 1
  BY <1>1 DEF HandWriter, AtRest
<1> QED
  BY <1>1, <1>2, <1>3, HandStep

LEMMA ManualChangeFailsInv ==
    ASSUME PromotionInv, ManualChangeFails PROVE PromotionInv'
<1>1. /\ hand' = AtRest /\ crashes' = crashes + 1 /\ crashes < MaxCrashes
      /\ moves \in Nat /\ events \in Nat /\ crashes \in Nat /\ MaxCrashes \in Nat
      /\ UNCHANGED <<status, approval, pass, iced, spent, moves, events, hands>>
  BY PromotionBoundAssumption
  DEF ManualChangeFails, PromotionInv, PromotionTypeOK
<1>2. crashes' \in 0..MaxCrashes
  BY <1>1
<1>3. PromotionTypeOK' /\ HandIsAllowed'
  BY <1>1, <1>2 DEF PromotionInv, PromotionTypeOK, HandIsAllowed
<1>4. HandWriter' = 0 /\ HandWriter \in {0, 1}
  BY <1>1 DEF HandWriter, AtRest
<1> QED
  BY <1>1, <1>3, <1>4, HandStep

LEMMA ThawInv ==
    ASSUME PromotionInv, Thaw PROVE PromotionInv'
<1>1. /\ hands' = hands + 1 /\ hands < MaxHands /\ iced' = FALSE
      /\ moves \in Nat /\ events \in Nat /\ crashes \in Nat /\ MaxHands \in Nat
      /\ UNCHANGED <<status, approval, pass, hand, spent, moves, events, crashes>>
  BY PromotionBoundAssumption DEF Thaw, PromotionInv, PromotionTypeOK
<1>2. hands' \in 0..MaxHands
  BY <1>1 DEF PromotionInv, PromotionTypeOK
<1>3. PromotionTypeOK' /\ HandIsAllowed'
  BY <1>1, <1>2 DEF PromotionInv, PromotionTypeOK, HandIsAllowed
<1>4. HandWriter' = HandWriter /\ HandWriter \in {0, 1}
  BY <1>1 DEF HandWriter
<1> QED
  BY <1>1, <1>3, <1>4, HandStep

\* A step that changes an approval and no pass.
LEMMA ApprovalStep ==
    ASSUME PromotionInv, PromotionTypeOK',
           UNCHANGED <<status, pass, hand, iced, spent, moves, events, hands, crashes>>,
           \A a \in Approvals :
              /\ approval[a] # NoApproval =>
                    /\ approval'[a] # NoApproval
                    /\ approval'[a].edge = approval[a].edge
                    /\ approval'[a].status # approval[a].status
                          => approval[a].status = "approved"
              /\ approval[a] = NoApproval => approval'[a].status \notin {"used", "revoked"}
    PROVE  PromotionInv'
<1> USE DEF PromotionInv
<1>1. HeldApprovals'
  BY DEF HeldApprovals
<1>2. HandIsAllowed' /\ Logged'
  BY DEF HandIsAllowed, Logged, Writers, HandWriter
<1>3. ASSUME NEW a \in Approvals PROVE PaysFor(a)'
  <2>1. Users(a)' = Users(a) /\ Holders(a)' = Holders(a)
    BY DEF Users, Holders
  <2>2. Users(a) \subseteq Passes /\ Holders(a) \subseteq Passes
        /\ Users(a) \intersect Holders(a) = {}
    BY DEF Users, Holders
  <2>3. /\ Cardinality(Users(a)) \in Nat /\ Cardinality(Holders(a)) \in Nat
        /\ Cardinality(Passes) \in Nat /\ spent[a] \in Nat /\ crashes \in Nat
        /\ Cardinality(Users(a)) + Cardinality(Holders(a)) <= Cardinality(Passes)
    BY <2>2, PassesAreFinite, Apart, PromotionBoundAssumption DEF PromotionTypeOK
  <2>4. PaysFor(a)
    BY DEF Pays
  <2>5. approval'[a] = NoApproval => spent[a] = 0
    BY <2>4 DEF PaysFor
  <2>6. approval'[a].status = "approved"
            => spent[a] <= crashes + Cardinality(Users(a))
    <3>1. CASE approval[a] = NoApproval
      BY <2>3, <2>4, <3>1 DEF PaysFor
    <3>2. CASE approval[a] # NoApproval
      BY <2>4, <3>2 DEF PaysFor
    <3> QED
      BY <3>1, <3>2
  <2>7. approval'[a].status \in {"used", "revoked"} =>
            spent[a] + Cardinality(Holders(a)) <= crashes + Cardinality(Passes)
    <3>1. CASE approval[a].status = "approved"
      BY <2>3, <2>4, <3>1 DEF PaysFor
    <3>2. CASE approval[a].status # "approved"
      BY <2>4, <3>2 DEF PaysFor
    <3> QED
      BY <3>1, <3>2
  <2> QED
    BY <2>1, <2>5, <2>6, <2>7 DEF PaysFor
<1> QED
  BY <1>1, <1>2, <1>3 DEF Pays

LEMMA EnterApprovalInv ==
    ASSUME PromotionInv, NEW a \in Approvals, NEW edge \in Edges,
           EnterApproval(a, edge)
    PROVE  PromotionInv'
<1> DEFINE r == [status |-> "approved", edge |-> edge, expired |-> FALSE]
<1>1. r \in ApprovalRows /\ r.status = "approved"
  BY DEF ApprovalRows
<1>2. approval' = [approval EXCEPT ![a] = r] /\ approval[a] = NoApproval
  BY DEF EnterApproval
<1> HIDE DEF r
<1>3. PromotionTypeOK'
  BY <1>1, <1>2 DEF EnterApproval, PromotionInv, PromotionTypeOK
<1>4. \A b \in Approvals : approval'[b] = IF b = a THEN r ELSE approval[b]
  BY <1>2 DEF PromotionInv, PromotionTypeOK
<1> QED
  BY <1>1, <1>2, <1>3, <1>4, ApprovalStep DEF EnterApproval, NoApproval

LEMMA RevokeInv ==
    ASSUME PromotionInv, NEW a \in Approvals, Revoke(a) PROVE PromotionInv'
<1> DEFINE r == [approval[a] EXCEPT !.status = "revoked"]
<1>1. approval[a] \in ApprovalRows /\ approval[a].status = "approved"
  BY DEF Revoke, PromotionInv, PromotionTypeOK, NoApproval
<1>2. r \in ApprovalRows /\ r.status = "revoked" /\ r.edge = approval[a].edge
  BY <1>1 DEF ApprovalRows
<1>3. approval' = [approval EXCEPT ![a] = r]
  BY DEF Revoke
<1> HIDE DEF r
<1>4. PromotionTypeOK'
  BY <1>2, <1>3 DEF Revoke, PromotionInv, PromotionTypeOK
<1>5. \A b \in Approvals : approval'[b] = IF b = a THEN r ELSE approval[b]
  BY <1>3 DEF PromotionInv, PromotionTypeOK
<1> QED
  BY <1>1, <1>2, <1>4, <1>5, ApprovalStep DEF Revoke, NoApproval

LEMMA ApprovalExpiresInv ==
    ASSUME PromotionInv, NEW a \in Approvals, ApprovalExpires(a) PROVE PromotionInv'
<1> DEFINE r == [approval[a] EXCEPT !.expired = TRUE]
<1>1. approval[a] \in ApprovalRows /\ approval[a] # NoApproval
  BY DEF ApprovalExpires, PromotionInv, PromotionTypeOK
<1>2. r \in ApprovalRows /\ r.status = approval[a].status /\ r.edge = approval[a].edge
  BY <1>1 DEF ApprovalRows
<1>3. approval' = [approval EXCEPT ![a] = r]
  BY DEF ApprovalExpires
<1>4. r # NoApproval
  BY <1>1, <1>2 DEF ApprovalRows, NoApproval
<1> HIDE DEF r
<1>5. PromotionTypeOK'
  BY <1>2, <1>3 DEF ApprovalExpires, PromotionInv, PromotionTypeOK
<1>6. \A b \in Approvals : approval'[b] = IF b = a THEN r ELSE approval[b]
  BY <1>3 DEF PromotionInv, PromotionTypeOK
<1> QED
  BY <1>1, <1>2, <1>4, <1>5, <1>6, ApprovalStep DEF ApprovalExpires, NoApproval

(***************************************************************************)
(* The theorems                                                            *)
(***************************************************************************)
LEMMA StutterInv ==
    ASSUME PromotionInv, UNCHANGED promotionVars PROVE PromotionInv'
<1> USE DEF promotionVars
<1>1. PromotionTypeOK' /\ HandIsAllowed'
  BY DEF PromotionInv, PromotionTypeOK, HandIsAllowed
<1>2. HeldApprovals'
  BY DEF PromotionInv, HeldApprovals
<1>3. Pays'
  BY DEF PromotionInv, Pays, PaysFor, Users, Holders
<1>4. Logged'
  BY DEF PromotionInv, Logged, Writers, HandWriter
<1> QED
  BY <1>1, <1>2, <1>3, <1>4 DEF PromotionInv

LEMMA NextInv ==
    ASSUME PromotionInv, [PromotionNext]_promotionVars PROVE PromotionInv'
<1>1. ASSUME NEW p \in Passes, PassStep(p) PROVE PromotionInv'
  BY <1>1, StartEvaluationInv, ReadApprovalInv, DecideInv, PromoteInv, MarkUsedInv,
     RecordPromotionInv, FreezeLiveInv DEF PassStep
<1>2. ASSUME NEW p \in Passes, PassCrashes(p) PROVE PromotionInv'
  BY <1>2, PassCrashesInv
<1>3. ASSUME NEW a \in Approvals,
             Revoke(a) \/ ApprovalExpires(a) \/ \E edge \in Edges : EnterApproval(a, edge)
      PROVE  PromotionInv'
  BY <1>3, RevokeInv, ApprovalExpiresInv, EnterApprovalInv
<1>4. ASSUME NEW to \in Stages, StartManualChange(to) PROVE PromotionInv'
  BY <1>4, StartManualChangeInv
<1> QED
  BY <1>1, <1>2, <1>3, <1>4, WriteManualChangeInv, RecordManualChangeInv,
     ManualChangeFailsInv, ThawInv, StutterInv DEF PromotionNext

THEOREM PromotionInvHolds == PromotionSpec => []PromotionInv
<1>1. PromotionInv /\ [PromotionNext]_promotionVars => PromotionInv'
  BY NextInv
<1> QED
  BY <1>1, PromotionInitInv, PTL DEF PromotionSpec

\* The variables of the gate keep their types.
THEOREM PromotionTypeCorrect == PromotionSpec => []PromotionTypeOK
<1>1. PromotionInv => PromotionTypeOK
  BY DEF PromotionInv
<1> QED
  BY <1>1, PromotionInvHolds, PTL

\* An approval pays for one promotion but for a crash or an overlap of passes,
\* and a change of stage without its event took a crash.
THEOREM PromotionsAccounted == PromotionSpec => []PromotionsAreAccounted
<1>1. PromotionInv => ApprovalsPayOnce
  <2> SUFFICES ASSUME PromotionInv, NEW a \in Approvals
               PROVE  spent[a] <= Cardinality(Passes) + crashes
    BY DEF ApprovalsPayOnce
  <2>1. PaysFor(a) /\ spent[a] \in Nat /\ crashes \in Nat
        /\ approval[a] \in ApprovalRows \union {NoApproval}
    BY PromotionBoundAssumption DEF PromotionInv, PromotionTypeOK, Pays
  <2>2. /\ Cardinality(Users(a)) \in Nat /\ Cardinality(Holders(a)) \in Nat
        /\ Cardinality(Passes) \in Nat /\ Cardinality(Users(a)) <= Cardinality(Passes)
    <3>1. Users(a) \subseteq Passes /\ Holders(a) \subseteq Passes
      BY DEF Users, Holders
    <3> QED
      BY <3>1, PassesAreFinite
  <2>3. \/ approval[a] = NoApproval \/ approval[a].status = "approved"
        \/ approval[a].status \in {"used", "revoked"}
    BY <2>1 DEF ApprovalRows
  <2> QED
    BY <2>1, <2>2, <2>3 DEF PaysFor
<1>2. PromotionInv => UnrecordedNeedsCrash
  <2> SUFFICES ASSUME PromotionInv PROVE UnrecordedNeedsCrash
    OBVIOUS
  <2>1. Recording = Cardinality(Writers) + HandWriter
    BY DEF Recording, Writers, HandWriter
  <2>2. Cardinality(Writers) \in Nat /\ HandWriter \in Nat /\ moves \in Nat
        /\ events \in Nat /\ crashes \in Nat
    BY PassesAreFinite, PromotionBoundAssumption
    DEF Writers, HandWriter, PromotionInv, PromotionTypeOK
  <2>3. moves <= events + Cardinality(Writers) + HandWriter + crashes
    BY DEF PromotionInv, Logged
  <2> QED
    BY <2>1, <2>2, <2>3 DEF UnrecordedNeedsCrash
<1>3. PromotionInv => PromotionsAreAccounted
  BY <1>1, <1>2 DEF PromotionsAreAccounted
<1> QED
  BY <1>3, PromotionInvHolds, PTL

\* Only two steps change the stage.
LEMMA WhoChangesTheStage ==
    ASSUME PromotionInv, [PromotionNext]_promotionVars, status' # status
    PROVE  \/ \E p \in Passes : Promote(p)
           \/ WriteManualChange
<1>1. ASSUME NEW p \in Passes, PassStep(p), ~Promote(p) PROVE status' = status
  BY <1>1 DEF PassStep, StartEvaluation, ReadApproval, Decide, MarkUsed,
     RecordPromotion, FreezeLive
<1>2. ASSUME NEW p \in Passes, PassCrashes(p) PROVE status' = status
  BY <1>2 DEF PassCrashes
<1>3. ASSUME NEW a \in Approvals,
             Revoke(a) \/ ApprovalExpires(a) \/ \E edge \in Edges : EnterApproval(a, edge)
      PROVE  status' = status
  BY <1>3 DEF Revoke, ApprovalExpires, EnterApproval
<1>4. ASSUME NEW to \in Stages, StartManualChange(to) PROVE status' = status
  BY <1>4 DEF StartManualChange
<1>5. RecordManualChange \/ ManualChangeFails \/ Thaw \/ UNCHANGED promotionVars
      => status' = status
  BY DEF RecordManualChange, ManualChangeFails, Thaw, promotionVars
<1> QED
  BY <1>1, <1>2, <1>3, <1>4, <1>5 DEF PromotionNext

\* What a pass that promotes was paid with.
Paid(p, a) ==
    /\ pass[p].step = "promote"
    /\ pass[p].holds = a
    /\ approval[a] # NoApproval
    /\ approval[a].edge = <<status, status'>>

LEMMA StageSteps ==
    ASSUME PromotionInv, [PromotionNext]_promotionVars
    PROVE  /\ IsOff(status) => IsOff(status')
           /\ Rises(status, status') => \E p \in Passes, a \in Approvals : Paid(p, a)
           /\ \/ status' \in Off \union {status}
              \/ {status, status'} \subseteq Ladder /\ Rank[status'] <= Rank[status] + 1
<1>1. ASSUME NEW p \in Passes, Promote(p), status' # status
      PROVE  /\ status \in Ladder /\ status' \in Ladder
             /\ Rank[status'] = Rank[status] + 1
             /\ \E q \in Passes, a \in Approvals : Paid(q, a)
  <2>1. status = pass[p].from /\ status' \in NextStage(status) /\ status \in Stages
    BY <1>1 DEF Promote, PromotionInv, PromotionTypeOK
  <2>2. /\ pass[p].step = "promote" /\ pass[p].holds \in Approvals
        /\ approval[pass[p].holds] # NoApproval
        /\ \E t \in NextStage(status) : approval[pass[p].holds].edge = <<status, t>>
    BY <1>1, <2>1 DEF Promote, PromotionInv, HeldApprovals
  <2>3. approval[pass[p].holds].edge = <<status, status'>>
    <3>1. PICK t \in NextStage(status) : approval[pass[p].holds].edge = <<status, t>>
      BY <2>2
    <3>2. status' = t
      BY <2>1, NextStageIsOne
    <3> QED
      BY <3>1, <3>2
  <2> QED
    BY <2>1, <2>2, <2>3, NextStageRises DEF Paid
<1>2. ASSUME WriteManualChange, status' # status
      PROVE  /\ status \in Stages /\ status' \in Stages
             /\ ManualChangeAllowed(status, status')
  <2>1. hand # AtRest /\ hand \in HandRows
    BY <1>2 DEF WriteManualChange, AtRest, PromotionInv, PromotionTypeOK
  <2>2. status = hand.from /\ status' = hand.to
    BY <1>2 DEF WriteManualChange
  <2> QED
    BY <1>2, <2>1, <2>2 DEF PromotionInv, HandIsAllowed, HandRows
<1>3. CASE status' = status
  BY <1>3, RankIsInteger DEF Rises
<1>4. CASE status' # status /\ \E p \in Passes : Promote(p)
  BY <1>1, <1>4, OffIsOffTheLadder, RankIsInteger DEF IsOff
<1>5. CASE status' # status /\ WriteManualChange
  <2>1. /\ ~Rises(status, status')
        /\ IsOff(status) => IsOff(status')
        /\ status' \in Off \/ ({status, status'} \subseteq Ladder
                                  /\ Rank[status'] < Rank[status])
    BY <1>2, <1>5, HandsNeverRaise
  <2> QED
    BY <2>1, RankIsInteger
<1> QED
  BY <1>3, <1>4, <1>5, WhoChangesTheStage

\* The stage rises one step at a time, for an approval of that step, and a
\* strategy that was taken out of service stays out.
THEOREM StagesLegal == PromotionSpec => StagesMoveLegally
<1>1. PromotionInv /\ [PromotionNext]_promotionVars
      => [IsOff(status) => IsOff(status')]_promotionVars
  BY StageSteps DEF Paid
<1>2. PromotionInv /\ [PromotionNext]_promotionVars
      => [Rises(status, status')
            => \E p \in Passes, a \in Approvals :
                  /\ pass[p].step = "promote"
                  /\ pass[p].holds = a
                  /\ approval[a] # NoApproval
                  /\ approval[a].edge = <<status, status'>>]_promotionVars
  BY StageSteps DEF Paid
<1>3. PromotionInv /\ [PromotionNext]_promotionVars
      => [\/ status' \in Off \union {status}
          \/ {status, status'} \subseteq Ladder /\ Rank[status'] <= Rank[status] + 1
         ]_promotionVars
  BY StageSteps DEF Paid
<1>4. PromotionSpec => [](PromotionInv) /\ [][PromotionNext]_promotionVars
  BY PromotionInvHolds DEF PromotionSpec
<1>5. PromotionSpec => OffStaysOff
  BY <1>1, <1>4, PTL DEF OffStaysOff
<1>6. PromotionSpec => RisesAreApproved
  BY <1>2, <1>4, PTL DEF RisesAreApproved
<1>7. PromotionSpec => StagesAreStepped
  BY <1>3, <1>4, PTL DEF StagesAreStepped
<1> QED
  BY <1>5, <1>6, <1>7 DEF StagesMoveLegally
-----------------------------------------------------------------------------
(***************************************************************************)
(* The runner and the gate together                                        *)
(*                                                                         *)
(* The gate needs nothing of the runner: AutomationSpec implements         *)
(* PromotionSpec.  The runner needs of the gate that the stage stays a     *)
(* stage and that a strategy which is off stays off; the gate guarantees   *)
(* that (StageSteps), so its steps keep the runner's invariant.            *)
(***************************************************************************)
RunnerInv == Inv /\ CapInv /\ StrandedInv /\ PositionsCoverSleeves

LEMMA RunnerStep == RunnerInv /\ [Next]_vars => RunnerInv'
BY InvStep, CapStep, StrandedStep, CoverStep DEF RunnerInv

\* A step of the gate, as the runner sees it.
LEMMA StageMoves ==
    ASSUME RunnerInv, stage' \in [Strategies -> Stages],
           \A s \in Strategies : IsOff(stage[s]) => IsOff(stage'[s]),
           UNCHANGED <<kill, permission, changes, runner, desired, books,
                       counters>>
    PROVE  RunnerInv'
<1>1. UNCHANGED <<kill, permission, changes, running, candidates, job, desired,
                  reconciled, sleeve, position, manual, fills, deaths, late,
                  afterKill, afterOff>>
  BY DEF runner, books, counters
<1>2. Inv
  BY DEF RunnerInv
<1>3. TypeOK'
  BY <1>1, <1>2 DEF Inv, TypeOK
<1>4. OffIsSpent'
  <2>1. \A p \in Permissions : StrategyOf[p] \in Strategies
    BY Amounts
  <2> QED
    BY <1>1, <1>2, <2>1 DEF Inv, OffIsSpent, Loaded, ProvedFor
<1>5. LateIsSpent' /\ KillIsSpent'
  BY <1>1, <1>2
  DEF Inv, LateIsSpent, KillIsSpent, Pending, ProvedFor
<1>6. Inv'
  BY <1>1, <1>2, <1>3, <1>4, <1>5, PassFrame DEF Inv, runner
<1>7. \A q \in Permissions : Notional(q)' = Notional(q)
  BY <1>1 DEF Notional
<1>8. \A P : Total(P)' = Total(P)
  BY <1>7 DEF Total
<1>9. CapInv'
  BY <1>1, <1>7, <1>8
  DEF RunnerInv, CapInv, WithinCaps, ProvedKeepsCaps, ProvedFor, Replaced
<1>10. StrandedInv'
  BY <1>1, <1>2, StillStranded DEF RunnerInv, Inv
<1>11. PositionsCoverSleeves'
  BY <1>1 DEF RunnerInv, PositionsCoverSleeves, OnSymbol
<1> QED
  BY <1>6, <1>9, <1>10, <1>11 DEF RunnerInv

AutomationInv == RunnerInv /\ PromotionInv /\ OneStage

LEMMA TradingKeeps == ASSUME AutomationInv, Trading PROVE AutomationInv'
<1>1. RunnerInv'
  BY RunnerStep DEF AutomationInv, Trading
<1>2. UNCHANGED <<stage[Gated], promotionVars>>
  BY DEF Trading
<1>3. PromotionInv'
  BY <1>2, NextInv DEF AutomationInv
<1>4. OneStage'
  BY <1>2 DEF AutomationInv, OneStage, promotionVars
<1> QED
  BY <1>1, <1>3, <1>4 DEF AutomationInv

LEMMA GatingKeeps == ASSUME AutomationInv, Gating PROVE AutomationInv'
<1>1. PromotionInv'
  BY NextInv DEF AutomationInv, Gating
<1>2. stage \in [Strategies -> Stages] /\ stage[Gated] = status
  BY DEF AutomationInv, RunnerInv, Inv, TypeOK, OneStage
<1>3. status' \in Stages
  BY <1>1 DEF PromotionInv, PromotionTypeOK
<1>4. IsOff(status) => IsOff(status')
  BY StageSteps DEF AutomationInv, Gating
<1>5. /\ stage' = [stage EXCEPT ![Gated] = status']
      /\ UNCHANGED <<kill, permission, changes, runner, desired, books, counters>>
  BY DEF Gating
<1>6. stage' \in [Strategies -> Stages] /\ stage'[Gated] = status'
  BY <1>2, <1>3, <1>5, GatedAssumption
<1>7. \A s \in Strategies : IsOff(stage[s]) => IsOff(stage'[s])
  BY <1>2, <1>4, <1>5, <1>6
<1>8. RunnerInv'
  BY <1>5, <1>6, <1>7, StageMoves DEF AutomationInv
<1> QED
  BY <1>1, <1>6, <1>8 DEF AutomationInv, OneStage

\* The two invariants hold side by side in every interleaving, and the stage
\* that the runner reads is the one the gate wrote.
THEOREM AutomationInvHolds == AutomationSpec => []AutomationInv
<1>1. AutomationInit => AutomationInv
  <2>1. Init => Inv /\ CapInv /\ StrandedInv /\ PositionsCoverSleeves
    BY InitInv, InitCaps, InitStranded, InitCovers
  <2> QED
    BY <2>1, PromotionInitInv
    DEF AutomationInit, AutomationInv, RunnerInv, OneStage
<1>2. AutomationInv /\ [AutomationNext]_automationVars => AutomationInv'
  <2> SUFFICES ASSUME AutomationInv, [AutomationNext]_automationVars
               PROVE  AutomationInv'
    OBVIOUS
  <2>1. CASE Trading
    BY <2>1, TradingKeeps
  <2>2. CASE Gating
    BY <2>2, GatingKeeps
  <2>3. CASE UNCHANGED automationVars
    <3>1. UNCHANGED vars /\ UNCHANGED promotionVars
      BY <2>3 DEF automationVars
    <3>2. RunnerInv' /\ PromotionInv'
      BY <3>1, RunnerStep, NextInv DEF AutomationInv
    <3>3. OneStage'
      BY <3>1 DEF AutomationInv, OneStage, vars, operator, promotionVars
    <3> QED
      BY <3>2, <3>3 DEF AutomationInv
  <2> QED
    BY <2>1, <2>2, <2>3 DEF AutomationNext
<1> QED
  BY <1>1, <1>2, PTL DEF AutomationSpec

\* The variables of both stay well typed while both run.
THEOREM AutomationTypeCorrect == AutomationSpec => []AutomationTypeOK
<1>1. AutomationInv => AutomationTypeOK
  BY DEF AutomationInv, RunnerInv, Inv, PromotionInv, AutomationTypeOK
<1> QED
  BY <1>1, AutomationInvHolds, PTL

\* The runner takes nothing from the gate: a behaviour of both is one of the
\* gate, whose stages therefore move legally beside any trading.
THEOREM AutomationImplementsGate ==
    AutomationSpec => PromotionSpec /\ StagesMoveLegally
<1>1. AutomationInit => PromotionInit
  BY DEF AutomationInit
<1>2. [AutomationNext]_automationVars => [PromotionNext]_promotionVars
  BY DEF AutomationNext, Trading, Gating, automationVars
<1>3. AutomationSpec => PromotionSpec
  BY <1>1, <1>2, PTL DEF AutomationSpec, PromotionSpec
<1> QED
  BY <1>3, StagesLegal

\* Everything the runs check of the runner alone and of the gate alone holds
\* of every interleaving of the two, with the stage shared: the caps, the
\* positions, the switches, the desired positions and the account of
\* promotions.
THEOREM AutomationSafe == AutomationSpec => []AutomationIsSafe
<1>1. Inv => SleeveFollowsDesired /\ EmissionIsNews /\ SwitchesLetOneThrough
  BY InvSwitches DEF Inv
<1>2. Inv /\ CapInv => AllocatorIsHardGate
  BY CapsAreHard
<1>3. AutomationSpec => []PromotionsAreAccounted
  BY AutomationImplementsGate, PromotionsAccounted
<1>4. AutomationInv /\ PromotionsAreAccounted => AutomationIsSafe
  BY <1>1, <1>2
  DEF AutomationInv, RunnerInv, StrandedInv, AutomationIsSafe
<1> QED
  BY <1>3, <1>4, AutomationInvHolds, PTL

\* The gate governs the runner through the stage: permissions of the gated
\* strategy are taken up only in stage shadow, in every interleaving.
THEOREM GateGoverns == AutomationSpec => StageGovernsRunner
<1>1. AutomationInv /\ [AutomationNext]_automationVars
      => [\A c \in candidates' \ candidates :
             StrategyOf[c.permission] = Gated => status = "shadow"]_automationVars
  <2> SUFFICES ASSUME AutomationInv, AutomationNext,
                      NEW c \in candidates' \ candidates,
                      StrategyOf[c.permission] = Gated
               PROVE  status = "shadow"
    OBVIOUS
  <2>1. CASE BeginPass
    <3>1. c \in CandidateRows
      BY <2>1 DEF BeginPass
    <3> QED
      BY <3>1 DEF CandidateRows, AutomationInv, OneStage
  <2>2. CASE candidates' \subseteq candidates
    BY <2>2
  <2>3. BeginPass \/ candidates' \subseteq candidates
    BY DEF AutomationNext, Trading, Gating, Next, Pass, Skip, Evaluate,
       EmitDesired, Reconcile, EndPass, PassDies, SetKill, Freeze, Expire,
       Approve, ChangeStage, ManualExit, ManualResize, runner
  <2> QED
    BY <2>1, <2>2, <2>3
<1> QED
  BY <1>1, AutomationInvHolds, PTL DEF AutomationSpec, StageGovernsRunner
=============================================================================
