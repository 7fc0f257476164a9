------------------------ MODULE StrategyRunner_proofs ------------------------
(***************************************************************************)
(* Shadow automation for any number of permissions, symbols and passes:    *)
(* how much a freeze and the kill switch still let through, that a desired *)
(* position is written only when the target changes, that a sleeve follows *)
(* its last desired position, and that only a pass that dies leaves a      *)
(* target without a reconciliation.                                        *)
(* The caps on a symbol and on the portfolio, and that the position of a   *)
(* symbol covers the sleeves that share it, are claims about sums over     *)
(* permissions: they rest on FiniteSums, and come last.                    *)
(***************************************************************************)
EXTENDS StrategyRunner, FiniteSums, FiniteSetTheorems, TLAPS

(***************************************************************************)
(* The arguments share one fact: a permission is taken once in a pass.     *)
(* Whatever still leads to a desired position of p is a row the pass has   *)
(* not taken or the target it has proved, and never both.                  *)
(***************************************************************************)
ProvedFor(p) == job.step = "proved" /\ job.permission = p
Pending(p) ==
    \/ ProvedFor(p)
    \/ \E c \in candidates : c.permission = p /\ ~c.frozen

TakenOnce ==
    /\ \A c, d \in candidates : c.permission = d.permission => c = d
    /\ job # NoJob => \A c \in candidates : c.permission # job.permission

\* Between passes nothing is under way.
IdleBetweenPasses == ~running => candidates = {} /\ job = NoJob

\* One late desired position is the last that was pending.
LateIsSpent ==
    \A p \in Permissions :
        late[p] # 0 => late[p] = 1 /\ permission[p].frozen /\ ~Pending(p)

KillIsSpent ==
    afterKill # 0 => afterKill = 1 /\ kill /\ job.step # "proved"

\* A strategy that is off is loaded no more.
Loaded(p) == ProvedFor(p) \/ \E c \in candidates : c.permission = p

OffIsSpent ==
    \A p \in Permissions :
        afterOff[p] # 0 =>
            /\ afterOff[p] = 1
            /\ IsOff(stage[StrategyOf[p]])
            /\ ~Loaded(p)

\* What the pass has loaded is still the last desired position.
LatestIsCurrent ==
    /\ \A c \in candidates : c.latest = LatestOf(c.permission)
    /\ \A p \in Permissions : ProvedFor(p) => job.target # LatestOf(p)

\* Reconciliations are of desired positions that were written.
ReconciledWasWritten ==
    /\ \A p \in Permissions : reconciled[p] \subseteq 1..Len(desired[p])
    /\ job.step = "written" =>
          /\ desired[job.permission] # <<>>
          /\ job.target = LatestOf(job.permission)

\* The strategy's own cap, on what is held and on what was proved.
WithinStrategyCap ==
    /\ \A p \in Permissions : Notional(p) <= StrategyCap
    /\ job # NoJob => job.target <= StrategyCap

Inv ==
    /\ TypeOK
    /\ TakenOnce
    /\ IdleBetweenPasses
    /\ LateIsSpent
    /\ KillIsSpent
    /\ OffIsSpent
    /\ LatestIsCurrent
    /\ EmissionIsNews
    /\ ReconciledWasWritten
    /\ SleeveFollowsDesired
    /\ WithinStrategyCap

LEMMA Amounts == /\ Weights \subseteq Nat \ {0}
                 /\ Quantities \subseteq Nat \ {0}
                 /\ StrategyCap \in Nat
                 /\ MaxDesired \in Nat
                 /\ MaxChanges \in Nat
                 /\ MaxDeaths \in Nat
                 /\ MaxManual \in Nat
                 /\ Targets \subseteq Nat
                 /\ None \notin Permissions \union Nat
                 /\ SymbolOf \in [Permissions -> Symbols]
                 /\ StrategyOf \in [Permissions -> Strategies]
BY AmountAssumption, BoundAssumption, PermissionAssumption DEF Targets

\* Subtraction that stops at zero.
LEMMA MinusNat == ASSUME NEW a \in Nat, NEW b \in Nat PROVE Minus(a, b) \in Nat
BY DEF Minus

\* A job that is under way has a permission and a target.
LEMMA JobParts ==
    ASSUME TypeOK, job.step = "proved" \/ job.step = "written"
    PROVE  /\ job \in Jobs
           /\ job.permission \in Permissions
           /\ job.target \in Targets
           /\ job # NoJob
BY DEF TypeOK, Jobs, NoJob

LEMMA InitInv == Init => Inv
<1> SUFFICES ASSUME Init PROVE Inv
  OBVIOUS
<1>1. TypeOK
  <2>1. /\ permission \in [Permissions -> PermissionRows]
        /\ sleeve \in [Permissions -> Sleeves]
    BY DEF Init, PermissionRows, Sleeves, Targets
  <2>2. /\ desired \in [Permissions -> Seq(Targets)]
        /\ reconciled \in [Permissions -> SUBSET (Nat \ {0})]
    BY DEF Init
  <2>3. /\ position \in [Symbols -> Nat]
        /\ manual \in [Symbols -> [taken : Nat, added : Nat]]
        /\ late \in [Permissions -> Nat]
        /\ afterOff \in [Permissions -> Nat]
        /\ stage \in [Strategies -> Stages]
    BY DEF Init, Stages
  <2>4. /\ fills \in 0..MaxManual /\ changes \in 0..MaxChanges
        /\ deaths \in 0..MaxDeaths
    BY Amounts DEF Init
  <2> QED
    BY <2>1, <2>2, <2>3, <2>4 DEF Init, TypeOK
<1>2. job = NoJob /\ candidates = {} /\ job.step = "none"
  BY DEF Init, NoJob
<1>3. \A p \in Permissions : Notional(p) = 0
  BY DEF Init, Notional, Larger
<1> QED
  BY <1>1, <1>2, <1>3, Amounts
  DEF Init, Inv, TakenOnce, IdleBetweenPasses, LateIsSpent, KillIsSpent,
      OffIsSpent, LatestIsCurrent, EmissionIsNews, ReconciledWasWritten,
      SleeveFollowsDesired, WithinStrategyCap, ProvedFor
(***************************************************************************)
(* The steps of a pass                                                     *)
(***************************************************************************)
LEMMA BeginPassInv == Inv /\ BeginPass => Inv'
<1> SUFFICES ASSUME Inv, BeginPass PROVE Inv'
  OBVIOUS
<1> USE DEF Inv, BeginPass, operator, books, counters
<1>1. job = NoJob /\ job.step = "none"
  BY DEF IdleBetweenPasses, NoJob
<1>2. \A c \in CandidateRows :
         /\ c \in Candidates
         /\ c.frozen = permission[c.permission].frozen
         /\ c.latest = LatestOf(c.permission)
  BY DEF CandidateRows, Candidates, TypeOK, PermissionRows, LatestOf
<1>3. TypeOK'
  BY <1>2 DEF TypeOK
<1>4. TakenOnce'
  BY <1>1 DEF TakenOnce, CandidateRows
<1>5. LateIsSpent'
  BY <1>1, <1>2 DEF LateIsSpent, Pending, ProvedFor
<1>6. LatestIsCurrent'
  BY <1>1, <1>2 DEF LatestIsCurrent, ProvedFor, LatestOf
<1>7. OffIsSpent'
  <2>1. \A c \in CandidateRows :
           /\ c.permission \in Permissions
           /\ stage[StrategyOf[c.permission]] = "shadow"
    BY DEF CandidateRows
  <2>2. ~IsOff("shadow")
    BY DEF IsOff, Off
  <2> QED
    BY <1>1, <2>1, <2>2 DEF OffIsSpent, Loaded, ProvedFor
<1> QED
  BY <1>1, <1>3, <1>4, <1>5, <1>6, <1>7
  DEF IdleBetweenPasses, KillIsSpent, EmissionIsNews, ReconciledWasWritten,
      SleeveFollowsDesired, WithinStrategyCap, LatestOf, Notional

LEMMA SkipInv == Inv /\ (\E c \in candidates : Skip(c)) => Inv'
<1> SUFFICES ASSUME Inv, NEW c \in candidates, Skip(c) PROVE Inv'
  OBVIOUS
<1> USE DEF Inv, Skip, operator, books, counters
<1>1. TypeOK'
  BY DEF TypeOK
<1>2. LateIsSpent'
  BY DEF LateIsSpent, Pending, ProvedFor
<1>3. LatestIsCurrent'
  BY DEF LatestIsCurrent, ProvedFor, LatestOf
<1>4. OffIsSpent'
  BY DEF OffIsSpent, Loaded, ProvedFor
<1> QED
  BY <1>1, <1>2, <1>3, <1>4
  DEF TakenOnce, IdleBetweenPasses, KillIsSpent, EmissionIsNews,
      ReconciledWasWritten, SleeveFollowsDesired, WithinStrategyCap, LatestOf,
      Notional

LEMMA EvaluateInv ==
    Inv /\ (\E c \in candidates, t \in Targets : Evaluate(c, t)) => Inv'
<1> SUFFICES ASSUME Inv, NEW c \in candidates, NEW t \in Targets,
                    Evaluate(c, t)
             PROVE  Inv'
  OBVIOUS
<1> USE DEF Inv, Evaluate, operator, books, counters
<1> DEFINE p == c.permission
<1>1. c \in Candidates /\ p \in Permissions
  BY DEF TypeOK, Candidates
<1>2. /\ job' \in Jobs /\ job'.permission = p /\ job'.target = t
      /\ job'.step = "proved" /\ job' # NoJob
  BY <1>1 DEF Jobs, NoJob
<1>3. TypeOK'
  BY <1>2 DEF TypeOK
<1>4. TakenOnce'
  BY <1>2 DEF TakenOnce
<1>5. IdleBetweenPasses'
  BY DEF IdleBetweenPasses
<1>6. LateIsSpent'
  <2>1. Pending(p)
    BY DEF Pending, PolicyAllows
  <2>2. \A q \in Permissions : Pending(q)' => Pending(q)
    BY <1>2, <2>1 DEF Pending, ProvedFor
  <2> QED
    BY <2>2 DEF LateIsSpent
<1>7. KillIsSpent'
  BY DEF KillIsSpent, PolicyAllows
<1>8. LatestIsCurrent'
  BY <1>2 DEF LatestIsCurrent, ProvedFor, LatestOf, AsksFor
<1>9. WithinStrategyCap'
  <2>1. Notional(p) \in Nat /\ Notional(p) <= StrategyCap
    BY <1>1, Amounts DEF WithinStrategyCap, Notional, Larger, TypeOK, Sleeves
  <2>2. t <= StrategyCap
    BY <2>1, Amounts DEF PolicyAllows, AllocationAllowed, CapExceeded
  <2>3. \A q \in Permissions : Notional(q)' = Notional(q)
    BY DEF Notional
  <2> QED
    BY <1>2, <2>2, <2>3 DEF WithinStrategyCap
<1>10. ReconciledWasWritten'
  BY <1>2 DEF ReconciledWasWritten
<1>11. OffIsSpent'
  <2>1. Loaded(p)
    BY DEF Loaded
  <2>2. \A q \in Permissions : Loaded(q)' => Loaded(q)
    BY <1>2, <2>1 DEF Loaded, ProvedFor
  <2> QED
    BY <2>2 DEF OffIsSpent
<1> QED
  BY <1>3, <1>4, <1>5, <1>6, <1>7, <1>8, <1>9, <1>10, <1>11
  DEF EmissionIsNews, SleeveFollowsDesired, LatestOf

LEMMA EmitDesiredInv == Inv /\ EmitDesired => Inv'
<1> SUFFICES ASSUME Inv, EmitDesired PROVE Inv'
  OBVIOUS
<1> USE DEF Inv
<1>j. job.permission \in Permissions /\ job.target \in Targets
  BY JobParts DEF EmitDesired
<1>0. PICK p \in Permissions, t \in Targets :
          job.permission = p /\ job.target = t
  BY <1>j
<1>1. /\ job \in Jobs /\ job.permission = p /\ job.target = t
      /\ t \in Nat /\ job # NoJob /\ job.step = "proved"
  BY <1>0, JobParts, Amounts DEF EmitDesired
<1>2. /\ job' \in Jobs /\ job'.permission = p /\ job'.target = t
      /\ job'.step = "written"
  BY <1>1 DEF EmitDesired, Jobs
<1>3. /\ desired[p] \in Seq(Targets)
      /\ desired'[p] = Append(desired[p], t)
      /\ Len(desired'[p]) = Len(desired[p]) + 1
      /\ desired'[p] \in Seq(Targets)
      /\ desired'[p][Len(desired'[p])] = t
      /\ desired'[p] # <<>>
      /\ \A q \in Permissions \ {p} : desired'[q] = desired[q]
  <2>1. desired \in [Permissions -> Seq(Targets)]
    BY DEF TypeOK
  <2>2. desired' = [desired EXCEPT ![p] = Append(@, t)]
    BY <1>1 DEF EmitDesired
  <2>3. desired[p] \in Seq(Targets)
    BY <2>1
  <2>4. /\ desired'[p] = Append(desired[p], t)
        /\ \A q \in Permissions \ {p} : desired'[q] = desired[q]
    BY <2>1, <2>2
  <2> QED
    BY <2>3, <2>4
<1>4. /\ LatestOf(p)' = t
      /\ \A q \in Permissions \ {p} : LatestOf(q)' = LatestOf(q)
  BY <1>3 DEF LatestOf
<1>5. /\ sleeve' \in [Permissions -> Sleeves]
      /\ sleeve'[p].allocated = t
      /\ sleeve'[p].notional = sleeve[p].notional
      /\ \A q \in Permissions \ {p} : sleeve'[q] = sleeve[q]
  BY <1>1 DEF EmitDesired, TypeOK, Sleeves
<1>6. /\ late[p] = 0
      /\ late'[p] = IF permission[p].frozen THEN 1 ELSE 0
      /\ \A q \in Permissions \ {p} : late'[q] = late[q]
  BY <1>1 DEF EmitDesired, TypeOK, LateIsSpent, Pending, ProvedFor
<1>7. /\ afterKill = 0
      /\ afterKill' = IF kill THEN 1 ELSE 0
  BY <1>1 DEF EmitDesired, KillIsSpent
<1>18. /\ afterOff[p] = 0
       /\ afterOff' \in [Permissions -> Nat]
       /\ afterOff'[p] = IF IsOff(stage[StrategyOf[p]]) THEN 1 ELSE 0
       /\ \A q \in Permissions \ {p} : afterOff'[q] = afterOff[q]
  <2>1. afterOff \in [Permissions -> Nat]
    BY DEF TypeOK
  <2>2. afterOff[p] = 0
    BY <1>1 DEF OffIsSpent, Loaded, ProvedFor
  <2>3. afterOff' = [afterOff EXCEPT ![p] =
                        IF IsOff(stage[StrategyOf[p]]) THEN @ + 1 ELSE @]
    BY <1>1 DEF EmitDesired
  <2> QED
    BY <2>1, <2>2, <2>3
<1>8. TypeOK'
  <2>1. desired' \in [Permissions -> Seq(Targets)]
    BY <1>1, <1>3 DEF EmitDesired, TypeOK
  <2>2. late' \in [Permissions -> Nat]
    <3>1. late \in [Permissions -> Nat]
      BY DEF TypeOK
    <3>2. late' = [late EXCEPT ![p] = IF permission[p].frozen
                                      THEN @ + 1 ELSE @]
      BY <1>1 DEF EmitDesired
    <3> QED
      BY <3>1, <3>2
  <2> QED
    BY <1>2, <1>5, <1>7, <1>18, <2>1, <2>2 DEF EmitDesired, TypeOK, operator
<1>9. TakenOnce'
  BY <1>1, <1>2 DEF EmitDesired, TakenOnce
<1>10. IdleBetweenPasses'
  BY <1>1 DEF EmitDesired, IdleBetweenPasses
<1>11. LateIsSpent'
  <2>1. ~Pending(p)'
    BY <1>1, <1>2 DEF Pending, ProvedFor, EmitDesired, TakenOnce
  <2>2. \A q \in Permissions : Pending(q)' => Pending(q)
    BY <1>2 DEF Pending, ProvedFor, EmitDesired
  <2> QED
    BY <1>6, <2>1, <2>2 DEF LateIsSpent, EmitDesired, operator
<1>12. KillIsSpent'
  BY <1>2, <1>7 DEF KillIsSpent, EmitDesired, operator
<1>13. LatestIsCurrent'
  <2>1. \A c \in candidates : c.permission \in Permissions \ {p}
    BY <1>1 DEF TakenOnce, TypeOK, Candidates
  <2> QED
    BY <1>2, <1>4, <2>1 DEF LatestIsCurrent, ProvedFor, EmitDesired
<1>14. EmissionIsNews'
  <2>1. desired[p] # <<>> => desired[p][Len(desired[p])] # t
    BY <1>1 DEF LatestIsCurrent, ProvedFor, LatestOf
  <2>2. ASSUME NEW i \in 1..(Len(desired'[p]) - 1)
        PROVE  desired'[p][i] # desired'[p][i + 1]
    <3>1. CASE i = Len(desired[p])
      BY <1>3, <2>1, <3>1
    <3>2. CASE i # Len(desired[p])
      <4>1. i \in 1..(Len(desired[p]) - 1)
        BY <1>3, <3>2
      <4>2. desired'[p][i] = desired[p][i] /\ desired'[p][i+1] = desired[p][i+1]
        BY <1>3, <4>1
      <4> QED
        BY <1>1, <4>1, <4>2 DEF EmissionIsNews
    <3> QED
      BY <3>1, <3>2
  <2> QED
    BY <1>3, <2>2 DEF EmissionIsNews
<1>15. ReconciledWasWritten'
  BY <1>1, <1>2, <1>3, <1>4
  DEF ReconciledWasWritten, EmitDesired, TypeOK
<1>16. SleeveFollowsDesired'
  <2>1. Len(desired'[p]) \notin reconciled[p]
    BY <1>1, <1>3 DEF ReconciledWasWritten
  <2> QED
    BY <1>3, <1>4, <1>5, <2>1 DEF SleeveFollowsDesired, EmitDesired
<1>17. WithinStrategyCap'
  <2>1. t <= StrategyCap
    BY <1>1 DEF WithinStrategyCap
  <2>2. sleeve[p].notional \in Nat /\ sleeve[p].allocated \in Nat
    BY <1>1, Amounts DEF TypeOK, Sleeves
  <2>3. sleeve[p].notional <= StrategyCap
    BY <1>1, <2>2, Amounts DEF WithinStrategyCap, Notional, Larger
  <2>4. Notional(p)' <= StrategyCap
    BY <1>5, <2>1, <2>3 DEF Notional, Larger
  <2>5. \A q \in Permissions \ {p} : Notional(q)' = Notional(q)
    BY <1>5 DEF Notional
  <2> QED
    BY <1>2, <2>1, <2>4, <2>5 DEF WithinStrategyCap
<1>19. OffIsSpent'
  <2>1. ~Loaded(p)'
    BY <1>1, <1>2 DEF Loaded, ProvedFor, EmitDesired, TakenOnce
  <2>2. \A q \in Permissions : Loaded(q)' => Loaded(q)
    BY <1>2 DEF Loaded, ProvedFor, EmitDesired
  <2> QED
    BY <1>18, <2>1, <2>2 DEF OffIsSpent, EmitDesired, operator
<1> QED
  BY <1>8, <1>9, <1>10, <1>11, <1>12, <1>13, <1>14, <1>15, <1>16, <1>17,
     <1>19

LEMMA ReconcileInv == Inv /\ (\E q \in Quantities : Reconcile(q)) => Inv'
<1> SUFFICES ASSUME Inv, NEW bought \in Quantities, Reconcile(bought)
             PROVE  Inv'
  OBVIOUS
<1> USE DEF Inv
<1>j. job.permission \in Permissions /\ job.target \in Targets
  BY JobParts DEF Reconcile
<1>0. PICK p \in Permissions, t \in Targets :
          job.permission = p /\ job.target = t
  BY <1>j
<1> DEFINE s == SymbolOf[p]
           wanted == Wanted(t, bought)
<1>1. /\ job.permission = p /\ job.target = t /\ t \in Nat
      /\ job # NoJob /\ job.step = "written" /\ s \in Symbols
  BY <1>0, JobParts, Amounts DEF Reconcile
<1>2. job' = NoJob /\ job'.step = "none"
  BY DEF Reconcile, NoJob
<1>3. wanted \in Nat /\ (wanted = 0 <=> t = 0)
  BY <1>1, Amounts DEF Wanted
<1>4. /\ sleeve' \in [Permissions -> Sleeves]
      /\ sleeve'[p].allocated = sleeve[p].allocated
      /\ sleeve'[p].notional = t
      /\ sleeve'[p].quantity = wanted
      /\ \A q \in Permissions \ {p} : sleeve'[q] = sleeve[q]
  BY <1>1, <1>3 DEF Reconcile, TypeOK, Sleeves
<1>5. position' \in [Symbols -> Nat]
  <2>1. sleeve[p].quantity \in Nat /\ position[s] \in Nat
    BY <1>1 DEF TypeOK, Sleeves
  <2>2. Filled(position[s], sleeve[p].quantity, wanted) \in Nat
    BY <1>3, <2>1 DEF Filled, Minus
  <2> QED
    BY <1>1, <2>2 DEF Reconcile, TypeOK
<1>6. /\ Len(desired[p]) \in 1..Len(desired[p])
      /\ t = LatestOf(p)
  BY <1>1 DEF ReconciledWasWritten, TypeOK
<1>7. /\ reconciled'[p] = reconciled[p] \union {Len(desired[p])}
      /\ \A q \in Permissions \ {p} : reconciled'[q] = reconciled[q]
      /\ reconciled' \in [Permissions -> SUBSET (Nat \ {0})]
  BY <1>1, <1>6 DEF Reconcile, TypeOK
<1>8. desired' = desired /\ \A q \in Permissions : LatestOf(q)' = LatestOf(q)
  BY DEF Reconcile, LatestOf
<1>9. TypeOK'
  BY <1>2, <1>4, <1>5, <1>7
  DEF Reconcile, TypeOK, operator, counters
<1>10. TakenOnce' /\ IdleBetweenPasses'
  BY <1>2 DEF Reconcile, TakenOnce, IdleBetweenPasses
<1>11. LateIsSpent' /\ KillIsSpent' /\ OffIsSpent'
  BY <1>2
  DEF Reconcile, LateIsSpent, KillIsSpent, OffIsSpent, Pending, Loaded,
      ProvedFor, operator, counters
<1>12. LatestIsCurrent'
  BY <1>2, <1>8 DEF Reconcile, LatestIsCurrent, ProvedFor, TypeOK, Candidates
<1>13. EmissionIsNews'
  BY <1>8 DEF EmissionIsNews
<1>14. ReconciledWasWritten'
  BY <1>2, <1>6, <1>7, <1>8 DEF ReconciledWasWritten
<1>15. SleeveFollowsDesired'
  BY <1>1, <1>3, <1>4, <1>6, <1>7, <1>8 DEF SleeveFollowsDesired
<1>16. WithinStrategyCap'
  <2>1. sleeve[p].allocated \in Nat /\ sleeve[p].notional \in Nat
    BY <1>1, Amounts DEF TypeOK, Sleeves
  <2>2. sleeve[p].allocated <= StrategyCap /\ t <= StrategyCap
    BY <1>1, <2>1, Amounts DEF WithinStrategyCap, Notional, Larger
  <2>3. Notional(p)' <= StrategyCap
    BY <1>4, <2>2 DEF Notional, Larger
  <2>4. \A q \in Permissions \ {p} : Notional(q)' = Notional(q)
    BY <1>4 DEF Notional
  <2> QED
    BY <1>2, <2>3, <2>4 DEF WithinStrategyCap
<1> QED
  BY <1>9, <1>10, <1>11, <1>12, <1>13, <1>14, <1>15, <1>16

\* A pass ends when it is through, or dies at any step.
LEMMA EndPassInv == Inv /\ (EndPass \/ PassDies) => Inv'
<1> SUFFICES ASSUME Inv, EndPass \/ PassDies PROVE Inv'
  OBVIOUS
<1> USE DEF Inv, EndPass, PassDies, operator, books, counters
<1>1. candidates' = {} /\ job' = NoJob /\ job'.step = "none"
  BY DEF NoJob
<1>2. TypeOK'
  <2>0. deaths \in 0..MaxDeaths
    BY DEF TypeOK
  <2>1. deaths' = deaths \/ (deaths < MaxDeaths /\ deaths' = deaths + 1)
    <3>1. EndPass => deaths' = deaths
      OBVIOUS
    <3>2. PassDies => deaths < MaxDeaths /\ deaths' = deaths + 1
      OBVIOUS
    <3> QED
      BY <3>1, <3>2
  <2>2. deaths' \in 0..MaxDeaths
    BY <2>0, <2>1, Amounts
  <2>3. running' = FALSE
    OBVIOUS
  <2> QED
    BY <1>1, <2>2, <2>3 DEF TypeOK
<1>3. LateIsSpent' /\ KillIsSpent' /\ OffIsSpent'
  BY <1>1 DEF LateIsSpent, KillIsSpent, OffIsSpent, Pending, Loaded, ProvedFor
<1>4. \A q \in Permissions : LatestOf(q)' = LatestOf(q)
  BY DEF LatestOf
<1>5. WithinStrategyCap'
  BY <1>1 DEF WithinStrategyCap, Notional
<1> QED
  BY <1>1, <1>2, <1>3, <1>4, <1>5
  DEF TakenOnce, IdleBetweenPasses, LatestIsCurrent, EmissionIsNews,
      ReconciledWasWritten, SleeveFollowsDesired, ProvedFor
(***************************************************************************)
(* What happens beside the pass                                            *)
(***************************************************************************)

\* The part of the invariant that speaks only of the pass, the desired
\* positions and the sleeves.
LEMMA PassFrame ==
    ASSUME Inv, UNCHANGED <<runner, desired, reconciled, sleeve>>
    PROVE  /\ TakenOnce' /\ IdleBetweenPasses' /\ LatestIsCurrent'
           /\ EmissionIsNews' /\ ReconciledWasWritten'
           /\ SleeveFollowsDesired' /\ WithinStrategyCap'
           /\ \A p \in Permissions : /\ Pending(p)' = Pending(p)
                                     /\ Loaded(p)' = Loaded(p)
<1> USE DEF Inv, runner
<1>1. TakenOnce' /\ IdleBetweenPasses'
  BY DEF TakenOnce, IdleBetweenPasses
<1>2. LatestIsCurrent' /\ ReconciledWasWritten'
  BY DEF LatestIsCurrent, ReconciledWasWritten, ProvedFor, LatestOf
<1>3. EmissionIsNews' /\ SleeveFollowsDesired'
  BY DEF EmissionIsNews, SleeveFollowsDesired, LatestOf
<1>4. WithinStrategyCap'
  BY DEF WithinStrategyCap, Notional
<1>5. \A p \in Permissions : /\ Pending(p)' = Pending(p)
                             /\ Loaded(p)' = Loaded(p)
  BY DEF Pending, Loaded, ProvedFor
<1> QED
  BY <1>1, <1>2, <1>3, <1>4, <1>5

LEMMA OperatorInv ==
    /\ Inv
    /\ \/ SetKill
       \/ \E p \in Permissions :
             Freeze(p) \/ Expire(p) \/ \E w \in Weights : Approve(p, w)
       \/ \E s \in Strategies, to \in Stages :
             ChangeStage(s, to)
    => Inv'
<1> SUFFICES ASSUME Inv,
                    \/ SetKill
                    \/ \E p \in Permissions :
                          \/ Freeze(p) \/ Expire(p)
                          \/ \E w \in Weights : Approve(p, w)
                    \/ \E s \in Strategies, to \in Stages :
                          ChangeStage(s, to)
             PROVE  Inv'
  OBVIOUS
<1> USE DEF Inv, Changes, runner, books, counters
<1>1. CASE SetKill
  <2>1. TypeOK'
    BY <1>1, Amounts DEF SetKill, TypeOK
  <2>2. LateIsSpent' /\ KillIsSpent' /\ OffIsSpent'
    BY <1>1, PassFrame DEF SetKill, LateIsSpent, KillIsSpent, OffIsSpent
  <2> QED
    BY <1>1, <2>1, <2>2, PassFrame DEF SetKill
<1>2. CASE \E p \in Permissions : Freeze(p)
  <2>1. PICK p \in Permissions : Freeze(p)
    BY <1>2
  <2>2. TypeOK'
    <3>1. permission \in [Permissions -> PermissionRows]
      BY DEF TypeOK
    <3>2. permission' = [permission EXCEPT ![p].frozen = TRUE]
      BY <2>1 DEF Freeze
    <3>3. permission' \in [Permissions -> PermissionRows]
      BY <3>1, <3>2 DEF PermissionRows
    <3>4. changes' \in 0..MaxChanges
      BY <2>1, Amounts DEF Freeze, TypeOK
    <3> QED
      BY <2>1, <3>3, <3>4 DEF Freeze, TypeOK
  <2>3. LateIsSpent' /\ KillIsSpent' /\ OffIsSpent'
    BY <2>1, PassFrame
    DEF Freeze, LateIsSpent, KillIsSpent, OffIsSpent, TypeOK
  <2> QED
    BY <2>1, <2>2, <2>3, PassFrame DEF Freeze
<1>3. CASE \E p \in Permissions : Expire(p)
  <2>1. PICK p \in Permissions : Expire(p)
    BY <1>3
  <2>2. TypeOK'
    <3>1. permission \in [Permissions -> PermissionRows]
      BY DEF TypeOK
    <3>2. permission' = [permission EXCEPT ![p].expired = TRUE]
      BY <2>1 DEF Expire
    <3>3. permission' \in [Permissions -> PermissionRows]
      BY <3>1, <3>2 DEF PermissionRows
    <3>4. changes' \in 0..MaxChanges
      BY <2>1, Amounts DEF Expire, TypeOK
    <3> QED
      BY <2>1, <3>3, <3>4 DEF Expire, TypeOK
  <2>3. LateIsSpent' /\ KillIsSpent' /\ OffIsSpent'
    BY <2>1, PassFrame
    DEF Expire, LateIsSpent, KillIsSpent, OffIsSpent, TypeOK, PermissionRows
  <2> QED
    BY <2>1, <2>2, <2>3, PassFrame DEF Expire
<1>4. CASE \E p \in Permissions, w \in Weights : Approve(p, w)
  <2>1. PICK p \in Permissions, w \in Weights : Approve(p, w)
    BY <1>4
  <2>2. TypeOK'
    <3>1. permission \in [Permissions -> PermissionRows]
      BY DEF TypeOK
    <3>2. permission' = [permission EXCEPT ![p] =
              [@ EXCEPT !.approved = TRUE, !.frozen = FALSE, !.weight = w]]
      BY <2>1 DEF Approve
    <3>3. permission' \in [Permissions -> PermissionRows]
      BY <3>1, <3>2 DEF PermissionRows, Targets
    <3>4. changes' \in 0..MaxChanges
      <4>1. changes \in 0..MaxChanges
        BY DEF TypeOK
      <4>2. changes < MaxChanges /\ changes' = changes + 1
        BY <2>1 DEF Approve
      <4> QED
        BY <4>1, <4>2, Amounts
    <3>5. late' \in [Permissions -> Nat]
      BY <2>1 DEF Approve, TypeOK
    <3> QED
      BY <2>1, <3>3, <3>4, <3>5 DEF Approve, TypeOK
  <2>3. LateIsSpent' /\ KillIsSpent' /\ OffIsSpent'
    BY <2>1, PassFrame
    DEF Approve, LateIsSpent, KillIsSpent, OffIsSpent, TypeOK
  <2> QED
    BY <2>1, <2>2, <2>3, PassFrame DEF Approve
<1>5. CASE \E s \in Strategies, to \in Stages :
              ChangeStage(s, to)
  <2>1. PICK s \in Strategies, to \in Stages :
            ChangeStage(s, to)
    BY <1>5
  <2>2. TypeOK'
    BY <2>1, Amounts DEF ChangeStage, TypeOK
  <2>3. LateIsSpent' /\ KillIsSpent'
    BY <2>1, PassFrame DEF ChangeStage, LateIsSpent, KillIsSpent
  <2>4. OffIsSpent'
    <3>1. stage \in [Strategies -> Stages]
      BY DEF TypeOK
    <3>2. Off \cap DOMAIN Rank = {}
      BY DEF Off, Rank
    <3>3. \A r \in Strategies : IsOff(stage[r]) => IsOff(stage'[r])
      BY <2>1, <3>1, <3>2 DEF ChangeStage, IsOff, Off
    <3>4. afterOff' = afterOff /\ \A p \in Permissions : StrategyOf[p] \in Strategies
      BY <2>1, Amounts DEF ChangeStage
    <3> QED
      BY <2>1, <3>3, <3>4, PassFrame DEF ChangeStage, OffIsSpent
  <2> QED
    BY <2>1, <2>2, <2>3, <2>4, PassFrame DEF ChangeStage
<1> QED
  BY <1>1, <1>2, <1>3, <1>4, <1>5

LEMMA ManualInv ==
    /\ Inv
    /\ \E s \in Symbols :
          ManualExit(s) \/ \E q \in Quantities : ManualResize(s, q)
    => Inv'
<1> SUFFICES ASSUME Inv, NEW s \in Symbols,
                    ManualExit(s) \/ \E q \in Quantities : ManualResize(s, q)
             PROVE  Inv'
  OBVIOUS
<1> USE DEF Inv, operator, runner, counters
<1>1. UNCHANGED <<operator, runner, desired, reconciled, sleeve, counters>>
  BY DEF ManualExit, ManualResize
<1>2. position \in [Symbols -> Nat] /\ position[s] \in Nat
  BY DEF TypeOK
<1>3. /\ manual \in [Symbols -> [taken : Nat, added : Nat]]
      /\ manual[s].taken \in Nat /\ manual[s].added \in Nat
  BY DEF TypeOK
<1>4. position' \in [Symbols -> Nat]
  BY <1>2, Amounts DEF ManualExit, ManualResize
<1>5. manual' \in [Symbols -> [taken : Nat, added : Nat]]
  <2>1. CASE ManualExit(s)
    <3>1. manual' = [manual EXCEPT ![s].taken = @ + position[s]]
      BY <2>1 DEF ManualExit
    <3> QED
      BY <1>2, <1>3, <3>1
  <2>2. CASE \E q \in Quantities : ManualResize(s, q)
    <3>1. PICK q \in Quantities :
              manual' = [manual EXCEPT ![s].added = @ + q]
      BY <2>2 DEF ManualResize
    <3>2. q \in Nat
      BY Amounts
    <3> QED
      BY <1>3, <3>1, <3>2
  <2> QED
    BY <2>1, <2>2
<1>6. fills' \in 0..MaxManual
  BY Amounts DEF TypeOK, ManualExit, ManualResize
<1>7. TypeOK'
  BY <1>1, <1>4, <1>5, <1>6 DEF TypeOK
<1>8. LateIsSpent' /\ KillIsSpent' /\ OffIsSpent'
  BY <1>1, PassFrame DEF LateIsSpent, KillIsSpent, OffIsSpent
<1> QED
  BY <1>1, <1>7, <1>8, PassFrame

LEMMA InvStep == Inv /\ [Next]_vars => Inv'
<1> SUFFICES ASSUME Inv, [Next]_vars PROVE Inv'
  OBVIOUS
<1>1. CASE Pass
  BY <1>1, BeginPassInv, SkipInv, EvaluateInv, EmitDesiredInv, ReconcileInv,
     EndPassInv
  DEF Pass
<1>2. CASE PassDies
  BY <1>2, EndPassInv
<1>3. CASE \/ SetKill
           \/ \E p \in Permissions :
                 Freeze(p) \/ Expire(p) \/ \E w \in Weights : Approve(p, w)
           \/ \E s \in Strategies, to \in Stages :
                 ChangeStage(s, to)
  BY <1>3, OperatorInv
<1>4. CASE \E s \in Symbols :
              ManualExit(s) \/ \E q \in Quantities : ManualResize(s, q)
  BY <1>4, ManualInv
<1>5. CASE UNCHANGED vars
  <2>1. UNCHANGED <<operator, runner, desired, books, counters>>
    BY <1>5 DEF vars
  <2>2. TypeOK'
    BY <2>1 DEF Inv, TypeOK, operator, runner, books, counters
  <2>3. LateIsSpent' /\ KillIsSpent' /\ OffIsSpent'
    BY <2>1, PassFrame
    DEF Inv, LateIsSpent, KillIsSpent, OffIsSpent, operator, runner, books,
        counters
  <2> QED
    BY <2>1, <2>2, <2>3, PassFrame DEF Inv, books
<1> QED
  BY <1>1, <1>2, <1>3, <1>4, <1>5 DEF Next
-----------------------------------------------------------------------------
\* The inductive invariant holds in every behaviour.
THEOREM InvHolds == Spec => []Inv
<1>1. Init => Inv
  BY InitInv
<1>2. Inv /\ [Next]_vars => Inv'
  BY InvStep
<1> QED
  BY <1>1, <1>2, PTL DEF Spec

\* Every variable has its type: rows, candidates and jobs are of permissions,
\* quantities and notionals are never negative.
THEOREM TypeCorrect == Spec => []TypeOK
<1>1. Inv => TypeOK
  BY DEF Inv
<1> QED
  BY <1>1, InvHolds, PTL

LEMMA InvSwitches == Inv => SwitchesLetOneThrough
<1>1. Inv => KillLetsOneThrough
  BY DEF Inv, KillIsSpent, KillLetsOneThrough
<1>2. Inv => FreezeLetsOneThrough
  BY DEF Inv, LateIsSpent, FreezeLetsOneThrough
<1>3. Inv => OffLetsOneThrough
  <2>1. ASSUME Inv, NEW p \in Permissions PROVE afterOff[p] <= 1
    <3>1. afterOff[p] = 0 \/ afterOff[p] = 1
      BY <2>1 DEF Inv, OffIsSpent
    <3> QED
      BY <3>1
  <2> QED
    BY <2>1 DEF OffLetsOneThrough
<1> QED
  BY <1>1, <1>2, <1>3 DEF SwitchesLetOneThrough

\* Once the kill switch is set, at most one desired position follows: only the
\* target the pass had proved before.  Once a permission is frozen, at most one
\* follows for it: the pass had loaded or proved it before, and takes it once.
\* So it is, for good, once its strategy is frozen or retired.
THEOREM SwitchesHold == Spec => []SwitchesLetOneThrough
BY InvSwitches, InvHolds, PTL

\* Consecutive desired positions of a permission differ, however stale the
\* row the pass compares with.
THEOREM OnlyNewsIsEmitted == Spec => []EmissionIsNews
<1>1. Inv => EmissionIsNews
  BY DEF Inv
<1> QED
  BY <1>1, InvHolds, PTL

\* A sleeve is allocated the last target written and, once that is
\* reconciled, holds it, whatever passes died before.
THEOREM SleeveIsDesired == Spec => []SleeveFollowsDesired
<1>1. Inv => SleeveFollowsDesired
  BY DEF Inv
<1> QED
  BY <1>1, InvHolds, PTL

\* No sleeve is allocated or holds more than the strategy cap, for any number
\* of sleeves and any caps: a reduction never starts above it.
THEOREM StrategyCapHolds ==
    Spec => [](\A p \in Permissions : Notional(p) <= StrategyCap)
<1>1. Inv => \A p \in Permissions : Notional(p) <= StrategyCap
  BY DEF Inv, WithinStrategyCap
<1> QED
  BY <1>1, InvHolds, PTL
-----------------------------------------------------------------------------
(***************************************************************************)
(* Desired positions that nobody reconciles.  They are counted by a finite *)
(* set that grows by one only when a pass dies with a target written.      *)
(***************************************************************************)
StrandedInv == IsFiniteSet(Stranded) /\ StrandedNeedsDeath

\* A part of a counted set is counted by less.
LEMMA FewerStranded ==
    ASSUME TypeOK, StrandedInv, deaths' = deaths, Stranded' \subseteq Stranded
    PROVE  StrandedInv'
<1>1. /\ IsFiniteSet(Stranded')
      /\ Cardinality(Stranded') <= Cardinality(Stranded)
  BY FS_Subset DEF StrandedInv
<1>2. /\ Cardinality(Stranded') \in Nat
      /\ Cardinality(Stranded) \in Nat
      /\ deaths \in Nat
  BY <1>1, FS_CardinalityType, Amounts DEF StrandedInv, TypeOK
<1> QED
  BY <1>1, <1>2 DEF StrandedInv, StrandedNeedsDeath

\* A step that touches neither targets nor reconciliations, and puts no target
\* out of hand, strands nothing.
LEMMA StillStranded ==
    ASSUME TypeOK, StrandedInv, UNCHANGED <<desired, reconciled, deaths>>,
           job'.step = "written" <=> job.step = "written",
           job.step = "written" => job' = job
    PROVE  StrandedInv'
<1>1. \A p \in Permissions : /\ Unreconciled(p)' = Unreconciled(p)
                             /\ AtHand(p)' = AtHand(p)
  BY DEF Unreconciled, AtHand
<1>2. Stranded' = Stranded
  BY <1>1 DEF Stranded
<1> QED
  BY <1>2, FewerStranded

LEMMA StrandedStep == Inv /\ StrandedInv /\ [Next]_vars => StrandedInv'
<1> SUFFICES ASSUME Inv, StrandedInv, [Next]_vars PROVE StrandedInv'
  OBVIOUS
<1>0. TypeOK /\ deaths \in Nat
  BY Amounts DEF Inv, TypeOK
<1>1. CASE EmitDesired
  <2>1. /\ job.permission \in Permissions
        /\ job.step = "proved"
        /\ job'.step = "written"
        /\ job'.permission = job.permission
        /\ UNCHANGED <<reconciled, deaths>>
    BY <1>0, <1>1, JobParts DEF EmitDesired, Jobs, books
  <2>2. PICK p \in Permissions : p = job.permission
    BY <2>1
  <2>3. /\ Len(desired[p]) \in Nat
        /\ Len(desired'[p]) = Len(desired[p]) + 1
        /\ \A q \in Permissions \ {p} : desired'[q] = desired[q]
    <3>1. desired[p] \in Seq(Targets) /\ job.target \in Targets
      BY <1>0, <2>1, JobParts DEF TypeOK
    <3>2. desired' = [desired EXCEPT ![p] = Append(@, job.target)]
      BY <1>1, <2>2 DEF EmitDesired
    <3> QED
      BY <1>0, <3>1, <3>2 DEF TypeOK
  <2>4. Unreconciled(p)' \ AtHand(p)' \subseteq Unreconciled(p) \ AtHand(p)
    BY <2>1, <2>2, <2>3 DEF Unreconciled, AtHand
  <2>5. \A q \in Permissions \ {p} : /\ Unreconciled(q)' = Unreconciled(q)
                                     /\ AtHand(q)' = AtHand(q)
    BY <2>1, <2>2, <2>3 DEF Unreconciled, AtHand
  <2>6. Stranded' \subseteq Stranded
    BY <2>4, <2>5 DEF Stranded
  <2> QED
    BY <1>0, <2>1, <2>6, FewerStranded
<1>2. ASSUME NEW bought \in Quantities, Reconcile(bought) PROVE StrandedInv'
  <2>1. /\ job.permission \in Permissions
        /\ job.step = "written"
        /\ job' = NoJob
        /\ UNCHANGED <<desired, deaths>>
    BY <1>0, <1>2, JobParts DEF Reconcile, counters
  <2>2. PICK p \in Permissions : p = job.permission
    BY <2>1
  <2>3. /\ reconciled'[p] = reconciled[p] \union {Len(desired[p])}
        /\ \A q \in Permissions \ {p} : reconciled'[q] = reconciled[q]
    BY <1>0, <1>2, <2>2 DEF Reconcile, TypeOK
  <2>4. Unreconciled(p)' \ AtHand(p)' \subseteq Unreconciled(p) \ AtHand(p)
    BY <2>1, <2>2, <2>3 DEF Unreconciled, AtHand
  <2>5. \A q \in Permissions \ {p} :
            /\ Unreconciled(q)' = Unreconciled(q)
            /\ AtHand(q)' = AtHand(q)
    BY <2>1, <2>2, <2>3 DEF Unreconciled, AtHand, NoJob
  <2>6. Stranded' \subseteq Stranded
    BY <2>4, <2>5 DEF Stranded
  <2> QED
    BY <1>0, <2>1, <2>6, FewerStranded
<1>3. CASE PassDies
  <2>1. /\ UNCHANGED <<desired, reconciled>>
        /\ deaths' = deaths + 1
        /\ job' = NoJob
    BY <1>3 DEF PassDies, books
  <2>2. \A p \in Permissions : /\ Unreconciled(p)' = Unreconciled(p)
                               /\ AtHand(p)' = {}
    BY <2>1 DEF Unreconciled, AtHand, NoJob
  <2> DEFINE lost == <<job.permission, Len(desired[job.permission])>>
  <2>3. Stranded' \subseteq Stranded \union {lost}
    BY <2>2 DEF Stranded, AtHand
  <2> HIDE DEF lost
  <2>4. /\ IsFiniteSet(Stranded \union {lost})
        /\ Cardinality(Stranded \union {lost}) <= Cardinality(Stranded) + 1
        /\ Cardinality(Stranded) \in Nat
    BY FS_AddElement, FS_CardinalityType DEF StrandedInv
  <2>5. /\ IsFiniteSet(Stranded')
        /\ Cardinality(Stranded') <= Cardinality(Stranded \union {lost})
    BY <2>3, <2>4, FS_Subset
  <2>6. /\ Cardinality(Stranded') \in Nat
        /\ Cardinality(Stranded \union {lost}) \in Nat
    BY <2>4, <2>5, FS_CardinalityType
  <2>7. Cardinality(Stranded) <= deaths
    BY DEF StrandedInv, StrandedNeedsDeath
  <2>8. Cardinality(Stranded') <= deaths'
    BY <1>0, <2>1, <2>4, <2>5, <2>6, <2>7
  <2> QED
    BY <2>5, <2>8 DEF StrandedInv, StrandedNeedsDeath
<1>4. ASSUME NEW c \in candidates, NEW t \in Targets, Evaluate(c, t)
      PROVE  StrandedInv'
  <2>1. /\ job.step # "written"
        /\ job'.step # "written"
        /\ UNCHANGED <<desired, reconciled, deaths>>
    BY <1>4 DEF Evaluate, NoJob, books, counters
  <2> QED
    BY <1>0, <2>1, StillStranded
<1>5. CASE EndPass
  <2>1. job' = job /\ UNCHANGED <<desired, reconciled, deaths>>
    BY <1>5 DEF EndPass, books, counters
  <2> QED
    BY <1>0, <2>1, StillStranded
<1>6. CASE UNCHANGED <<job, desired, reconciled, deaths>>
  BY <1>0, <1>6, StillStranded
<1> QED
  BY <1>1, <1>2, <1>3, <1>4, <1>5, <1>6
  DEF Next, Pass, BeginPass, Skip, SetKill, Freeze, Expire, Approve,
      ChangeStage, ManualExit, ManualResize, vars, operator, runner, books,
      counters

LEMMA InitStranded == Init => StrandedInv
<1> SUFFICES ASSUME Init PROVE StrandedInv
  OBVIOUS
<1>1. \A p \in Permissions : Unreconciled(p) = {}
  BY DEF Init, Unreconciled
<1>2. Stranded = {} /\ deaths = 0
  BY <1>1 DEF Init, Stranded
<1> QED
  BY <1>2, FS_EmptySet DEF StrandedInv, StrandedNeedsDeath

\* A target stays without a reconciliation only if a pass died on it, one by
\* each death, for any number of permissions and passes.
THEOREM StrandedByDeaths == Spec => []StrandedNeedsDeath
<1>1. Init => StrandedInv
  BY InitStranded
<1>2. Inv /\ StrandedInv /\ [Next]_vars => StrandedInv'
  BY StrandedStep
<1>3. StrandedInv => StrandedNeedsDeath
  BY DEF StrandedInv
<1> QED
  BY <1>1, <1>2, <1>3, InvHolds, PTL DEF Spec
-----------------------------------------------------------------------------
(***************************************************************************)
(* The caps on a symbol and on the portfolio.  They are sums over sleeves; *)
(* a step changes one sleeve, and SumChange says what that does to a sum.  *)
(* Between the proof of a target and its writing no sleeve changes, so     *)
(* what the policy allowed is still within the caps when it is written.    *)
(***************************************************************************)
Replaced(P, p, target) == Minus(Total(P), Notional(p)) + target

WithinCaps ==
    /\ \A s \in Symbols : Total(OnSymbol(s)) <= SymbolCap
    /\ Total(Permissions) <= PortfolioCap

ProvedKeepsCaps ==
    \A p \in Permissions :
        ProvedFor(p) =>
            /\ Replaced(OnSymbol(SymbolOf[p]), p, job.target) <= SymbolCap
            /\ Replaced(Permissions, p, job.target) <= PortfolioCap

CapInv == WithinCaps /\ ProvedKeepsCaps

LEMMA CapTypes == /\ IsFiniteSet(Permissions)
                  /\ SymbolCap \in Nat
                  /\ PortfolioCap \in Nat
BY PermissionAssumption, AmountAssumption

LEMMA NotionalNat ==
    ASSUME TypeOK, NEW p \in Permissions
    PROVE  /\ sleeve[p].allocated \in Nat
           /\ sleeve[p].notional \in Nat
           /\ Notional(p) \in Nat
BY Amounts DEF TypeOK, Sleeves, Notional, Larger

\* A total is a natural, and at least what each sleeve in it counts for.
LEMMA TotalParts ==
    ASSUME TypeOK, NEW P \in SUBSET Permissions
    PROVE  /\ IsFiniteSet(P)
           /\ Total(P) \in Nat
           /\ \A p \in P : Notional(p) <= Total(P)
<1> DEFINE f == [p \in Permissions |-> Notional(p)]
<1>1. IsFiniteSet(P)
  BY CapTypes, FS_Subset
<1>2. f \in [Permissions -> Nat]
  BY NotionalNat
<1>3. Total(P) = SumFunctionOnSet(f, P)
  BY DEF Total
<1>4. \A p \in P : f[p] = Notional(p)
  OBVIOUS
<1> HIDE DEF f
<1>5. SumFunctionOnSet(f, P) \in Nat
  BY <1>1, <1>2, SumTyped
<1>6. \A p \in P : f[p] <= SumFunctionOnSet(f, P)
  BY <1>1, <1>2, SumHasPart
<1> QED
  BY <1>1, <1>3, <1>4, <1>5, <1>6

\* A step that changes what one sleeve counts for changes the totals it is in
\* by as much, and no other total.
LEMMA TotalChange ==
    ASSUME TypeOK, TypeOK', NEW P \in SUBSET Permissions, NEW p \in Permissions,
           \A q \in Permissions \ {p} : Notional(q)' = Notional(q)
    PROVE  Total(P)' = IF p \in P THEN Total(P) - Notional(p) + Notional(p)'
                                  ELSE Total(P)
<1> DEFINE f == [q \in Permissions |-> Notional(q)]
           g == [q \in Permissions |-> Notional(q)']
<1>1. IsFiniteSet(P)
  BY CapTypes, FS_Subset
<1>2. f \in [Permissions -> Int]
  BY NotionalNat
<1>3. g \in [Permissions -> Int]
  <2>1. ASSUME NEW q \in Permissions PROVE Notional(q)' \in Nat
    BY Amounts DEF TypeOK, Sleeves, Notional, Larger
  <2> QED
    BY <2>1
<1>4. Total(P) = SumFunctionOnSet(f, P) /\ Total(P)' = SumFunctionOnSet(g, P)
  BY DEF Total
<1>5. /\ f[p] = Notional(p) /\ g[p] = Notional(p)'
      /\ \A q \in Permissions \ {p} : g[q] = f[q]
  OBVIOUS
<1> HIDE DEF f, g
<1>6. CASE p \in P
  <2>1. \A q \in P \ {p} : g[q] = f[q]
    BY <1>5
  <2>2. SumFunctionOnSet(g, P) = SumFunctionOnSet(f, P) - f[p] + g[p]
    BY <1>1, <1>2, <1>3, <1>6, <2>1, SumChange
  <2> QED
    BY <1>4, <1>5, <1>6, <2>2
<1>7. CASE p \notin P
  <2>1. \A q \in P : f[q] = g[q]
    BY <1>5, <1>7
  <2>2. SumFunctionOnSet(f, P) = SumFunctionOnSet(g, P)
    BY <1>1, <2>1, SumSame
  <2> QED
    BY <1>4, <1>7, <2>2
<1> QED
  BY <1>6, <1>7

LEMMA SymbolPart == \A s : OnSymbol(s) \in SUBSET Permissions
BY DEF OnSymbol

\* A sleeve that counts for less, and a sleeve that counts for a target that
\* was judged, keep a total within its cap.
LEMMA CapKept ==
    ASSUME TypeOK, TypeOK', NEW P \in SUBSET Permissions, NEW p \in Permissions,
           \A q \in Permissions \ {p} : Notional(q)' = Notional(q),
           NEW cap \in Nat, Total(P) <= cap,
           \/ Notional(p)' <= Notional(p)
           \/ p \in P => Replaced(P, p, Notional(p)') <= cap
    PROVE  Total(P)' <= cap
<1>1. Notional(p) \in Nat /\ Total(P) \in Nat
  BY NotionalNat, TotalParts
<1>2. Notional(p)' \in Nat
  BY Amounts DEF TypeOK, Sleeves, Notional, Larger
<1>3. p \in P => Notional(p) <= Total(P)
  BY TotalParts
<1>4. Total(P)' = IF p \in P THEN Total(P) - Notional(p) + Notional(p)'
                             ELSE Total(P)
  BY TotalChange
<1>5. CASE p \notin P
  BY <1>4, <1>5
<1>6. CASE p \in P /\ Notional(p)' <= Notional(p)
  BY <1>1, <1>2, <1>3, <1>4, <1>6
<1>7. CASE p \in P /\ Replaced(P, p, Notional(p)') <= cap
  BY <1>1, <1>2, <1>3, <1>4, <1>7 DEF Replaced, Minus
<1> QED
  BY <1>5, <1>6, <1>7

\* What the policy lets pass stays within the caps it found kept.
LEMMA EvaluateCaps ==
    ASSUME Inv, CapInv, NEW c \in candidates, NEW t \in Targets, Evaluate(c, t)
    PROVE  CapInv'
<1> DEFINE p == c.permission
           S == OnSymbol(SymbolOf[p])
<1>0. TypeOK /\ TypeOK'
  BY EvaluateInv DEF Inv
<1>1. p \in Permissions /\ t \in Nat /\ SymbolOf[p] \in Symbols
  BY <1>0, Amounts DEF TypeOK, Candidates
<1>2. job'.permission = p /\ job'.target = t
  BY DEF Evaluate
<1>3. sleeve' = sleeve
  BY DEF Evaluate, books
<1>4. \A q \in Permissions : Notional(q)' = Notional(q)
  BY <1>3 DEF Notional
<1>5. \A P : Total(P)' = Total(P)
  BY <1>4 DEF Total
<1>6. S \in SUBSET Permissions
  BY SymbolPart
<1>7. /\ Total(S) \in Nat /\ Total(Permissions) \in Nat
      /\ Notional(p) \in Nat
  BY <1>0, <1>1, <1>6, NotionalNat, TotalParts
<1>8. Total(S) <= SymbolCap /\ Total(Permissions) <= PortfolioCap
  BY <1>1 DEF CapInv, WithinCaps
<1>9. /\ ~CapExceeded(Replaced(S, p, t), Total(S), SymbolCap)
      /\ ~CapExceeded(Replaced(Permissions, p, t), Total(Permissions),
                      PortfolioCap)
  BY DEF Evaluate, PolicyAllows, AllocationAllowed, Replaced
<1>10. Replaced(S, p, t) \in Nat /\ Replaced(Permissions, p, t) \in Nat
  BY <1>1, <1>7 DEF Replaced, Minus
<1>11. /\ Replaced(S, p, t) <= SymbolCap
       /\ Replaced(Permissions, p, t) <= PortfolioCap
  BY <1>7, <1>8, <1>9, <1>10, CapTypes DEF CapExceeded
<1>12. ProvedKeepsCaps'
  BY <1>1, <1>2, <1>4, <1>5, <1>11
  DEF ProvedKeepsCaps, ProvedFor, Replaced
<1> QED
  BY <1>5, <1>12 DEF CapInv, WithinCaps

\* A target that is written was proved against the sleeves of now; while the
\* sleeve still holds more than the target, it counts for no more than before.
LEMMA EmitDesiredCaps == ASSUME Inv, CapInv, EmitDesired PROVE CapInv'
<1>0. TypeOK /\ TypeOK'
  BY EmitDesiredInv DEF Inv
<1>1. job.permission \in Permissions /\ job.target \in Targets
  BY <1>0, JobParts DEF EmitDesired
<1>2. PICK p \in Permissions, t \in Targets :
          job.permission = p /\ job.target = t
  BY <1>1
<1>3. /\ ProvedFor(p)
      /\ job'.step = "written"
      /\ t \in Nat /\ SymbolOf[p] \in Symbols
  BY <1>2, <1>0, JobParts, Amounts DEF EmitDesired, ProvedFor, Jobs
<1>4. /\ sleeve'[p].allocated = t
      /\ sleeve'[p].notional = sleeve[p].notional
      /\ \A q \in Permissions \ {p} : sleeve'[q] = sleeve[q]
  BY <1>0, <1>2 DEF EmitDesired, TypeOK, Sleeves
<1>5. \A q \in Permissions \ {p} : Notional(q)' = Notional(q)
  BY <1>4 DEF Notional
<1>6. Notional(p)' = t \/ Notional(p)' <= Notional(p)
  BY <1>0, <1>3, <1>4, NotionalNat DEF Notional, Larger
<1>7. /\ Replaced(OnSymbol(SymbolOf[p]), p, t) <= SymbolCap
      /\ Replaced(Permissions, p, t) <= PortfolioCap
  BY <1>2, <1>3 DEF CapInv, ProvedKeepsCaps
<1>8. ASSUME NEW s \in Symbols PROVE Total(OnSymbol(s))' <= SymbolCap
  <2>1. p \in OnSymbol(s) => s = SymbolOf[p]
    BY DEF OnSymbol
  <2>2. \/ Notional(p)' <= Notional(p)
        \/ p \in OnSymbol(s) => Replaced(OnSymbol(s), p, Notional(p)') <= SymbolCap
    BY <1>6, <1>7, <2>1
  <2>3. OnSymbol(s) \in SUBSET Permissions /\ Total(OnSymbol(s)) <= SymbolCap
    BY SymbolPart DEF CapInv, WithinCaps
  <2> QED
    BY <1>0, <1>5, <2>2, <2>3, CapTypes, CapKept
<1>9. Total(Permissions)' <= PortfolioCap
  <2>1. \/ Notional(p)' <= Notional(p)
        \/ p \in Permissions => Replaced(Permissions, p, Notional(p)') <= PortfolioCap
    BY <1>6, <1>7
  <2>2. Permissions \in SUBSET Permissions /\ Total(Permissions) <= PortfolioCap
    BY DEF CapInv, WithinCaps
  <2> QED
    BY <1>0, <1>5, <2>1, <2>2, CapTypes, CapKept
<1>10. ProvedKeepsCaps'
  BY <1>3 DEF ProvedKeepsCaps, ProvedFor
<1> QED
  BY <1>8, <1>9, <1>10 DEF CapInv, WithinCaps

\* A reconciliation only lets go of what the sleeve held beyond its target.
LEMMA ReconcileCaps ==
    ASSUME Inv, CapInv, NEW bought \in Quantities, Reconcile(bought)
    PROVE  CapInv'
<1>0. TypeOK /\ TypeOK'
  BY ReconcileInv DEF Inv
<1>1. job.permission \in Permissions /\ job.target \in Targets
  BY <1>0, JobParts DEF Reconcile
<1>2. PICK p \in Permissions, t \in Targets :
          job.permission = p /\ job.target = t
  BY <1>1
<1>3. /\ job'.step = "none"
      /\ job.step = "written"
      /\ t \in Nat
  BY <1>2, Amounts DEF Reconcile, NoJob
<1>4. /\ sleeve'[p].allocated = sleeve[p].allocated
      /\ sleeve'[p].notional = t
      /\ \A q \in Permissions \ {p} : sleeve'[q] = sleeve[q]
  BY <1>0, <1>2 DEF Reconcile, TypeOK, Sleeves
<1>5. sleeve[p].allocated = t
  BY <1>2, <1>3 DEF Inv, ReconciledWasWritten, SleeveFollowsDesired
<1>6. \A q \in Permissions \ {p} : Notional(q)' = Notional(q)
  BY <1>4 DEF Notional
<1>7. Notional(p)' <= Notional(p)
  BY <1>0, <1>3, <1>4, <1>5, NotionalNat DEF Notional, Larger
<1>8. ASSUME NEW s \in Symbols PROVE Total(OnSymbol(s))' <= SymbolCap
  <2>1. OnSymbol(s) \in SUBSET Permissions /\ Total(OnSymbol(s)) <= SymbolCap
    BY SymbolPart DEF CapInv, WithinCaps
  <2> QED
    BY <1>0, <1>6, <1>7, <2>1, CapTypes, CapKept
<1>9. Total(Permissions)' <= PortfolioCap
  <2>1. Permissions \in SUBSET Permissions /\ Total(Permissions) <= PortfolioCap
    BY DEF CapInv, WithinCaps
  <2> QED
    BY <1>0, <1>6, <1>7, <2>1, CapTypes, CapKept
<1>10. ProvedKeepsCaps'
  BY <1>3 DEF ProvedKeepsCaps, ProvedFor
<1> QED
  BY <1>8, <1>9, <1>10 DEF CapInv, WithinCaps

LEMMA CapStep == Inv /\ CapInv /\ [Next]_vars => CapInv'
<1> SUFFICES ASSUME Inv, CapInv, [Next]_vars PROVE CapInv'
  OBVIOUS
<1>1. CASE EmitDesired
  BY <1>1, EmitDesiredCaps
<1>2. ASSUME NEW bought \in Quantities, Reconcile(bought) PROVE CapInv'
  BY <1>2, ReconcileCaps
<1>3. ASSUME NEW c \in candidates, NEW t \in Targets, Evaluate(c, t)
      PROVE  CapInv'
  BY <1>3, EvaluateCaps
<1>4. CASE sleeve' = sleeve /\ (job' = job \/ job' = NoJob)
  <2>1. \A q \in Permissions : Notional(q)' = Notional(q)
    BY <1>4 DEF Notional
  <2>2. \A P : Total(P)' = Total(P)
    BY <2>1 DEF Total
  <2>3. \A p \in Permissions : ProvedFor(p)' => ProvedFor(p) /\ job' = job
    BY <1>4 DEF ProvedFor, NoJob
  <2> QED
    BY <2>1, <2>2, <2>3 DEF CapInv, WithinCaps, ProvedKeepsCaps, Replaced
<1> QED
  BY <1>1, <1>2, <1>3, <1>4
  DEF Next, Pass, BeginPass, Skip, EndPass, PassDies, SetKill, Freeze, Expire,
      Approve, ChangeStage, ManualExit, ManualResize, vars, operator, runner,
      books, counters

LEMMA CapsAreHard == Inv /\ CapInv => AllocatorIsHardGate
BY DEF Inv, WithinStrategyCap, CapInv, WithinCaps, AllocatorIsHardGate

LEMMA InitCaps == Init => CapInv
<1> SUFFICES ASSUME Init PROVE CapInv
  OBVIOUS
<1>1. \A p \in Permissions : Notional(p) = 0
  BY DEF Init, Notional, Larger
<1>2. ASSUME NEW P \in SUBSET Permissions PROVE Total(P) = 0
  <2> DEFINE f == [p \in Permissions |-> Notional(p)]
  <2>1. IsFiniteSet(P) /\ \A p \in P : f[p] = 0
    BY <1>1, CapTypes, FS_Subset
  <2> HIDE DEF f
  <2>2. SumFunctionOnSet(f, P) = 0
    BY <2>1, SumOfZeros
  <2> QED
    BY <2>2 DEF Total, f
<1>3. job.step = "none"
  BY DEF Init, NoJob
<1> QED
  BY <1>2, <1>3, SymbolPart, CapTypes
  DEF CapInv, WithinCaps, ProvedKeepsCaps, ProvedFor

\* The allocator is a hard gate: no sleeve, no symbol and not the portfolio is
\* ever allocated or holds more than its cap, whatever passes died between the
\* proof of a target, its writing and its reconciliation.
THEOREM HardGate == Spec => []AllocatorIsHardGate
<1>1. Init => CapInv
  BY InitCaps
<1>2. Inv /\ CapInv /\ [Next]_vars => CapInv'
  BY CapStep
<1>3. Inv /\ CapInv => AllocatorIsHardGate
  BY CapsAreHard
<1> QED
  BY <1>1, <1>2, <1>3, InvHolds, PTL DEF Spec
-----------------------------------------------------------------------------
(***************************************************************************)
(* The simulator's positions.  A reconciliation moves the position and one *)
(* sleeve by the same quantity, unless the position holds less than is to  *)
(* be sold: then the difference was taken by hand.                         *)
(***************************************************************************)
Held(s) == SumFunctionOnSet([p \in Permissions |-> sleeve[p].quantity],
                            OnSymbol(s))

Covers(s) ==
    /\ Held(s) <= position[s] + manual[s].taken
    /\ position[s] <= Held(s) + manual[s].added

\* A symbol's sleeves hold a natural quantity, of which each holds a part.
LEMMA HeldParts ==
    ASSUME TypeOK, NEW s
    PROVE  /\ Held(s) \in Nat
           /\ \A p \in OnSymbol(s) : sleeve[p].quantity <= Held(s)
<1> DEFINE f == [p \in Permissions |-> sleeve[p].quantity]
<1>1. OnSymbol(s) \in SUBSET Permissions /\ IsFiniteSet(OnSymbol(s))
  BY SymbolPart, CapTypes, FS_Subset
<1>2. f \in [Permissions -> Nat]
  BY DEF TypeOK, Sleeves
<1>3. Held(s) = SumFunctionOnSet(f, OnSymbol(s))
  BY DEF Held
<1>4. \A p \in OnSymbol(s) : f[p] = sleeve[p].quantity
  BY <1>1
<1> HIDE DEF f
<1>5. SumFunctionOnSet(f, OnSymbol(s)) \in Nat
  BY <1>1, <1>2, SumTyped
<1>6. \A p \in OnSymbol(s) : f[p] <= SumFunctionOnSet(f, OnSymbol(s))
  BY <1>1, <1>2, SumHasPart
<1> QED
  BY <1>3, <1>4, <1>5, <1>6

LEMMA HeldChange ==
    ASSUME TypeOK, TypeOK', NEW s, NEW p \in Permissions,
           \A q \in Permissions \ {p} : sleeve'[q] = sleeve[q]
    PROVE  Held(s)' = IF p \in OnSymbol(s)
                      THEN Held(s) - sleeve[p].quantity + sleeve'[p].quantity
                      ELSE Held(s)
<1> DEFINE f == [q \in Permissions |-> sleeve[q].quantity]
           g == [q \in Permissions |-> sleeve'[q].quantity]
           S == OnSymbol(s)
<1>1. S \in SUBSET Permissions /\ IsFiniteSet(S)
  BY SymbolPart, CapTypes, FS_Subset
<1>2. f \in [Permissions -> Int] /\ g \in [Permissions -> Int]
  <2>1. /\ sleeve \in [Permissions -> Sleeves]
        /\ sleeve' \in [Permissions -> Sleeves]
    BY DEF TypeOK
  <2> QED
    BY <2>1 DEF Sleeves
<1>3. Held(s) = SumFunctionOnSet(f, S) /\ Held(s)' = SumFunctionOnSet(g, S)
  BY DEF Held, OnSymbol
<1>4. /\ f[p] = sleeve[p].quantity /\ g[p] = sleeve'[p].quantity
      /\ \A q \in Permissions \ {p} : g[q] = f[q]
  OBVIOUS
<1> HIDE DEF f, g, S
<1>5. CASE p \in S
  <2>1. \A q \in S \ {p} : g[q] = f[q]
    BY <1>1, <1>4
  <2>2. SumFunctionOnSet(g, S) = SumFunctionOnSet(f, S) - f[p] + g[p]
    BY <1>1, <1>2, <1>5, <2>1, SumChange
  <2> QED
    BY <1>3, <1>4, <1>5, <2>2 DEF S
<1>6. CASE p \notin S
  <2>1. \A q \in S : f[q] = g[q]
    BY <1>1, <1>4, <1>6
  <2>2. SumFunctionOnSet(f, S) = SumFunctionOnSet(g, S)
    BY <1>1, <2>1, SumSame
  <2> QED
    BY <1>3, <1>6, <2>2 DEF S
<1> QED
  BY <1>5, <1>6

\* One fill: what is bought or sold of a position, clipped at zero, and what
\* the sleeve gains or loses.
LEMMA FillCovers ==
    ASSUME NEW open \in Nat, NEW total \in Nat, NEW held \in Nat,
           NEW wanted \in Nat, NEW taken \in Nat, NEW added \in Nat,
           held <= total, total <= open + taken, open <= total + added
    PROVE  /\ total - held + wanted <= Filled(open, held, wanted) + taken
           /\ Filled(open, held, wanted) <= total - held + wanted + added
BY DEF Filled, Minus

LEMMA CoverStep ==
    Inv /\ PositionsCoverSleeves /\ [Next]_vars => PositionsCoverSleeves'
<1> SUFFICES ASSUME Inv, \A s \in Symbols : Covers(s), [Next]_vars,
                    NEW s \in Symbols
             PROVE  Covers(s)'
  BY DEF PositionsCoverSleeves, Covers, Held
<1>0. TypeOK /\ TypeOK'
  BY InvStep DEF Inv
<1>1. /\ position[s] \in Nat /\ manual[s].taken \in Nat
      /\ manual[s].added \in Nat /\ Held(s) \in Nat
  BY <1>0, HeldParts DEF TypeOK
<1>2. ASSUME NEW bought \in Quantities, Reconcile(bought) PROVE Covers(s)'
  <2>1. job.permission \in Permissions /\ job.target \in Targets
    BY <1>0, <1>2, JobParts DEF Reconcile
  <2>2. PICK p \in Permissions, t \in Targets :
            job.permission = p /\ job.target = t
    BY <2>1
  <2> DEFINE wanted == Wanted(t, bought)
  <2>3. wanted \in Nat /\ sleeve[p].quantity \in Nat
    BY <1>0, Amounts DEF Wanted, TypeOK, Sleeves
  <2>4. /\ sleeve'[p].quantity = wanted
        /\ \A q \in Permissions \ {p} : sleeve'[q] = sleeve[q]
        /\ manual' = manual
    BY <1>0, <1>2, <2>2 DEF Reconcile, TypeOK, Sleeves
  <2>5. position'[s] = IF s = SymbolOf[p]
                       THEN Filled(position[s], sleeve[p].quantity, wanted)
                       ELSE position[s]
    BY <1>0, <1>2, <2>2 DEF Reconcile, TypeOK
  <2>6. p \in OnSymbol(s) <=> s = SymbolOf[p]
    BY DEF OnSymbol
  <2> HIDE DEF wanted
  <2>7. Held(s)' = IF s = SymbolOf[p]
                   THEN Held(s) - sleeve[p].quantity + wanted
                   ELSE Held(s)
    BY <1>0, <2>4, <2>6, HeldChange
  <2>8. CASE s # SymbolOf[p]
    BY <2>4, <2>5, <2>7, <2>8 DEF Covers
  <2>9. CASE s = SymbolOf[p]
    <3>1. sleeve[p].quantity <= Held(s)
      BY <1>0, <2>6, <2>9, HeldParts
    <3>2. Held(s) <= position[s] + manual[s].taken
      BY DEF Covers
    <3>3. position[s] <= Held(s) + manual[s].added
      BY DEF Covers
    <3>4. /\ Held(s) - sleeve[p].quantity + wanted
                 <= Filled(position[s], sleeve[p].quantity, wanted)
                        + manual[s].taken
          /\ Filled(position[s], sleeve[p].quantity, wanted)
                 <= Held(s) - sleeve[p].quantity + wanted + manual[s].added
      BY <1>1, <2>3, <3>1, <3>2, <3>3, FillCovers
    <3> QED
      BY <2>4, <2>5, <2>7, <2>9, <3>4 DEF Covers
  <2> QED
    BY <2>8, <2>9
<1>3. ASSUME sleeve' = sleeve
      PROVE  Held(s)' = Held(s)
  BY <1>3 DEF Held, OnSymbol
<1>4. ASSUME NEW r \in Symbols, ManualExit(r) PROVE Covers(s)'
  <2>1. sleeve' = sleeve
    BY <1>4 DEF ManualExit
  <2>2. CASE r # s
    <3>1. position'[s] = position[s] /\ manual'[s] = manual[s]
      BY <1>0, <1>4, <2>2 DEF ManualExit, TypeOK
    <3> QED
      BY <1>3, <2>1, <3>1 DEF Covers
  <2>3. CASE r = s
    <3>1. /\ position'[s] = 0
          /\ manual'[s].taken = manual[s].taken + position[s]
          /\ manual'[s].added = manual[s].added
      BY <1>0, <1>4, <2>3 DEF ManualExit, TypeOK
    <3> QED
      BY <1>1, <1>3, <2>1, <3>1 DEF Covers
  <2> QED
    BY <2>2, <2>3
<1>5. ASSUME NEW r \in Symbols, NEW q \in Quantities, ManualResize(r, q)
      PROVE  Covers(s)'
  <2>1. sleeve' = sleeve /\ q \in Nat
    BY <1>5, Amounts DEF ManualResize
  <2>2. CASE r # s
    <3>1. position'[s] = position[s] /\ manual'[s] = manual[s]
      BY <1>0, <1>5, <2>2 DEF ManualResize, TypeOK
    <3> QED
      BY <1>3, <2>1, <3>1 DEF Covers
  <2>3. CASE r = s
    <3>1. /\ position'[s] = position[s] + q
          /\ manual'[s].taken = manual[s].taken
          /\ manual'[s].added = manual[s].added + q
      BY <1>0, <1>5, <2>3 DEF ManualResize, TypeOK
    <3> QED
      BY <1>1, <1>3, <2>1, <3>1 DEF Covers
  <2> QED
    BY <2>2, <2>3
<1>6. CASE EmitDesired
  <2>1. job.permission \in Permissions
    BY <1>0, <1>6, JobParts DEF EmitDesired
  <2>2. PICK p \in Permissions : job.permission = p
    BY <2>1
  <2>3. /\ sleeve'[p].quantity = sleeve[p].quantity
        /\ \A q \in Permissions \ {p} : sleeve'[q] = sleeve[q]
        /\ position' = position /\ manual' = manual
    BY <1>0, <1>6, <2>2 DEF EmitDesired, TypeOK, Sleeves
  <2>4. sleeve[p].quantity \in Nat
    BY <1>0 DEF TypeOK, Sleeves
  <2>5. Held(s)' = Held(s)
    BY <1>0, <1>1, <2>3, <2>4, HeldChange
  <2> QED
    BY <2>3, <2>5 DEF Covers
<1>7. CASE UNCHANGED <<sleeve, position, manual>>
  BY <1>3, <1>7 DEF Covers
<1> QED
  BY <1>2, <1>4, <1>5, <1>6, <1>7
  DEF Next, Pass, BeginPass, Skip, Evaluate, EndPass, PassDies, SetKill,
      Freeze, Expire, Approve, ChangeStage, vars, operator, runner, books,
      counters

LEMMA InitCovers == Init => PositionsCoverSleeves
<1> SUFFICES ASSUME Init, NEW s \in Symbols PROVE Covers(s)
  BY DEF PositionsCoverSleeves, Covers, Held
<1> DEFINE f == [p \in Permissions |-> sleeve[p].quantity]
<1>1. \A p \in OnSymbol(s) : f[p] = 0
  BY SymbolPart DEF Init
<1>2. IsFiniteSet(OnSymbol(s))
  BY SymbolPart, CapTypes, FS_Subset
<1>3. Held(s) = SumFunctionOnSet(f, OnSymbol(s))
  BY DEF Held
<1> HIDE DEF f
<1>4. Held(s) = 0
  BY <1>1, <1>2, <1>3, SumOfZeros
<1> QED
  BY <1>4 DEF Init, Covers

\* The simulator's position of a symbol is what its sleeves hold, up to what
\* was taken from it or added to it by hand, for any number of sleeves that
\* share it and in whatever order they are reconciled.
THEOREM PositionsAreCovered == Spec => []PositionsCoverSleeves
<1>1. Init => PositionsCoverSleeves
  BY InitCovers
<1>2. Inv /\ PositionsCoverSleeves /\ [Next]_vars => PositionsCoverSleeves'
  BY CoverStep
<1> QED
  BY <1>1, <1>2, InvHolds, PTL DEF Spec
=============================================================================
