--------------------------- MODULE StrategyRunner ---------------------------
(***************************************************************************)
(* Shadow automation: the strategy runner, the sleeves it allocates and    *)
(* the simulated broker it trades with.                                    *)
(*                                                                         *)
(* A pass of the runner loads every permission with its last desired       *)
(* position in one statement, then takes them one by one: it evaluates the *)
(* strategy and the proof policy, commits a desired position, and commits  *)
(* its simulated reconciliation in a second transaction.  Meanwhile        *)
(* operators approve, freeze and kill, stages change, and the decision     *)
(* handler of the gateway fills positions of the same thesis.              *)
(*                                                                         *)
(* One pass runs at a time: the service is one process.  Targets are long  *)
(* or flat, since no strategy family returns short, and are kept as the    *)
(* notional they ask for, 0 being flat; the portfolio value is constant,   *)
(* so a weight is its notional.  The price at a reconciliation only shows  *)
(* in the quantity that the target buys.  Stale data, a closed session and *)
(* a risk veto only refuse, like Skip.  No statement freezes or closes a   *)
(* sleeve, and what was proved from price bars has a price to fill at.     *)
(***************************************************************************)
EXTENDS LifecycleStages, Sequences, FiniteSets, Functions

CONSTANTS
    Permissions, Symbols, Strategies,
    SymbolOf, StrategyOf,
    Weights,        \* notionals a permission may be approved for
    Quantities,     \* quantities a target may buy
    StrategyCap, SymbolCap, PortfolioCap,
    None,
    MaxDesired,     \* bound: desired positions per permission
    MaxChanges,     \* bound: changes by the operator, time or readiness
    MaxDeaths,      \* bound: passes that die
    MaxManual       \* bound: manual fills of simulated positions

ASSUME PermissionAssumption ==
    /\ IsFiniteSet(Permissions)
    /\ SymbolOf \in [Permissions -> Symbols]
    /\ StrategyOf \in [Permissions -> Strategies]
    /\ None \notin Permissions \union Nat
ASSUME AmountAssumption ==
    /\ Weights \subseteq Nat \ {0}
    /\ Quantities \subseteq Nat \ {0}
    /\ {StrategyCap, SymbolCap, PortfolioCap} \subseteq Nat
ASSUME BoundAssumption == {MaxDesired, MaxChanges, MaxDeaths, MaxManual}
                              \subseteq Nat

VARIABLES
    kill,         \* automation_control_state.kill_switch_enabled
    permission,   \* approved, frozen, past its expiry, and its weight
    stage,        \* the lifecycle stage of each strategy
    running,      \* is a pass under way?
    candidates,   \* the rows it loaded and has still to take
    job,          \* the permission it has proved or written a target for
    desired,      \* desired_strategy_position, oldest first
    reconciled,   \* which of them have a reconciliation row
    sleeve,       \* allocated and current notional, current quantity
    position,     \* quantity of the simulator's open position, 0 if none
    manual,       \* quantities filled by hand in simulator positions
    fills,        \* manual fills, for the bound
    changes,      \* changes made to permissions, stages and the kill switch
    deaths,       \* passes that died
    late,         \* per permission, desired positions since it was frozen
    afterKill,    \* desired positions since the kill switch was set
    afterOff      \* per permission, those since its strategy is off

operator == <<kill, permission, stage, changes>>
runner == <<running, candidates, job>>
books == <<reconciled, sleeve, position, manual, fills>>
counters == <<deaths, late, afterKill, afterOff>>
vars == <<operator, runner, desired, books, counters>>

Targets == Weights \union {0}
PermissionRows ==
    [approved : BOOLEAN, frozen : BOOLEAN, expired : BOOLEAN, weight : Targets]
Candidates ==
    [permission : Permissions, frozen : BOOLEAN, weight : Targets,
     latest : Targets \union {None}]
Sleeves == [allocated : Targets, notional : Targets, quantity : Nat]
Jobs == [permission : Permissions, target : Targets,
         step : {"proved", "written"}]
NoJob == [permission |-> None, target |-> 0, step |-> "none"]

TypeOK ==
    /\ kill \in BOOLEAN
    /\ permission \in [Permissions -> PermissionRows]
    /\ stage \in [Strategies -> Stages]
    /\ running \in BOOLEAN
    /\ candidates \in SUBSET Candidates
    /\ job \in Jobs \union {NoJob}
    /\ desired \in [Permissions -> Seq(Targets)]
    /\ reconciled \in [Permissions -> SUBSET (Nat \ {0})]
    /\ sleeve \in [Permissions -> Sleeves]
    /\ position \in [Symbols -> Nat]
    /\ manual \in [Symbols -> [taken : Nat, added : Nat]]
    /\ fills \in 0..MaxManual
    /\ changes \in 0..MaxChanges
    /\ deaths \in 0..MaxDeaths
    /\ late \in [Permissions -> Nat]
    /\ afterKill \in Nat
    /\ afterOff \in [Permissions -> Nat]

\* The built-in strategies are seeded in stage shadow; any stage of the ladder
\* may have been reached since.  Approvals come later.
Init ==
    /\ kill = FALSE
    /\ permission = [p \in Permissions |->
                        [approved |-> FALSE, frozen |-> FALSE,
                         expired |-> FALSE, weight |-> 0]]
    /\ stage \in [Strategies -> Ladder]
    /\ running = FALSE
    /\ candidates = {}
    /\ job = NoJob
    /\ desired = [p \in Permissions |-> <<>>]
    /\ reconciled = [p \in Permissions |-> {}]
    /\ sleeve = [p \in Permissions |->
                    [allocated |-> 0, notional |-> 0, quantity |-> 0]]
    /\ position = [s \in Symbols |-> 0]
    /\ manual = [s \in Symbols |-> [taken |-> 0, added |-> 0]]
    /\ fills = 0
    /\ changes = 0
    /\ deaths = 0
    /\ late = [p \in Permissions |-> 0]
    /\ afterKill = 0
    /\ afterOff = [p \in Permissions |-> 0]

Larger(a, b) == IF a < b THEN b ELSE a
Minus(a, b) == IF a < b THEN 0 ELSE a - b
LatestOf(p) ==
    IF desired[p] = <<>> THEN None ELSE desired[p][Len(desired[p])]
-----------------------------------------------------------------------------
(***************************************************************************)
(* The operator, and what changes by itself.                               *)
(***************************************************************************)

Changes == changes < MaxChanges /\ changes' = changes + 1

\* approve_automation_permission: a refresh lifts a freeze, and leaves an
\* expiry that has passed where it is (COALESCE(expires_at, ...)).
Approve(p, w) ==
    /\ Changes
    /\ permission' = [permission EXCEPT ![p] =
           [@ EXCEPT !.approved = TRUE, !.frozen = FALSE, !.weight = w]]
    /\ late' = [late EXCEPT ![p] = 0]
    /\ UNCHANGED <<kill, stage, runner, desired, books, deaths, afterKill,
                   afterOff>>

\* The operator's runbook: set manual_freeze.
Freeze(p) ==
    /\ Changes
    /\ permission[p].approved
    /\ ~permission[p].frozen
    /\ permission' = [permission EXCEPT ![p].frozen = TRUE]
    /\ UNCHANGED <<kill, stage, runner, desired, books, counters>>

Expire(p) ==
    /\ Changes
    /\ permission[p].approved
    /\ ~permission[p].expired
    /\ permission' = [permission EXCEPT ![p].expired = TRUE]
    /\ UNCHANGED <<kill, stage, runner, desired, books, counters>>

\* The operator's runbook: set and clear the global kill switch.
SetKill ==
    /\ Changes
    /\ kill' = ~kill
    /\ afterKill' = 0
    /\ UNCHANGED <<permission, stage, runner, desired, books, deaths, late,
                   afterOff>>

\* Readiness with an approval promotes by one stage; by hand a strategy is
\* demoted, frozen or retired, and never returns from the last two.
ChangeStage(s, to) ==
    /\ Changes
    /\ stage[s] # to
    /\ \/ to \in {"frozen", "retired"}
       \/ /\ {stage[s], to} \subseteq DOMAIN Rank
          /\ Rank[to] <= Rank[stage[s]] + 1
    /\ stage' = [stage EXCEPT ![s] = to]
    /\ UNCHANGED <<kill, permission, runner, desired, books, counters>>
-----------------------------------------------------------------------------
(***************************************************************************)
(* The pass                                                                *)
(***************************************************************************)

\* The rows of automation_strategy_candidates, as they are now.
CandidateRows ==
    {[permission |-> p, frozen |-> permission[p].frozen,
      weight |-> permission[p].weight, latest |-> LatestOf(p)] :
        p \in {q \in Permissions : /\ permission[q].approved
                                   /\ stage[StrategyOf[q]] = "shadow"}}

BeginPass ==
    /\ ~running
    /\ running' = TRUE
    /\ candidates' = CandidateRows
    /\ UNCHANGED <<operator, job, desired, books, counters>>

\* evaluate_allocation: a sleeve counts for the larger of what it is
\* allocated and what it holds; its own share is replaced by the target.
Notional(p) == Larger(sleeve[p].allocated, sleeve[p].notional)
Total(P) == SumFunctionOnSet([p \in Permissions |-> Notional(p)], P)
OnSymbol(s) == {p \in Permissions : SymbolOf[p] = s}

CapExceeded(proposed, current, cap) == proposed > cap /\ proposed > current

\* Deliberate error: only what is filled counts, not what is allocated.
AllocationOfFilled(p, target) ==
    LET Filling(P) == SumFunctionOnSet(
                          [q \in Permissions |-> sleeve[q].notional], P)
        Replaced(P) == Minus(Filling(P), sleeve[p].notional) + target
    IN  /\ target <= StrategyCap
        /\ Replaced(OnSymbol(SymbolOf[p])) <= SymbolCap
        /\ Replaced(Permissions) <= PortfolioCap

AllocationAllowed(p, target) ==
    LET Replaced(P) == Minus(Total(P), Notional(p)) + target
        onSymbol == OnSymbol(SymbolOf[p])
    IN  /\ ~CapExceeded(target, Notional(p), StrategyCap)
        /\ ~CapExceeded(Replaced(onSymbol), Total(onSymbol), SymbolCap)
        /\ ~CapExceeded(Replaced(Permissions), Total(Permissions),
                        PortfolioCap)

\* Deliberate error: the target is not compared with the last one.
TargetOnly(c, target) == target \in {0, c.weight}

\* evaluate_strategy: flat or the permitted weight, if that is news.
AsksFor(c, target) == target \in {0, c.weight} /\ target # c.latest

\* Deliberate error: the kill switch is not read.
PolicyIgnoresKill(c, target) ==
    /\ ~c.frozen
    /\ ~permission[c.permission].expired
    /\ AllocationAllowed(c.permission, target)

\* Deliberate error: a freeze is not looked at.
PolicyIgnoresFreeze(c, target) ==
    /\ ~permission[c.permission].expired
    /\ ~kill
    /\ AllocationAllowed(c.permission, target)

\* evaluate_proof_policy: the freeze is as old as the pass; the kill switch,
\* the clock and the sleeves are read now.
PolicyAllows(c, target) ==
    /\ ~c.frozen
    /\ ~permission[c.permission].expired
    /\ ~kill
    /\ AllocationAllowed(c.permission, target)

Evaluate(c, target) ==
    /\ job = NoJob
    /\ AsksFor(c, target)
    /\ PolicyAllows(c, target)
    /\ job' = [permission |-> c.permission, target |-> target,
               step |-> "proved"]
    /\ candidates' = candidates \ {c}
    /\ UNCHANGED <<operator, running, desired, books, counters>>

\* Nothing to change, or blocked: at most a blocked proof is recorded.
Skip(c) ==
    /\ job = NoJob
    /\ candidates' = candidates \ {c}
    /\ UNCHANGED <<operator, running, job, desired, books, counters>>

\* insert_desired_strategy_position: one transaction, no second look at the
\* permission or the kill switch.
EmitDesired ==
    LET p == job.permission
    IN  /\ job.step = "proved"
        /\ Len(desired[p]) < MaxDesired
        /\ desired' = [desired EXCEPT ![p] = Append(@, job.target)]
        /\ sleeve' = [sleeve EXCEPT ![p].allocated = job.target]
        /\ job' = [job EXCEPT !.step = "written"]
        /\ late' = [late EXCEPT ![p] =
                       IF permission[p].frozen THEN @ + 1 ELSE @]
        /\ afterKill' = IF kill THEN afterKill + 1 ELSE afterKill
        /\ afterOff' = [afterOff EXCEPT ![p] =
                           IF IsOff(stage[StrategyOf[p]]) THEN @ + 1 ELSE @]
        /\ UNCHANGED <<operator, running, candidates, reconciled, position,
                       manual, fills, deaths>>

\* Deliberate error: a leg is not clipped to what is open.
FilledBelowZero(open, held, wanted) == (open + wanted) - held

\* Deliberate error: the shared position is set to the target of one sleeve.
FilledToTarget(open, held, wanted) == wanted

(***************************************************************************)
(* simulate_desired_reconciliation: one transaction on the locked sleeve.  *)
(* `bought` is the quantity that the target asks for at the latest price.  *)
(* The legs bring the sleeve from what it holds to that; each is filled on *)
(* the symbol's one open simulator position, never below zero.  A sleeve   *)
(* whose position is gone gets an incident and is set to its target all    *)
(* the same.  The ON CONFLICT path is for a second call with one desired   *)
(* position, which the runner does not make.                               *)
(***************************************************************************)
Filled(open, held, wanted) ==
    IF wanted >= held THEN open + (wanted - held)
                      ELSE Minus(open, held - wanted)

\* Deliberate error: a flat target buys like any other.
BuysAnyTarget(target, bought) == bought

Wanted(target, bought) == IF target = 0 THEN 0 ELSE bought

Reconcile(bought) ==
    LET p == job.permission
        s == SymbolOf[p]
        wanted == Wanted(job.target, bought)
    IN  /\ job.step = "written"
        /\ position' = [position EXCEPT ![s] =
                           Filled(@, sleeve[p].quantity, wanted)]
        /\ sleeve' = [sleeve EXCEPT ![p] =
               [@ EXCEPT !.notional = job.target, !.quantity = wanted]]
        /\ reconciled' = [reconciled EXCEPT ![p] = @ \union {Len(desired[p])}]
        /\ job' = NoJob
        /\ UNCHANGED <<operator, running, candidates, desired, manual, fills,
                       counters>>

\* Deliberate error: the pass does not wait for its last reconciliation.
EndPassEarly ==
    /\ running
    /\ candidates = {}
    /\ running' = FALSE
    /\ job' = NoJob
    /\ UNCHANGED <<operator, candidates, desired, books, counters>>

EndPass ==
    /\ running
    /\ candidates = {}
    /\ job = NoJob
    /\ running' = FALSE
    /\ UNCHANGED <<operator, candidates, job, desired, books, counters>>

\* An error leaves run_once through `?`, and with it the process.
PassDies ==
    /\ running
    /\ deaths < MaxDeaths
    /\ running' = FALSE
    /\ candidates' = {}
    /\ job' = NoJob
    /\ deaths' = deaths + 1
    /\ UNCHANGED <<operator, desired, books, late, afterKill, afterOff>>
-----------------------------------------------------------------------------
(***************************************************************************)
(* record_decision looks for the newest open position of a thesis; a       *)
(* simulator position carries the thesis too, and is resized or closed     *)
(* like one that was entered by hand.                                      *)
(***************************************************************************)
ManualExit(s) ==
    /\ position[s] > 0
    /\ fills < MaxManual
    /\ manual' = [manual EXCEPT ![s].taken = @ + position[s]]
    /\ position' = [position EXCEPT ![s] = 0]
    /\ fills' = fills + 1
    /\ UNCHANGED <<operator, runner, desired, reconciled, sleeve, counters>>

ManualResize(s, quantity) ==
    /\ position[s] > 0
    /\ fills < MaxManual
    /\ manual' = [manual EXCEPT ![s].added = @ + quantity]
    /\ position' = [position EXCEPT ![s] = @ + quantity]
    /\ fills' = fills + 1
    /\ UNCHANGED <<operator, runner, desired, reconciled, sleeve, counters>>
-----------------------------------------------------------------------------
Pass ==
    \/ BeginPass
    \/ \E c \in candidates : Skip(c) \/ \E t \in Targets : Evaluate(c, t)
    \/ EmitDesired
    \/ \E q \in Quantities : Reconcile(q)
    \/ EndPass

Next ==
    \/ Pass
    \/ PassDies
    \/ SetKill
    \/ \E p \in Permissions :
          Freeze(p) \/ Expire(p) \/ \E w \in Weights : Approve(p, w)
    \/ \E s \in Strategies, to \in Stages : ChangeStage(s, to)
    \/ \E s \in Symbols :
          ManualExit(s) \/ \E q \in Quantities : ManualResize(s, q)

Spec == Init /\ [][Next]_vars
-----------------------------------------------------------------------------
(***************************************************************************)
(* Safety                                                                  *)
(***************************************************************************)

\* What is allocated or held stays within every cap: the allocator judged a
\* proposal before it was written, against sleeves a pass that died may have
\* left allocated and never filled (allocator.rs, evaluate_allocation).
AllocatorIsHardGate ==
    /\ \A p \in Permissions : Notional(p) <= StrategyCap
    /\ \A s \in Symbols : Total(OnSymbol(s)) <= SymbolCap
    /\ Total(Permissions) <= PortfolioCap

\* The simulator's position is what the sleeves of its symbol hold, up to
\* what decisions of the gateway took from it or added to it by hand.
PositionsCoverSleeves ==
    \A s \in Symbols :
        LET held == SumFunctionOnSet(
                        [p \in Permissions |-> sleeve[p].quantity],
                        OnSymbol(s))
        IN  /\ held <= position[s] + manual[s].taken
            /\ position[s] <= held + manual[s].added

\* A sleeve holds the last target that was reconciled, whichever passes died
\* in between; what it is allocated is the last target that was written.
SleeveFollowsDesired ==
    \A p \in Permissions :
        desired[p] # <<>> =>
            /\ sleeve[p].allocated = LatestOf(p)
            /\ Len(desired[p]) \in reconciled[p] =>
                   /\ sleeve[p].notional = LatestOf(p)
                   /\ sleeve[p].quantity = 0 <=> LatestOf(p) = 0

\* A desired position without a reconciliation is the one at hand, or was
\* left by a pass that died, one by each.
Unreconciled(p) == {i \in 1..Len(desired[p]) : i \notin reconciled[p]}
AtHand(p) == IF job.step = "written" /\ job.permission = p
             THEN {Len(desired[p])} ELSE {}
Stranded == UNION {{p} \X (Unreconciled(p) \ AtHand(p)) : p \in Permissions}
StrandedNeedsDeath == Cardinality(Stranded) <= deaths

\* Desired positions are appended only when the target changes: the pass
\* compares with the last one as it was when the pass began.
EmissionIsNews ==
    \A p \in Permissions : \A i \in 1..(Len(desired[p]) - 1) :
        desired[p][i] # desired[p][i + 1]

\* After the kill switch is set at most one desired position is written, the
\* one that was already proved.
KillLetsOneThrough == kill => afterKill <= 1

\* After a freeze at most one more is written for the permission, by the pass
\* that had loaded it before; the next pass sees the freeze.
FreezeLetsOneThrough ==
    \A p \in Permissions : permission[p].frozen => late[p] <= 1

\* After a strategy is frozen or retired at most one more is written for each
\* of its permissions, for good: "cannot run" (docs/AUTOMATION.md) is a matter
\* of the next pass, and no way leads back.
OffLetsOneThrough == \A p \in Permissions : afterOff[p] <= 1

\* No switch stops what is under way, and each stops what comes after.
SwitchesLetOneThrough ==
    KillLetsOneThrough /\ FreezeLetsOneThrough /\ OffLetsOneThrough
-----------------------------------------------------------------------------
(***************************************************************************)
(* What the documentation says, and the code does not keep                 *)
(***************************************************************************)

\* docs/AUTOMATION.md: the runner evaluates the approved permissions whose
\* environment (shadow, here) is allowed by the lifecycle stage; a strategy
\* in stage paper, or in a live stage, may run shadow permissions.
AllowedPermissionsAreEvaluated ==
    [][~running /\ running' =>
          \A p \in Permissions :
              /\ permission[p].approved
              /\ stage[StrategyOf[p]] \in DOMAIN Rank \ {"draft"}
              => \E c \in candidates' : c.permission = p]_vars
=============================================================================
