------------------------------ MODULE Goalposts ------------------------------
(***************************************************************************)
(* The goalpost detector: what a revision of a thesis makes of the         *)
(* conditions under which it was to be given up.                           *)
(*                                                                         *)
(* A condition has a name ("" for none) and is quantitative or narrative.  *)
(* The expression of the first is what parse_simple_expr makes of it, a    *)
(* set of at most one [field, op, bound]; the assertion of the second is a *)
(* value.  A list of conditions is a sequence.                             *)
(***************************************************************************)
EXTENDS Integers, Sequences, FiniteSets

Operators == {"<", "<=", ">", ">=", "==", "!="}
Expressions(fields, bounds) == [field : fields, op : Operators, bound : bounds]

\* by_name: the last condition of a name counts, one without a name does not.
Names(conditions) == {conditions[i].name : i \in DOMAIN conditions} \ {""}
LastOf(conditions, name) ==
    CHOOSE i \in DOMAIN conditions :
        /\ conditions[i].name = name
        /\ \A j \in DOMAIN conditions : conditions[j].name = name => j <= i
ByName(conditions) == [n \in Names(conditions) |-> conditions[LastOf(conditions, n)]]

OpFamily(op) ==
    CASE op \in {"<", "<="} -> "<" [] op \in {">", ">="} -> ">" [] OTHER -> op

\* expr_is_looser_than
IsLooser(new, old) ==
    /\ new.field = old.field
    /\ OpFamily(new.op) = OpFamily(old.op)
    /\ \/ OpFamily(new.op) = "<" /\ new.bound < old.bound
       \/ OpFamily(new.op) = ">" /\ new.bound > old.bound

Loosened(old, new) ==
    /\ old.type = "quantitative" /\ new.type = "quantitative"
    /\ \E o \in old.expr, n \in new.expr : IsLooser(n, o)

NeedsReview(old, new) ==
    \/ old.type # new.type
    \/ old.type = "narrative" /\ new.type = "narrative" /\ old.assertion # new.assertion

\* analyze: `review` also for a rewrite of all that was listed, a name that is
\* listed twice not being one.
Report(original, updated) ==
    LET orig == ByName(original)
        upd == ByName(updated)
        kept == DOMAIN orig \intersect DOMAIN upd
        dropped == DOMAIN orig \ DOMAIN upd
        added == DOMAIN upd \ DOMAIN orig
        loosened == {n \in kept : Loosened(orig[n], upd[n])}
    IN  [dropped  |-> dropped,
         added    |-> added,
         loosened |-> loosened,
         weakened |-> dropped # {} \/ loosened # {},
         review   |-> \/ \E n \in kept : NeedsReview(orig[n], upd[n])
                      \/ /\ original # << >>
                         /\ Cardinality(dropped) = Len(original)
                         /\ added # {}]

-----------------------------------------------------------------------------
(***************************************************************************)
(* on_updated: what the service does with an event                         *)
(***************************************************************************)
\* The version of an event is optional and 0 by default.  The endpoints that
\* move a thesis send none; consensus sends the version of its configuration.
VersionOf(event) == IF event.version = {} THEN 0 ELSE CHOOSE v \in event.version : TRUE

\* A thesis is its two lists of conditions, or {} when there is none; one of
\* them may not parse.  A failed handler is tried again by the bus.
OnUpdated(event, thesis) ==
    IF ~event.parses THEN [outcome |-> "dropped"]
    ELSE IF ~\E t \in thesis : t.parses THEN [outcome |-> "failed"]
    ELSE LET t == CHOOSE t \in thesis : TRUE
             r == Report(t.original, t.updated)
         IN  [outcome |-> IF r.weakened \/ r.review THEN "warned" ELSE "clean",
              version |-> VersionOf(event),
              weakens |-> r.weakened]

-----------------------------------------------------------------------------
\* Whether an observation calls for giving the thesis up.
Trips(e, value) ==
    CASE e.op = "<"  -> value < e.bound
      [] e.op = "<=" -> value <= e.bound
      [] e.op = ">"  -> value > e.bound
      [] e.op = ">=" -> value >= e.bound
      [] e.op = "==" -> value = e.bound
      [] e.op = "!=" -> value # e.bound
=============================================================================
