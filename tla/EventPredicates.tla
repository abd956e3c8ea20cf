---------------------------- MODULE EventPredicates ----------------------------
(***************************************************************************)
(* The predicates of filters that read one property: property_is and the   *)
(* eight that compare a view of it.                                        *)
(*                                                                         *)
(* A predicate says "true", "false" or, by an exception, what kept it from *)
(* a schema, and it has asked for the schema or not.  These construct the  *)
(* schema outside their try block and turn every exception of the parser   *)
(* into "false".                                                           *)
(***************************************************************************)
EXTENDS EventParser

Verdict(v, asked) == [v |-> v, asked |-> asked]
Truth(b) == IF b THEN "true" ELSE "false"
Opposite(v) == Truth(v = "false")

\* What a property predicate says, given what it makes of the property.
WithSchema(status, truth) == Verdict(IF status # "schema" THEN status ELSE Truth(truth), TRUE)

Holds(parsed, expected) == parsed.ok /\ parsed.value = expected

PropertyIs(e, status, p) ==
    WithSchema(status, Holds(TryParse(e, NewParser, p.name, p.type), p.expected))

\* iequal_to: letters are pairs of cells from 2 on, the capital one before the small.
ToUpper(v) == [i \in DOMAIN v |-> IF v[i] > 1 THEN v[i] - (v[i] % 2) ELSE v[i]]

\* Mutant: only the cells that both ranges have are compared.
StartsWithUpTo(v, w) == \A i \in DOMAIN v \cap DOMAIN w : v[i] = w[i]

StartsWith(v, w) == IsPrefix(w, v)
EndsWith(v, w) == IsSuffix(w, v)
ContainsRange(v, w) == \E n \in 0..Len(v) : IsPrefix(w, SubSeq(v, n + 1, Len(v)))

\* What the eight view predicates make of a range of cells.
Compare(p, range) ==
    LET v == IF p.ignoreCase THEN ToUpper(range) ELSE range
        w == IF p.ignoreCase THEN ToUpper(p.expected) ELSE p.expected
    IN  \/ p.compare = "equals" /\ v = w
        \/ p.compare = "contains" /\ ContainsRange(v, w)
        \/ p.compare = "starts_with" /\ StartsWith(v, w)
        \/ p.compare = "ends_with" /\ EndsWith(v, w)

Matches(view, p) == view.ok /\ Compare(p, view.value)

PropertyView(e, status, p) == WithSchema(status, Matches(ViewOf(e, NewParser, p.name), p))
=============================================================================
