------------------------------ MODULE EventFilters ------------------------------
(***************************************************************************)
(* The predicates krabs puts together from others, which is what the       *)
(* filters of EventDispatch are given to evaluate: predicates of the       *)
(* header, of one property, and any, all or none of other predicates.      *)
(***************************************************************************)
EXTENDS EventDispatch

RECURSIVE EvalPredicate(_, _, _)

\* The predicates in order until one says `stop' or throws.
Scan(e, status, args, stop) ==
    FoldLeft(LAMBDA r, q :
                 IF r.v # Opposite(stop) THEN r
                 ELSE Asked(EvalPredicate(e, status, q), r.asked),
             Verdict(Opposite(stop), FALSE), args)

Negation(r) == IF r.v \in {"true", "false"} THEN Verdict(Opposite(r.v), r.asked) ELSE r

EvalPredicate(e, status, p) ==
    CASE p.op = "any_event" -> Verdict("true", FALSE)
      [] p.op = "no_event" -> Verdict("false", FALSE)
      [] p.op = "header_is" -> Verdict(Truth(e[p.field] = p.expected), FALSE)
      [] p.op = "property_is" -> PropertyIs(e, status, p)
      [] p.op = "property_view" -> PropertyView(e, status, p)
      [] p.op = "not" -> Negation(EvalPredicate(e, status, p.arg))
      [] p.op = "and" -> Scan(e, status, p.args, "false")
      [] p.op = "all_of" -> IF p.args = <<>> THEN Verdict("false", FALSE)
                            ELSE Scan(e, status, p.args, "false")
      [] p.op \in {"or", "any_of"} -> Scan(e, status, p.args, "true")
      [] p.op = "none_of" -> Negation(Scan(e, status, p.args, "true"))
=================================================================================
