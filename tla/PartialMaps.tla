----------------------------- MODULE PartialMaps -----------------------------
(***************************************************************************)
(* The correlation tables and stores of the supervisor are std::map and    *)
(* std::unordered_map objects.  A table is a function whose DOMAIN is the  *)
(* set of keys it holds: inserting or assigning is Put, erasing is Drop.   *)
(***************************************************************************)
EXTENDS Functions

\* The table that holds no key.
EmptyMap == [k \in {} |-> k]

\* table[k] = v : inserts the key, or overwrites what it held.
Put(f, k, v) == [x \in DOMAIN f \cup {k} |-> IF x = k THEN v ELSE f[x]]

\* table.erase(k) : no effect when the key is absent.
Drop(f, k) == Restrict(f, DOMAIN f \ {k})

\* f is a table with keys in K and values in V.
IsMap(f, K, V) == DOMAIN f \subseteq K /\ f \in [DOMAIN f -> V]
==============================================================================
