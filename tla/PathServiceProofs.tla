--------------------------- MODULE PathServiceProofs ---------------------------
(***************************************************************************)
(* What holds of paths for every host, whatever its links, its letters and *)
(* its volumes, and whatever is asked for: the deletion service deletes    *)
(* what it has checked, the runner mounts directories that lie apart, and  *)
(* the monitor judges a file by where it lies, however it is named.        *)
(*                                                                         *)
(* All three decide by the text of a path and act on the place it leads    *)
(* to, so the lemmas say what the one tells of the other: a cleaned path   *)
(* never goes up, filepath.Rel finds out whether one such path is a prefix *)
(* of another, letter case makes no difference to where a path leads, and  *)
(* a path none of whose last components is a link leads below where the    *)
(* ones above lead.  For the monitor they say that NormalizePath brings    *)
(* every spelling of a file to a text of its drive and its components,     *)
(* that a text written from a drive and components names them again, and   *)
(* that one such text begins with another, with a separator behind it,     *)
(* just if its components begin with the other's.  Components, Walk,       *)
(* Below, AddAll and Resolved are defined by recursion over the places of  *)
(* a sequence; the first two lemmas are the induction they need.           *)
(***************************************************************************)
EXTENDS PathService, SequenceTheorems, WellFoundedInduction, TLAPS

------------------------------------------------------------------------------
(* Induction over the places of a sequence, and what is defined by it.     *)

Less == {ss \in Nat \X Nat : ss[1] < ss[2]}

\* A set that has 0, and with each number the next one up to N, has them all.
LEMMA Upwards ==
  ASSUME NEW N \in Nat, NEW T, 0 \in T, \A n \in 0..(N - 1) : n \in T => n + 1 \in T
  PROVE  0..N \subseteq T
<1> DEFINE U == {n \in 0..N : n \notin T}
<1> SUFFICES ASSUME U # {} PROVE FALSE
  OBVIOUS
<1>1. IsWellFoundedOn(Less, Nat)
  BY NatLessThanWellFounded DEF OpToRel, Less
<1>2. U \subseteq Nat
  OBVIOUS
<1>3. PICK m \in U : \A n \in U : ~(<<n, m>> \in Less)
  <2> HIDE DEF U
  <2> QED  BY <1>1, <1>2, WFMin
<1>4. m \in Nat /\ m # 0 /\ m - 1 \in 0..(N - 1) /\ <<m - 1, m>> \in Less
  BY DEF Less
<1>5. m - 1 \in T /\ (m - 1) + 1 = m
  BY <1>3, <1>4
<1> QED  BY <1>4, <1>5

\* The function that begins with base and goes on with step.
LEMMA Recursion ==
  ASSUME NEW S, NEW base \in S, NEW N \in Nat, NEW step \in [1..N -> [S -> S]]
  PROVE  \E f \in [0..N -> S] : f[0] = base /\ \A n \in 1..N : f[n] = step[n][f[n - 1]]
<1> DEFINE Up(k, f) == f[0] = base /\ \A n \in 1..k : f[n] = step[n][f[n - 1]]
           T == {k \in 0..N : \E f \in [0..k -> S] : Up(k, f)}
<1>1. 0 \in T
  <2> DEFINE g == [n \in 0..0 |-> base]
  <2>1. g \in [0..0 -> S] /\ g[0] = base /\ 1..0 = {}
    OBVIOUS
  <2>2. Up(0, g)
    BY <2>1
  <2>3. \E f \in [0..0 -> S] : Up(0, f)
    <3> HIDE DEF g, Up
    <3> QED  BY <2>1, <2>2
  <2> QED  BY <2>3
<1>2. ASSUME NEW k \in 0..(N - 1), k \in T PROVE k + 1 \in T
  <2>1. PICK f \in [0..k -> S] : Up(k, f)
    BY <1>2
  <2> DEFINE g == [n \in 0..(k + 1) |-> IF n = k + 1 THEN step[k + 1][f[k]] ELSE f[n]]
  <2>2. f[k] \in S /\ step[k + 1][f[k]] \in S
    BY <2>1
  <2>3. g \in [0..(k + 1) -> S]
    BY <2>1, <2>2
  <2>4. Up(k + 1, g)
    <3>1. g[0] = base
      BY <2>1
    <3>2. ASSUME NEW n \in 1..(k + 1) PROVE g[n] = step[n][g[n - 1]]
      <4>1. CASE n = k + 1
        BY <4>1
      <4>2. CASE n # k + 1
        BY <4>2, <2>1
      <4> QED  BY <4>1, <4>2
    <3> HIDE DEF g
    <3> QED  BY <3>1, <3>2
  <2> HIDE DEF g
  <2> QED  BY <2>3, <2>4
<1>3. 0..N \subseteq T
  <2> HIDE DEF T
  <2> QED  BY <1>1, <1>2, Upwards
<1>4. N \in T
  BY <1>3
<1> QED  BY <1>4

------------------------------------------------------------------------------
(* Following a path.                                                       *)

\* Links of the host, all of which lead to paths whose components are in S.
LinksIn(L, S) == L \subseteq DOMAIN LinkTo /\ \A l \in DOMAIN LinkTo : LinkTo[l] \in Seq(S)

\* Resolved goes through a path step by step.
LEMMA ResolvedIs ==
  ASSUME NEW S, NEW L, LinksIn(L, S), NEW p \in Seq(S)
  PROVE  \E f \in [0..Len(p) -> Seq(S)] :
           /\ f[0] = <<>> /\ f[Len(p)] = Resolved(L, p)
           /\ \A n \in 1..Len(p) : f[n] = Followed(L, Append(f[n - 1], p[n]))
<1> DEFINE N == Len(p)
           step == [n \in 1..N |-> [q \in Seq(S) |-> Followed(L, Append(q, p[n]))]]
           Next1(f) == [n \in 0..N |-> IF n = 0 THEN <<>> ELSE Followed(L, Append(f[n - 1], p[n]))]
<1>1. N \in Nat /\ \A n \in 1..N : p[n] \in S
  BY LenProperties, ElementOfSeq
<1>2. step \in [1..N -> [Seq(S) -> Seq(S)]]
  <2> SUFFICES ASSUME NEW s \in Seq(S), NEW n \in 1..N PROVE Followed(L, Append(s, p[n])) \in Seq(S)
    OBVIOUS
  <2>1. Append(s, p[n]) \in Seq(S)
    BY <1>1, AppendProperties
  <2> QED  BY <2>1 DEF Followed, LinksIn
<1>3. PICK f \in [0..N -> Seq(S)] : f[0] = <<>> /\ \A n \in 1..N : f[n] = step[n][f[n - 1]]
  <2>1. <<>> \in Seq(S)
    OBVIOUS
  <2>2. \E f \in [0..N -> Seq(S)] : f[0] = <<>> /\ \A n \in 1..N : f[n] = step[n][f[n - 1]]
    <3> PICK Q : Q = Seq(S)
      OBVIOUS
    <3>1. step \in [1..N -> [Q -> Q]] /\ <<>> \in Q /\ N \in Nat
      BY <1>1, <1>2, <2>1
    <3> HIDE DEF step, N
    <3>2. PICK e, g, m : e = <<>> /\ g = step /\ m = N
      OBVIOUS
    <3>3. e \in Q /\ m \in Nat /\ g \in [1..m -> [Q -> Q]]
      BY <3>1, <3>2
    <3>4. \E f \in [0..m -> Q] : f[0] = e /\ \A n \in 1..m : f[n] = g[n][f[n - 1]]
      BY ONLY <3>3, Recursion
    <3> QED  BY <3>2, <3>4
  <2> QED  BY <2>2
<1>4. \A n \in 1..N : f[n] = Followed(L, Append(f[n - 1], p[n]))
  <2> SUFFICES ASSUME NEW n \in 1..N PROVE f[n] = Followed(L, Append(f[n - 1], p[n]))
    OBVIOUS
  <2>1. f[n - 1] \in Seq(S)
    BY <1>1, <1>3
  <2> QED  BY <2>1, <1>3
<1>5. f = Next1(f)
  BY <1>1, <1>3, <1>4
<1> DEFINE h == CHOOSE g : g = Next1(g)
<1>6. h = Next1(h)
  BY <1>5
<1>7. Resolved(L, p) = h[N]
  BY DEF Resolved
<1>8. 0..N \subseteq {n \in 0..N : h[n] = f[n]}
  <2> DEFINE T == {n \in 0..N : h[n] = f[n]}
  <2>1. 0 \in T
    <3> HIDE DEF h
    <3>1. 0 \in 0..N /\ h[0] = <<>>
      BY <1>1, <1>6
    <3> QED  BY <1>3, <3>1
  <2>2. ASSUME NEW n \in 0..(N - 1), n \in T PROVE n + 1 \in T
    <3> HIDE DEF h
    <3>1. n + 1 \in 1..N /\ (n + 1) - 1 = n /\ n + 1 # 0
      BY <1>1
    <3>2. h[n + 1] = Followed(L, Append(h[n], p[n + 1]))
      BY <1>6, <3>1
    <3> QED  BY <1>4, <2>2, <3>1, <3>2
  <2> HIDE DEF T, h, N
  <2>3. 0..N \subseteq T
    BY <1>1, <2>1, <2>2, Upwards
  <2> QED  BY <2>3 DEF T
<1>9. f[N] = Resolved(L, p)
  BY <1>1, <1>7, <1>8
<1> QED  BY <1>3, <1>4, <1>9

\* The components of a directory, those of all links, and those of some paths as well.
PartsOf(path) == ToSet(path) \ {<<>>, <<".">>, <<"..">>}
LinkParts == UNION {PartsOf(LinkTo[l]) : l \in DOMAIN LinkTo}
Names(paths) == LinkParts \cup UNION {PartsOf(p) : p \in paths}

\* A set that has the components of all links.
LEMMA LinksAreIn ==
  ASSUME NEW L, L \subseteq DOMAIN LinkTo, NEW S, LinkParts \subseteq S
  PROVE  LinksIn(L, S)
<1> SUFFICES ASSUME NEW l \in DOMAIN LinkTo PROVE LinkTo[l] \in Seq(S)
  BY DEF LinksIn
<1> PICK P : P = PartsOf(LinkTo[l])
  OBVIOUS
<1>1. LinkTo[l] \in Seq(P)
  BY PathAssumption DEF IsCleanPath, PartsOf
<1>2. P \subseteq S
  BY DEF LinkParts
<1> QED  BY <1>1, <1>2, SeqMonotonic

\* No path among clean ones, and none a link leads to, goes up.
LEMMA NamesAre ==
  ASSUME NEW paths, \A p \in paths : IsCleanPath(p), NEW L, L \subseteq DOMAIN LinkTo
  PROVE  /\ \A p \in paths : p \in Seq(Names(paths)) /\ Len(p) \in Nat \ {0}
         /\ <<"..">> \notin Names(paths) /\ LinksIn(L, Names(paths))
<1>1. ASSUME NEW p \in paths PROVE p \in Seq(Names(paths)) /\ Len(p) \in Nat \ {0}
  <2> PICK P : P = PartsOf(p)
    OBVIOUS
  <2>1. p \in Seq(P) /\ p # <<>>
    BY DEF IsCleanPath, PartsOf
  <2>2. P \subseteq Names(paths)
    BY DEF Names
  <2> QED  BY <2>1, <2>2, SeqMonotonic, EmptySeq, LenProperties
<1>2. <<"..">> \notin Names(paths)
  BY DEF Names, LinkParts, PartsOf
<1>3. LinkParts \subseteq Names(paths)
  BY DEF Names
<1> QED  BY <1>1, <1>2, <1>3, LinksAreIn

\* The empty path leads nowhere else.
LEMMA NothingResolved ==
  ASSUME NEW L, L \subseteq DOMAIN LinkTo PROVE Resolved(L, <<>>) = <<>>
<1>1. LinksIn(L, LinkParts)
  BY LinksAreIn
<1>2. <<>> \in Seq(LinkParts) /\ Len(<<>>) = 0
  BY EmptySeq
<1>3. PICK S : S = LinkParts
  OBVIOUS
<1>4. LinksIn(L, S)
  BY <1>1, <1>3
<1> PICK p \in Seq(S) : p = <<>> /\ Len(p) = 0
  BY <1>2, <1>3
<1>5. PICK f \in [0..Len(p) -> Seq(S)] :
        /\ f[0] = <<>> /\ f[Len(p)] = Resolved(L, p)
        /\ \A n \in 1..Len(p) : f[n] = Followed(L, Append(f[n - 1], p[n]))
  BY ONLY <1>4, ResolvedIs
<1> QED  BY <1>5

\* One more component is one more step.
LEMMA ResolvedAppend ==
  ASSUME NEW S, NEW L, LinksIn(L, S), NEW p \in Seq(S), NEW x \in S
  PROVE  Resolved(L, p) \in Seq(S) /\ Resolved(L, Append(p, x)) = Followed(L, Append(Resolved(L, p), x))
<1> DEFINE q == Append(p, x)
           N == Len(p)
<1>1. /\ q \in Seq(S) /\ Len(q) = N + 1 /\ q[N + 1] = x /\ N \in Nat
      /\ \A n \in 1..N : q[n] = p[n]
  BY AppendProperties
<1>2. PICK f \in [0..N -> Seq(S)] :
        /\ f[0] = <<>> /\ f[N] = Resolved(L, p)
        /\ \A n \in 1..N : f[n] = Followed(L, Append(f[n - 1], p[n]))
  BY ResolvedIs
<1>3. PICK g \in [0..(N + 1) -> Seq(S)] :
        /\ g[0] = <<>> /\ g[N + 1] = Resolved(L, q)
        /\ \A n \in 1..(N + 1) : g[n] = Followed(L, Append(g[n - 1], q[n]))
  <2> HIDE DEF q, N
  <2>1. PICK r \in Seq(S) : r = q
    BY <1>1
  <2>2. \E g \in [0..Len(r) -> Seq(S)] :
          /\ g[0] = <<>> /\ g[Len(r)] = Resolved(L, r)
          /\ \A n \in 1..Len(r) : g[n] = Followed(L, Append(g[n - 1], r[n]))
    BY ResolvedIs
  <2> QED  BY <1>1, <2>1, <2>2
<1> HIDE DEF q, N
<1>4. 0..N \subseteq {n \in 0..N : f[n] = g[n]}
  <2> DEFINE T == {n \in 0..N : f[n] = g[n]}
  <2>1. 0 \in T
    BY <1>1, <1>2, <1>3
  <2>2. ASSUME NEW n \in 0..(N - 1), n \in T PROVE n + 1 \in T
    <3>1. n + 1 \in 1..N /\ n + 1 \in 1..(N + 1) /\ (n + 1) - 1 = n
      BY <1>1
    <3>2. f[n + 1] = Followed(L, Append(f[n], p[n + 1])) /\ g[n + 1] = Followed(L, Append(g[n], q[n + 1]))
      BY <1>2, <1>3, <3>1
    <3> QED  BY <1>1, <2>2, <3>1, <3>2
  <2> HIDE DEF T
  <2>3. 0..N \subseteq T
    BY <1>1, <2>1, <2>2, Upwards
  <2> QED  BY <2>3 DEF T
<1>5. f[N] = g[N] /\ N + 1 \in 1..(N + 1) /\ (N + 1) - 1 = N /\ N \in 0..N
  BY <1>1, <1>4
<1>6. Resolved(L, q) = Followed(L, Append(g[N], q[N + 1]))
  BY <1>3, <1>5
<1> QED  BY <1>1, <1>2, <1>5, <1>6 DEF q

\* The same, for one of the places of a path.
LEMMA ResolvedPrefix ==
  ASSUME NEW S, NEW L, LinksIn(L, S), NEW p \in Seq(S), NEW n \in 0..(Len(p) - 1)
  PROVE  /\ SubSeq(p, 1, n) \in Seq(S) /\ p[n + 1] \in S /\ Resolved(L, SubSeq(p, 1, n)) \in Seq(S)
         /\ Resolved(L, SubSeq(p, 1, n + 1)) = Followed(L, Append(Resolved(L, SubSeq(p, 1, n)), p[n + 1]))
<1>1. Len(p) \in Nat /\ n + 1 \in 1..Len(p)
  BY LenProperties
<1>2. SubSeq(p, 1, n) \in Seq(S) /\ p[n + 1] \in S
  BY <1>1, ElementOfSeq
<1>3. SubSeq(p, 1, n + 1) = Append(SubSeq(p, 1, n), p[n + 1])
  BY <1>1, <1>2
<1>4. PICK q \in Seq(S), x \in S : q = SubSeq(p, 1, n) /\ x = p[n + 1]
  BY <1>2
<1>5. Resolved(L, q) \in Seq(S) /\ Resolved(L, Append(q, x)) = Followed(L, Append(Resolved(L, q), x))
  BY ResolvedAppend
<1> QED  BY <1>2, <1>3, <1>4, <1>5

------------------------------------------------------------------------------
(* Letter case.                                                            *)

\* Folding changes the components one by one.
LEMMA FoldIs ==
  ASSUME NEW S, NEW p \in Seq(S)
  PROVE  /\ Fold(p) \in Seq({ToLowerPath(x) : x \in S}) /\ Len(Fold(p)) = Len(p)
         /\ DOMAIN Fold(p) = 1..Len(p)
         /\ \A n \in 1..Len(p) : Fold(p)[n] = ToLowerPath(p[n])
BY DEF Fold

\* Paths are the same but for letter case if all their components are.
LEMMA SameFold ==
  ASSUME NEW S, NEW p \in Seq(S), NEW q \in Seq(S)
  PROVE  Fold(p) = Fold(q) <=>
           Len(p) = Len(q) /\ \A n \in 1..Len(p) : ToLowerPath(p[n]) = ToLowerPath(q[n])
BY FoldIs DEF Fold

\* The last component can be folded by itself.
LEMMA FoldOfAppend ==
  ASSUME NEW S, NEW p \in Seq(S), NEW x \in S
  PROVE  Fold(Append(p, x)) = Append(Fold(p), ToLowerPath(x))
<1>1. PICK f : f = Fold(p)
  OBVIOUS
<1>2. PICK y : y = ToLowerPath(x)
  OBVIOUS
<1>3. /\ f \in Seq({ToLowerPath(z) : z \in S}) /\ Len(f) = Len(p)
      /\ \A n \in 1..Len(p) : f[n] = ToLowerPath(p[n])
  BY <1>1, FoldIs
<1>4. Append(f, y) = [n \in 1..(Len(p) + 1) |-> IF n = Len(p) + 1 THEN y ELSE f[n]]
  <2>1. PICK R : f \in Seq(R) /\ y \in R
    BY <1>2, <1>3
  <2>2. PICK g \in Seq(R) : g = Append(f, y)
    BY <2>1, AppendProperties
  <2>3. /\ Len(g) = Len(p) + 1 /\ Len(p) \in Nat
        /\ \A n \in 1..(Len(p) + 1) : g[n] = IF n = Len(p) + 1 THEN y ELSE f[n]
    BY <1>3, <2>1, <2>2, AppendProperties, LenProperties
  <2>4. g \in [1..(Len(p) + 1) -> R]
    BY <2>3, LenProperties
  <2> QED  BY <2>2, <2>3, <2>4
<1>5. /\ DOMAIN Append(p, x) = 1..(Len(p) + 1)
      /\ \A n \in 1..(Len(p) + 1) : Append(p, x)[n] = IF n = Len(p) + 1 THEN x ELSE p[n]
  OBVIOUS
<1>6. Fold(Append(p, x)) = [n \in 1..(Len(p) + 1) |-> IF n = Len(p) + 1 THEN y ELSE f[n]]
  <2>1. Fold(Append(p, x)) = [n \in 1..(Len(p) + 1) |-> ToLowerPath(Append(p, x)[n])]
    BY <1>5 DEF Fold
  <2>2. \A n \in 1..(Len(p) + 1) :
          ToLowerPath(Append(p, x)[n]) = IF n = Len(p) + 1 THEN y ELSE f[n]
    BY <1>2, <1>3, <1>5, LenProperties
  <2> QED  BY <2>1, <2>2
<1> QED  BY <1>1, <1>2, <1>4, <1>6

\* Two paths that differ in letter case only lead to one place.
LEMMA ResolvedIgnoresCase ==
  ASSUME NEW S, NEW L, LinksIn(L, S), NEW p \in Seq(S), NEW q \in Seq(S), Fold(p) = Fold(q)
  PROVE  Fold(Resolved(L, p)) = Fold(Resolved(L, q))
<1> DEFINE P(n) == SubSeq(p, 1, n)
           Q(n) == SubSeq(q, 1, n)
           T == {n \in 0..Len(p) : Fold(Resolved(L, P(n))) = Fold(Resolved(L, Q(n)))}
<1>1. /\ Len(p) \in Nat /\ Len(q) = Len(p) /\ P(Len(p)) = p /\ Q(Len(p)) = q
      /\ \A n \in 1..Len(p) : ToLowerPath(p[n]) = ToLowerPath(q[n])
  BY SameFold
<1>2. 0 \in T
  <2>1. P(0) = Q(0) /\ 0 \in 0..Len(p)
    BY <1>1
  <2>2. Fold(Resolved(L, P(0))) = Fold(Resolved(L, Q(0)))
    BY <2>1
  <2> QED  BY <2>1, <2>2
<1>3. ASSUME NEW n \in 0..(Len(p) - 1), n \in T PROVE n + 1 \in T
  <2> DEFINE a == Append(Resolved(L, P(n)), p[n + 1])
             b == Append(Resolved(L, Q(n)), q[n + 1])
  <2>1. /\ Resolved(L, P(n)) \in Seq(S) /\ p[n + 1] \in S /\ Resolved(L, P(n + 1)) = Followed(L, a)
        /\ Resolved(L, Q(n)) \in Seq(S) /\ q[n + 1] \in S /\ Resolved(L, Q(n + 1)) = Followed(L, b)
    BY <1>1, ResolvedPrefix
  <2>2. Fold(a) = Fold(b)
    <3>1. Fold(Resolved(L, P(n))) = Fold(Resolved(L, Q(n))) /\ ToLowerPath(p[n + 1]) = ToLowerPath(q[n + 1])
      BY <1>1, <1>3
    <3>2. Fold(a) = Append(Fold(Resolved(L, P(n))), ToLowerPath(p[n + 1]))
      BY <2>1, FoldOfAppend
    <3>3. Fold(b) = Append(Fold(Resolved(L, Q(n))), ToLowerPath(q[n + 1]))
      BY <2>1, FoldOfAppend
    <3> QED  BY <3>1, <3>2, <3>3
  <2>3. Fold(Followed(L, a)) = Fold(Followed(L, b))
    BY <2>2 DEF Followed
  <2>4. n + 1 \in 0..Len(p)
    BY <1>1
  <2> QED  BY <2>1, <2>3, <2>4
<1>4. Len(p) \in T
  <2> HIDE DEF T
  <2> QED  BY <1>1, <1>2, <1>3, Upwards
<1> QED  BY <1>1, <1>4

------------------------------------------------------------------------------
(* The components of a text.                                               *)

\* Appending gives a longer sequence.
LEMMA AppendIs ==
  ASSUME NEW S, NEW s \in Seq(S), NEW x \in S
  PROVE  Append(s, x) \in Seq(S) \ {<<>>}
BY AppendProperties

\* What one more character makes of the components of a text.
Split(q, x) ==
    IF x \in {Sep, Slash} THEN Append(q, <<>>) ELSE Append(Front(q), Append(Last(q), x))

\* Components goes through a text character by character.
LEMMA ComponentsIs ==
  ASSUME NEW C, NEW s \in Seq(C)
  PROVE  \E f \in [0..Len(s) -> Seq(Seq(C \ {Sep, Slash})) \ {<<>>}] :
           /\ f[0] = << <<>> >> /\ f[Len(s)] = Components(s)
           /\ \A n \in 1..Len(s) : f[n] = Split(f[n - 1], s[n])
<1> DEFINE N == Len(s)
           B == C \ {Sep, Slash}
           X == Seq(Seq(B)) \ {<<>>}
           One(q, n) == Split(q, s[n])
           Whole(f) == [n \in 0..N |-> IF n = 0 THEN << <<>> >> ELSE One(f[n - 1], n)]
           step == [n \in 1..N |-> [q \in X |-> One(q, n)]]
<1>1. N \in Nat /\ << <<>> >> \in X
  BY LenProperties
<1>2. \A n \in 1..N : \A q \in X : One(q, n) \in X
  <2> SUFFICES ASSUME NEW n \in 1..N, NEW q \in X PROVE One(q, n) \in X
    OBVIOUS
  <2>1. s[n] \in C
    BY ElementOfSeq
  <2> HIDE DEF B
  <2>2. Front(q) \in Seq(Seq(B)) /\ Last(q) \in Seq(B) /\ <<>> \in Seq(B)
    BY EmptySeq, ElementOfSeq DEF Front, Last
  <2>3. s[n] \notin {Sep, Slash} => Append(Last(q), s[n]) \in Seq(B)
    BY <2>1, <2>2 DEF B
  <2>4. ASSUME NEW v \in Seq(Seq(B)), NEW x \in Seq(B) PROVE Append(v, x) \in X
    BY AppendIs
  <2> HIDE DEF X
  <2>5. q \in Seq(Seq(B))
    BY DEF X
  <2> QED  BY <2>2, <2>3, <2>4, <2>5 DEF Split
<1>3. PICK f \in [0..N -> X] : f[0] = << <<>> >> /\ \A n \in 1..N : f[n] = One(f[n - 1], n)
  <2> HIDE DEF N, X, One
  <2>1. step \in [1..N -> [X -> X]]
    BY <1>2
  <2> HIDE DEF step
  <2>2. PICK Q, e, g, m : Q = X /\ e = << <<>> >> /\ g = step /\ m = N
    OBVIOUS
  <2>3. e \in Q /\ m \in Nat /\ g \in [1..m -> [Q -> Q]]
    BY <1>1, <2>1, <2>2
  <2>4. PICK f \in [0..m -> Q] : f[0] = e /\ \A n \in 1..m : f[n] = g[n][f[n - 1]]
    BY ONLY <2>3, Recursion
  <2>5. \A n \in 1..N : f[n] = One(f[n - 1], n)
    BY <1>1, <2>2, <2>4 DEF step
  <2> QED  BY <2>2, <2>4, <2>5
<1>4. f = Whole(f)
  <2>1. \A n \in 1..N : f[n] = One(f[n - 1], n)
    BY <1>3 DEF One
  <2> HIDE DEF N, X, One
  <2> QED  BY <1>1, <1>3, <2>1
<1> DEFINE h == CHOOSE g : g = Whole(g)
<1>5. h = Whole(h)
  <2> HIDE DEF Whole
  <2> QED  BY <1>4
<1>6. Components(s) = h[N]
  BY DEF Components, Split
<1> HIDE DEF h, X
<1>7. 0..N \subseteq {n \in 0..N : h[n] = f[n]}
  <2> DEFINE T == {n \in 0..N : h[n] = f[n]}
  <2>1. 0 \in T
    BY <1>1, <1>3, <1>5
  <2>2. ASSUME NEW n \in 0..(N - 1), n \in T PROVE n + 1 \in T
    <3>1. n + 1 \in 1..N /\ (n + 1) - 1 = n /\ n + 1 # 0 /\ n + 1 \in 0..N
      BY <1>1
    <3>2. h[n + 1] = One(h[n], n + 1)
      BY <1>5, <3>1
    <3>3. f[n + 1] = One(f[n], n + 1)
      BY <1>3, <3>1
    <3> HIDE DEF One, N
    <3> QED  BY <2>2, <3>1, <3>2, <3>3
  <2> HIDE DEF T, N
  <2>3. 0..N \subseteq T
    BY <1>1, <2>1, <2>2, Upwards
  <2> QED  BY <2>3 DEF T
<1> HIDE DEF N
<1>8. f[N] = Components(s)
  BY <1>1, <1>6, <1>7
<1> QED  BY <1>3, <1>8 DEF X, N

\* A text is split into texts without separators, and into one at least.
LEMMA ComponentsAreTexts ==
  ASSUME NEW C, NEW s \in Seq(C)
  PROVE  Components(s) \in Seq(Seq(C \ {Sep, Slash})) \ {<<>>}
BY ComponentsIs

\* One more character splits what was there no further.
LEMMA ComponentsAppend ==
  ASSUME NEW C, NEW s \in Seq(C), NEW x \in C
  PROVE  Components(Append(s, x)) = Split(Components(s), x)
<1> PICK N : N = Len(s)
  OBVIOUS
<1> PICK t : t = Append(s, x)
  OBVIOUS
<1>1. N \in Nat /\ t \in Seq(C) /\ Len(t) = N + 1 /\ t[N + 1] = x /\ \A n \in 1..N : t[n] = s[n]
  BY AppendProperties
<1>2. PICK f \in [0..Len(s) -> Seq(Seq(C \ {Sep, Slash})) \ {<<>>}] :
        /\ f[0] = << <<>> >> /\ f[Len(s)] = Components(s)
        /\ \A n \in 1..Len(s) : f[n] = Split(f[n - 1], s[n])
  BY ComponentsIs
<1>3. PICK g \in [0..Len(t) -> Seq(Seq(C \ {Sep, Slash})) \ {<<>>}] :
        /\ g[0] = << <<>> >> /\ g[Len(t)] = Components(t)
        /\ \A n \in 1..Len(t) : g[n] = Split(g[n - 1], t[n])
  BY ONLY <1>1, ComponentsIs
<1>4. \A n \in 0..(N - 1) : f[n] = g[n] => f[n + 1] = g[n + 1]
  <2> SUFFICES ASSUME NEW n \in 0..(N - 1), f[n] = g[n] PROVE f[n + 1] = g[n + 1]
    OBVIOUS
  <2>1. n + 1 \in 1..N /\ n + 1 \in 1..(N + 1) /\ (n + 1) - 1 = n
    BY <1>1
  <2>2. f[n + 1] = Split(f[n], s[n + 1]) /\ g[n + 1] = Split(g[n], t[n + 1])
    BY <1>2, <1>3, <2>1
  <2> QED  BY <1>1, <2>1, <2>2
<1>5. f[N] = g[N]
  <2>1. f[0] = g[0]
    BY <1>2, <1>3
  <2> DEFINE T == {n \in 0..N : f[n] = g[n]}
  <2>2. 0 \in T
    BY <1>1, <2>1
  <2>3. ASSUME NEW n \in 0..(N - 1), n \in T PROVE n + 1 \in T
    BY <1>1, <1>4, <2>3
  <2> HIDE DEF T
  <2>4. 0..N \subseteq T
    BY <1>1, <2>2, <2>3, Upwards
  <2> QED  BY <1>1, <2>4 DEF T
<1>6. g[N + 1] = Split(g[N], t[N + 1])
  <2>1. N + 1 \in 1..Len(t) /\ (N + 1) - 1 = N
    BY <1>1
  <2> QED  BY <1>3, <2>1
<1> QED  BY <1>1, <1>2, <1>3, <1>5, <1>6

\* The empty text is one component.
LEMMA ComponentsOfNothing == Components(<<>>) = << <<>> >>
<1> PICK C : C = {}
  OBVIOUS
<1>1. <<>> \in Seq(C) /\ Len(<<>>) = 0
  BY EmptySeq
<1> PICK s \in Seq(C) : s = <<>> /\ Len(s) = 0
  BY <1>1
<1>2. PICK f \in [0..Len(s) -> Seq(Seq(C \ {Sep, Slash})) \ {<<>>}] :
        /\ f[0] = << <<>> >> /\ f[Len(s)] = Components(s)
        /\ \A n \in 1..Len(s) : f[n] = Split(f[n - 1], s[n])
  BY ONLY ComponentsIs
<1> QED  BY <1>1, <1>2


\* Where one more component leads.
Onwards(q, x) ==
    CASE x \in {<<>>, <<".">>} -> q
      [] x = <<"..">> -> IF q = <<>> THEN <<>> ELSE Front(q)
      [] OTHER -> Append(q, x)

\* Walk goes through the components one by one.
LEMMA WalkIs ==
  ASSUME NEW D, NEW parts \in Seq(D)
  PROVE  \E f \in [0..Len(parts) -> Seq(D \ {<<>>, <<".">>, <<"..">>})] :
           /\ f[0] = <<>> /\ f[Len(parts)] = Walk(parts)
           /\ \A n \in 1..Len(parts) : f[n] = Onwards(f[n - 1], parts[n])
<1> DEFINE N == Len(parts)
           X == Seq(D \ {<<>>, <<".">>, <<"..">>})
           One(q, n) == Onwards(q, parts[n])
           Whole(f) == [n \in 0..N |-> IF n = 0 THEN <<>> ELSE One(f[n - 1], n)]
           step == [n \in 1..N |-> [q \in X |-> One(q, n)]]
<1>1. N \in Nat /\ <<>> \in X
  BY LenProperties
<1>2. \A n \in 1..N : \A q \in X : One(q, n) \in X
  <2> SUFFICES ASSUME NEW n \in 1..N, NEW q \in X PROVE One(q, n) \in X
    OBVIOUS
  <2>1. parts[n] \in D
    BY ElementOfSeq
  <2>2. q # <<>> => Front(q) \in X
    BY EmptySeq DEF Front
  <2> QED  BY <2>1, <2>2, AppendProperties DEF Onwards
<1>3. PICK f \in [0..N -> X] : f[0] = <<>> /\ \A n \in 1..N : f[n] = One(f[n - 1], n)
  <2> HIDE DEF N, X, One
  <2>1. step \in [1..N -> [X -> X]]
    BY <1>2
  <2> HIDE DEF step
  <2>2. PICK Q, e, g, m : Q = X /\ e = <<>> /\ g = step /\ m = N
    OBVIOUS
  <2>3. e \in Q /\ m \in Nat /\ g \in [1..m -> [Q -> Q]]
    BY <1>1, <2>1, <2>2
  <2>4. PICK f \in [0..m -> Q] : f[0] = e /\ \A n \in 1..m : f[n] = g[n][f[n - 1]]
    BY ONLY <2>3, Recursion
  <2>5. \A n \in 1..N : f[n] = One(f[n - 1], n)
    BY <1>1, <2>2, <2>4 DEF step
  <2> QED  BY <2>2, <2>4, <2>5
<1>4. f = Whole(f)
  <2>1. \A n \in 1..N : f[n] = One(f[n - 1], n)
    BY <1>3 DEF One
  <2> HIDE DEF N, X, One
  <2> QED  BY <1>1, <1>3, <2>1
<1> DEFINE h == CHOOSE g : g = Whole(g)
<1>5. h = Whole(h)
  <2> HIDE DEF Whole
  <2> QED  BY <1>4
<1>6. Walk(parts) = h[N]
  BY DEF Walk, Onwards
<1> HIDE DEF h, X
<1>7. 0..N \subseteq {n \in 0..N : h[n] = f[n]}
  <2> DEFINE T == {n \in 0..N : h[n] = f[n]}
  <2>1. 0 \in T
    BY <1>1, <1>3, <1>5
  <2>2. ASSUME NEW n \in 0..(N - 1), n \in T PROVE n + 1 \in T
    <3>1. n + 1 \in 1..N /\ (n + 1) - 1 = n /\ n + 1 # 0 /\ n + 1 \in 0..N
      BY <1>1
    <3>2. h[n + 1] = One(h[n], n + 1)
      BY <1>5, <3>1
    <3>3. f[n + 1] = One(f[n], n + 1)
      BY <1>3, <3>1
    <3> HIDE DEF One, N
    <3> QED  BY <2>2, <3>1, <3>2, <3>3
  <2> HIDE DEF T, N
  <2>3. 0..N \subseteq T
    BY <1>1, <2>1, <2>2, Upwards
  <2> QED  BY <2>3 DEF T
<1> HIDE DEF N
<1>8. f[N] = Walk(parts)
  BY <1>1, <1>6, <1>7
<1> QED  BY <1>3, <1>8 DEF X, N

\* No component of a walk is empty, a dot or two dots.
LEMMA WalkIsClean ==
  ASSUME NEW D, NEW parts \in Seq(D)
  PROVE  Walk(parts) \in Seq(D \ {<<>>, <<".">>, <<"..">>})
BY WalkIs

\* One more component is one more step of the walk.
LEMMA WalkAppend ==
  ASSUME NEW D, NEW p \in Seq(D), NEW x \in D
  PROVE  Walk(Append(p, x)) = Onwards(Walk(p), x)
<1> PICK N : N = Len(p)
  OBVIOUS
<1> PICK t : t = Append(p, x)
  OBVIOUS
<1>1. N \in Nat /\ t \in Seq(D) /\ Len(t) = N + 1 /\ t[N + 1] = x /\ \A n \in 1..N : t[n] = p[n]
  BY AppendProperties
<1>2. PICK f \in [0..Len(p) -> Seq(D \ {<<>>, <<".">>, <<"..">>})] :
        /\ f[0] = <<>> /\ f[Len(p)] = Walk(p)
        /\ \A n \in 1..Len(p) : f[n] = Onwards(f[n - 1], p[n])
  BY WalkIs
<1>3. PICK g \in [0..Len(t) -> Seq(D \ {<<>>, <<".">>, <<"..">>})] :
        /\ g[0] = <<>> /\ g[Len(t)] = Walk(t)
        /\ \A n \in 1..Len(t) : g[n] = Onwards(g[n - 1], t[n])
  BY ONLY <1>1, WalkIs
<1>4. \A n \in 0..(N - 1) : f[n] = g[n] => f[n + 1] = g[n + 1]
  <2> SUFFICES ASSUME NEW n \in 0..(N - 1), f[n] = g[n] PROVE f[n + 1] = g[n + 1]
    OBVIOUS
  <2>1. n + 1 \in 1..N /\ n + 1 \in 1..(N + 1) /\ (n + 1) - 1 = n
    BY <1>1
  <2>2. f[n + 1] = Onwards(f[n], p[n + 1]) /\ g[n + 1] = Onwards(g[n], t[n + 1])
    BY <1>2, <1>3, <2>1
  <2> QED  BY <1>1, <2>1, <2>2
<1>5. f[N] = g[N]
  <2>1. f[0] = g[0]
    BY <1>2, <1>3
  <2> DEFINE T == {n \in 0..N : f[n] = g[n]}
  <2>2. 0 \in T
    BY <1>1, <2>1
  <2>3. ASSUME NEW n \in 0..(N - 1), n \in T PROVE n + 1 \in T
    BY <1>1, <1>4, <2>3
  <2> HIDE DEF T
  <2>4. 0..N \subseteq T
    BY <1>1, <2>2, <2>3, Upwards
  <2> QED  BY <1>1, <2>4 DEF T
<1>6. g[N + 1] = Onwards(g[N], t[N + 1])
  <2>1. N + 1 \in 1..Len(t) /\ (N + 1) - 1 = N
    BY <1>1
  <2> QED  BY <1>3, <2>1
<1> QED  BY <1>1, <1>2, <1>3, <1>5, <1>6

\* No component leads nowhere.
LEMMA WalkOfNothing == Walk(<<>>) = <<>>
<1> PICK D : D = {}
  OBVIOUS
<1>1. <<>> \in Seq(D) /\ Len(<<>>) = 0
  BY EmptySeq
<1> PICK p \in Seq(D) : p = <<>> /\ Len(p) = 0
  BY <1>1
<1>2. PICK f \in [0..Len(p) -> Seq(D \ {<<>>, <<".">>, <<"..">>})] :
        /\ f[0] = <<>> /\ f[Len(p)] = Walk(p)
        /\ \A n \in 1..Len(p) : f[n] = Onwards(f[n - 1], p[n])
  BY ONLY WalkIs
<1> QED  BY <1>1, <1>2

\* Any path without the components that Clean takes away is clean.
LEMMA CleanIn ==
  ASSUME NEW D, NEW p \in Seq(D \ {<<>>, <<".">>, <<"..">>}), p # <<>>
  PROVE  IsCleanPath(p) /\ Len(p) \in Nat \ {0}
BY DEF IsCleanPath, ToSet

\* What Clean returns of a text that begins with a drive.
LEMMA CleanIsClean ==
  ASSUME NEW text, IsText(text)
  PROVE  IsCleanPath(Clean(text)) /\ Len(Clean(text)) \in Nat
<1> DEFINE C == ToSet(text)
           w == Walk(Components(Tail(text)))
           d == <<text[1]>>
<1>1. text \in Seq(C) /\ text # <<>> /\ Tail(text) \in Seq(C)
  BY DEF IsText
<1>2. Components(Tail(text)) \in Seq(Seq(C))
  <2>1. Components(Tail(text)) \in Seq(Seq(C \ {Sep, Slash}))
    BY <1>1, ComponentsAreTexts
  <2>2. Seq(C \ {Sep, Slash}) \subseteq Seq(C)
    BY SeqMonotonic
  <2> HIDE DEF C
  <2> QED  BY <2>1, <2>2, SeqMonotonic
<1>3. w \in Seq(Seq(C) \ {<<>>, <<".">>, <<"..">>})
  BY <1>2, WalkIsClean
<1>4. d \in Seq(C) \ {<<>>, <<".">>, <<"..">>}
  BY <1>1, EmptySeq, ElementOfSeq DEF IsText
<1>5. Clean(text) = <<d>> \o w
  BY DEF Clean
<1> HIDE DEF w, d, C
<1>6. /\ Clean(text) \in Seq(Seq(C) \ {<<>>, <<".">>, <<"..">>})
      /\ Clean(text) # <<>>
  BY <1>3, <1>4, <1>5
<1> QED  BY <1>6, CleanIn

------------------------------------------------------------------------------
(* One directory inside another.                                           *)

\* A set of numbers below a bound has a greatest element.
LEMMA Greatest ==
  ASSUME NEW b \in Nat, NEW S \in SUBSET (0..b), S # {}
  PROVE  \E m \in S : \A k \in S : k <= m
<1> DEFINE T == {n \in 0..b : \E k \in S : k >= n}
<1>1. 0 \in T
  <2>1. PICK k \in S : k \in 0..b
    OBVIOUS
  <2> QED  BY <2>1
<1> SUFFICES ASSUME \A m \in S : \E k \in S : ~(k <= m) PROVE FALSE
  OBVIOUS
<1>2. ASSUME NEW n \in 0..(b - 1), n \in T PROVE n + 1 \in T
  <2>1. PICK k \in S : k >= n
    BY <1>2
  <2>2. PICK m \in S : ~(m <= k)
    OBVIOUS
  <2>3. m >= n + 1 /\ n + 1 \in 0..b
    BY <2>1, <2>2
  <2> QED  BY <2>3
<1>3. 0..b \subseteq T
  <2> HIDE DEF T
  <2> QED  BY <1>1, <1>2, Upwards
<1>4. PICK k \in S : k >= b
  BY <1>3
<1> QED  BY <1>4

\* The first n elements of a sequence.
LEMMA FirstOnes ==
  ASSUME NEW S, NEW s \in Seq(S), NEW n \in Nat, n <= Len(s)
  PROVE  /\ SubSeq(s, 1, n) \in Seq(S) /\ Len(SubSeq(s, 1, n)) = n
         /\ \A i \in 1..n : SubSeq(s, 1, n)[i] = s[i]
OBVIOUS

\* Equal in the first n components but for letter case.
Alike(p, q, n) == \A i \in 1..n : ToLowerPath(p[i]) = ToLowerPath(q[i])

\* What comparing first components tells.
LEMMA PrefixesAlike ==
  ASSUME NEW S, NEW p \in Seq(S), NEW q \in Seq(S), NEW n \in Nat, n <= Len(p), n <= Len(q)
  PROVE  SamePath(SubSeq(p, 1, n), SubSeq(q, 1, n)) <=> Alike(p, q, n)
<1> DEFINE v == SubSeq(p, 1, n)
           w == SubSeq(q, 1, n)
<1>1. v \in Seq(S) /\ Len(v) = n /\ \A i \in 1..n : v[i] = p[i]
  BY FirstOnes
<1>2. w \in Seq(S) /\ Len(w) = n /\ \A i \in 1..n : w[i] = q[i]
  BY FirstOnes
<1> HIDE DEF v, w
<1>3. Len(v) = n /\ Len(w) = n /\ \A i \in 1..n : v[i] = p[i] /\ w[i] = q[i]
  BY <1>1, <1>2
<1>4. SamePath(v, w) <=> \A i \in 1..n : ToLowerPath(v[i]) = ToLowerPath(w[i])
  <2>1. Fold(v) = Fold(w) <=> Len(v) = Len(w) /\ \A i \in 1..Len(v) : ToLowerPath(v[i]) = ToLowerPath(w[i])
    BY <1>1, <1>2, SameFold
  <2> QED  BY <1>3, <2>1 DEF SamePath
<1> QED  BY <1>1, <1>2, <1>3, <1>4 DEF Alike, v, w

\* What comparing whole paths tells.
LEMMA SameAlike ==
  ASSUME NEW S, NEW p \in Seq(S), NEW q \in Seq(S)
  PROVE  SamePath(p, q) <=> Len(p) = Len(q) /\ Alike(p, q, Len(p))
BY SameFold DEF SamePath, Alike

\* What comparing a path with the beginning of another tells.
LEMMA PrefixAlike ==
  ASSUME NEW S, NEW p \in Seq(S), NEW q \in Seq(S)
  PROVE  IsPrefix(Fold(p), Fold(q)) <=> Len(p) <= Len(q) /\ Alike(p, q, Len(p))
<1> DEFINE R == {ToLowerPath(x) : x \in S}
<1>1. PICK f \in Seq(R) : f = Fold(p)
  BY FoldIs
<1>2. PICK g \in Seq(R) : g = Fold(q)
  BY FoldIs
<1> HIDE DEF R
<1>3. /\ Len(f) = Len(p) /\ \A i \in 1..Len(p) : f[i] = ToLowerPath(p[i])
      /\ Len(g) = Len(q) /\ \A i \in 1..Len(q) : g[i] = ToLowerPath(q[i])
  BY <1>1, <1>2, FoldIs
<1>4. Len(f) <= Len(g) => (SubSeq(f, 1, Len(f)) = SubSeq(g, 1, Len(f)) <=> \A i \in 1..Len(f) : f[i] = g[i])
  <2> SUFFICES ASSUME Len(f) <= Len(g)
               PROVE  SubSeq(f, 1, Len(f)) = SubSeq(g, 1, Len(f)) <=> \A i \in 1..Len(f) : f[i] = g[i]
    OBVIOUS
  <2> DEFINE v == SubSeq(f, 1, Len(f))
             w == SubSeq(g, 1, Len(f))
  <2>0. Len(f) \in Nat
    BY LenProperties
  <2>1. v \in Seq(R) /\ Len(v) = Len(f) /\ \A i \in 1..Len(f) : v[i] = f[i]
    BY <2>0, FirstOnes
  <2>2. w \in Seq(R) /\ Len(w) = Len(f) /\ \A i \in 1..Len(f) : w[i] = g[i]
    BY <2>0, FirstOnes
  <2> HIDE DEF v, w
  <2>3. Len(v) = Len(f) /\ Len(w) = Len(f) /\ \A i \in 1..Len(f) : v[i] = f[i] /\ w[i] = g[i]
    BY <2>1, <2>2
  <2>4. v = w <=> \A i \in 1..Len(f) : v[i] = w[i]
    BY <2>1, <2>2, <2>3, SeqEqual
  <2> QED  BY <2>1, <2>2, <2>3, <2>4 DEF v, w
<1> QED  BY <1>1, <1>2, <1>3, <1>4 DEF IsPrefix, Alike

\* ContainsPath is what its name says: neither path goes up.
LEMMA ContainsIsPrefix ==
  ASSUME NEW S, NEW p \in Seq(S), NEW q \in Seq(S), p # <<>>,
         \A n \in 1..Len(q) : q[n] # <<"..">>
  PROVE  ContainsPath(p, q) <=> IsPrefix(Fold(p), Fold(q))
<1> DEFINE shared == {n \in 0..Len(p) : n <= Len(q) /\ SamePath(SubSeq(p, 1, n), SubSeq(q, 1, n))}
           n == CHOOSE m \in shared : \A k \in shared : k <= m
           up == <<"..">>
           rel == [i \in 1..(Len(p) - n) |-> up] \o After(q, n)
<1>1. Len(p) \in Nat \ {0} /\ Len(q) \in Nat
  BY LenProperties, EmptySeq
<1>2. \A k \in 0..Len(p) : k \in shared <=> k <= Len(q) /\ Alike(p, q, k)
  BY <1>1, PrefixesAlike
<1>3. n \in shared /\ \A k \in shared : k <= n
  <2>1. shared \subseteq 0..Len(p) /\ 0 \in shared
    BY <1>1, <1>2 DEF Alike
  <2> HIDE DEF shared
  <2>2. \E m \in shared : \A k \in shared : k <= m
    BY <1>1, <2>1, Greatest
  <2> QED  BY <2>2
<1>4. Rel(p, q) = IF n = 0 THEN <<up>> ELSE rel
  BY DEF Rel
<1>5. IsPrefix(Fold(p), Fold(q)) <=> n = Len(p)
  <2>1. IsPrefix(Fold(p), Fold(q)) <=> Len(p) \in shared
    BY <1>1, <1>2, PrefixAlike
  <2>2. \A k \in shared : k \in 0..Len(p)
    OBVIOUS
  <2> HIDE DEF shared
  <2>3. Len(p) \in shared => n = Len(p)
    BY <1>1, <1>3, <2>2
  <2> QED  BY <1>3, <2>1, <2>3
<1>6. n \in 0..Len(p) /\ n <= Len(q)
  <2>1. \A k \in shared : k \in 0..Len(p) /\ k <= Len(q)
    OBVIOUS
  <2> HIDE DEF shared, n
  <2> QED  BY <1>3, <2>1
<1> HIDE DEF n, shared, up
<1>7. /\ After(q, n) \in Seq(S) /\ Len(After(q, n)) = Len(q) - n
      /\ \A i \in 1..(Len(q) - n) : After(q, n)[i] = q[i + n]
  BY <1>1, <1>6 DEF After
<1>8. IsPrefix(<<up>>, Rel(p, q)) <=> n # Len(p)
  <2>1. CASE n = 0
    <3>1. Rel(p, q) = <<up>>
      BY <1>4, <2>1
    <3>2. IsPrefix(<<up>>, <<up>>)
      BY DEF IsPrefix
    <3> QED  BY <1>1, <2>1, <3>1, <3>2
  <2>2. CASE n # 0 /\ n # Len(p)
    <3>1. PICK r : r = [i \in 1..(Len(p) - n) |-> up]
      OBVIOUS
    <3>2. r \in Seq(S \cup {up}) /\ Len(r) = Len(p) - n /\ Len(r) >= 1 /\ r[1] = up
      BY <1>1, <1>6, <2>2, <3>1
    <3>3. PICK a \in Seq(S \cup {up}) : a = After(q, n)
      BY <1>7, SeqMonotonic
    <3>4. PICK v \in Seq(S \cup {up}) : v = r \o a
      BY <3>2, ConcatProperties
    <3>5. Len(v) \in Nat /\ Len(v) >= 1 /\ v[1] = up
      BY <3>2, <3>3, <3>4, LenProperties
    <3>6. IsPrefix(<<up>>, v)
      BY <3>5 DEF IsPrefix
    <3> QED  BY <1>4, <2>2, <3>1, <3>3, <3>4, <3>6
  <2>3. CASE n = Len(p)
    <3>1. [i \in 1..(Len(p) - n) |-> up] = <<>>
      BY <1>1, <2>3
    <3>2. rel = After(q, n)
      <4>1. PICK a \in Seq(S) : a = After(q, n)
        BY <1>7
      <4>2. <<>> \o a = a
        BY <4>1, ConcatEmptySeq
      <4> QED  BY <3>1, <4>1, <4>2
    <3>3. ASSUME IsPrefix(<<up>>, After(q, n)) PROVE FALSE
      <4>1. PICK a \in Seq(S) : a = After(q, n)
        BY <1>7
      <4>2. Len(a) >= 1 /\ a[1] = up
        BY <3>3, <4>1 DEF IsPrefix
      <4>3. q[1 + n] = up /\ 1 + n \in 1..Len(q)
        BY <1>1, <1>6, <1>7, <4>1, <4>2
      <4> QED  BY <4>3 DEF up
    <3> QED  BY <1>1, <1>4, <2>3, <3>2, <3>3
  <2> QED  BY <2>1, <2>2, <2>3
<1>9. SamePath(p, q) => IsPrefix(Fold(p), Fold(q))
  BY SameAlike, PrefixAlike
<1> QED  BY <1>5, <1>8, <1>9 DEF ContainsPath, up

------------------------------------------------------------------------------
(* Links on the way.                                                       *)

\* Following links stays among the components there are.
LEMMA ResolvedIn ==
  ASSUME NEW S, NEW L, LinksIn(L, S), NEW p \in Seq(S)
  PROVE  Resolved(L, p) \in Seq(S)
<1>1. PICK f \in [0..Len(p) -> Seq(S)] :
        /\ f[0] = <<>> /\ f[Len(p)] = Resolved(L, p)
        /\ \A n \in 1..Len(p) : f[n] = Followed(L, Append(f[n - 1], p[n]))
  BY ResolvedIs
<1>2. Len(p) \in 0..Len(p)
  BY LenProperties
<1> QED  BY <1>1, <1>2

\* Appending and concatenating.
LEMMA AppendToConcat ==
  ASSUME NEW S, NEW a \in Seq(S), NEW b \in Seq(S), NEW x \in S
  PROVE  a \o Append(b, x) = Append(a \o b, x) /\ a \o b \in Seq(S) /\ a \o <<>> = a
OBVIOUS

\* The elements behind the first r, one more each time.
LEMMA MiddleGrows ==
  ASSUME NEW S, NEW t \in Seq(S), NEW r \in Nat, NEW k \in Nat, r + k + 1 <= Len(t)
  PROVE  /\ SubSeq(t, r + 1, r + k) \in Seq(S) /\ t[r + k + 1] \in S
         /\ SubSeq(t, r + 1, r + k + 1) = Append(SubSeq(t, r + 1, r + k), t[r + k + 1])
OBVIOUS

\* The entry of the place one step behind the n-th.
LEMMA EntryIs ==
  ASSUME NEW S, NEW t \in Seq(S), NEW n \in 0..(Len(t) - 1)
  PROVE  Entry(SubSeq(t, 1, n + 1)) = Fold(Append(Resolved(Links, SubSeq(t, 1, n)), t[n + 1]))
<1>1. Front(SubSeq(t, 1, n + 1)) = SubSeq(t, 1, n) /\ Last(SubSeq(t, 1, n + 1)) = t[n + 1]
  BY DEF Front, Last
<1> QED  BY <1>1 DEF Entry, Real

\* None of the b entries of t behind the first r is a link.
NoLinks(L, t, r, b) ==
    \A m \in 0..(b - 1) : Fold(Append(Resolved(L, SubSeq(t, 1, r + m)), t[r + m + 1])) \notin L

\* A path whose last components are no links leads to where the ones above lead,
\* and these components below.
LEMMA WithoutLinks ==
  ASSUME NEW S, NEW L, LinksIn(L, S), NEW root \in Seq(S), NEW t \in Seq(S),
         Len(root) <= Len(t), SamePath(root, SubSeq(t, 1, Len(root))),
         NEW b \in 0..(Len(t) - Len(root)), NoLinks(L, t, Len(root), b)
  PROVE  Fold(Resolved(L, SubSeq(t, 1, Len(root) + b)))
            = Fold(Resolved(L, root) \o SubSeq(t, Len(root) + 1, Len(root) + b))
<1> DEFINE r == Len(root)
           R == Resolved(L, root)
           To(k) == Resolved(L, SubSeq(t, 1, r + k))
           Step(k) == SubSeq(t, r + 1, r + k)
           T == {k \in 0..b : Fold(To(k)) = Fold(R \o Step(k))}
<1>1. r \in Nat /\ Len(t) \in Nat /\ b \in Nat
  BY LenProperties
<1>2. R \in Seq(S)
  BY ResolvedIn
<1>3. 0 \in T
  <2>1. SubSeq(t, 1, r) \in Seq(S) /\ Fold(root) = Fold(SubSeq(t, 1, r))
    BY <1>1, FirstOnes DEF SamePath
  <2>2. Fold(R) = Fold(Resolved(L, SubSeq(t, 1, r)))
    <3> PICK q \in Seq(S) : q = SubSeq(t, 1, r)
      BY <2>1
    <3>1. Fold(root) = Fold(q)
      BY <2>1
    <3> QED  BY <3>1, ResolvedIgnoresCase
  <2>3. Step(0) = <<>> /\ r + 0 = r /\ 0 \in 0..b
    BY <1>1
  <2>4. R \o <<>> = R
    <3> HIDE DEF R
    <3> QED  BY <1>2, ConcatEmptySeq
  <2>5. Fold(To(0)) = Fold(R \o Step(0))
    <3> HIDE DEF R, Step
    <3> QED  BY <2>2, <2>3, <2>4
  <2> QED  BY <2>3, <2>5
<1>4. ASSUME NEW k \in 0..(b - 1), k \in T PROVE k + 1 \in T
  <2> DEFINE x == t[r + k + 1]
  <2>1. r + k \in 0..(Len(t) - 1) /\ r + (k + 1) = r + k + 1 /\ k + 1 \in 0..b
    BY <1>1
  <2>2. To(k) \in Seq(S) /\ x \in S /\ To(k + 1) = Followed(L, Append(To(k), x))
    BY <2>1, ResolvedPrefix
  <2>3. Step(k) \in Seq(S) /\ Step(k + 1) = Append(Step(k), x)
    BY <1>1, <2>1, MiddleGrows
  <2>4. Fold(Append(To(k), x)) \notin L
    BY DEF NoLinks
  <2>5. To(k + 1) = Append(To(k), x)
    BY <2>2, <2>4 DEF Followed
  <2> HIDE DEF To, Step, x, R
  <2>6. R \o Step(k + 1) = Append(R \o Step(k), x) /\ R \o Step(k) \in Seq(S)
    <3>1. PICK u \in Seq(S), v \in Seq(S), y \in S : u = R /\ v = Step(k) /\ y = x
      BY <1>2, <2>2, <2>3
    <3>2. u \o Append(v, y) = Append(u \o v, y) /\ u \o v \in Seq(S)
      BY AppendToConcat
    <3> QED  BY <2>3, <3>1, <3>2
  <2>7. Fold(To(k + 1)) = Append(Fold(To(k)), ToLowerPath(x))
    BY <2>2, <2>5, FoldOfAppend
  <2>8. Fold(R \o Step(k + 1)) = Append(Fold(R \o Step(k)), ToLowerPath(x))
    BY <2>2, <2>6, FoldOfAppend
  <2> QED  BY <1>4, <2>1, <2>7, <2>8
<1>5. b \in T
  <2> HIDE DEF T, r
  <2>1. 0..b \subseteq T
    BY <1>1, <1>3, <1>4, Upwards
  <2> QED  BY <1>1, <2>1
<1> QED  BY <1>5

------------------------------------------------------------------------------
(* Deletions.                                                              *)

\* The targets DeleteFile has not refused at once.
Asked == {t \in {Clean(text) : text \in Targets} : Deletable(t)}

\* Components to which the target, the root and all links keep.
LEMMA TargetNames ==
  ASSUME NEW t, IsCleanPath(t)
  PROVE  \E S : /\ t \in Seq(S) /\ Root \in Seq(S) /\ LinksIn(Links, S) /\ Root # <<>>
                /\ \A n \in 1..Len(t) : t[n] # <<"..">>
                /\ Len(t) \in Nat \ {0} /\ Len(Root) \in Nat \ {0}
<1>1. \A p \in {t, Root} : IsCleanPath(p)
  BY PathAssumption
<1> PICK L : L = Links
  OBVIOUS
<1>2. L \subseteq DOMAIN LinkTo
  BY DEF Links
<1> PICK S : S = Names({t, Root})
  OBVIOUS
<1>3. /\ t \in Seq(S) /\ Root \in Seq(S) /\ LinksIn(Links, S) /\ <<"..">> \notin S
      /\ Len(t) \in Nat \ {0} /\ Len(Root) \in Nat \ {0}
  BY <1>1, <1>2, NamesAre
<1> QED  BY <1>3, ElementOfSeq, EmptySeq

\* Every target lies below the root.
LEMMA AskedLiesBelow ==
  ASSUME NEW t \in Asked
  PROVE  /\ IsCleanPath(t) /\ Len(t) \in Nat /\ Len(Root) \in Nat
         /\ Len(Root) < Len(t) /\ SamePath(Root, SubSeq(t, 1, Len(Root)))
         /\ IsStrictPrefix(Fold(Root), Fold(t))
<1>1. IsCleanPath(t) /\ Deletable(t)
  BY CleanIsClean, PathAssumption DEF Asked
<1>2. PICK S : /\ t \in Seq(S) /\ Root \in Seq(S) /\ LinksIn(Links, S) /\ Root # <<>>
               /\ \A n \in 1..Len(t) : t[n] # <<"..">>
               /\ Len(t) \in Nat \ {0} /\ Len(Root) \in Nat \ {0}
  BY <1>1, TargetNames
<1>3. IsPrefix(Fold(Root), Fold(t)) /\ ~SamePath(Root, t)
  BY <1>1, <1>2, ContainsIsPrefix DEF Deletable
<1>4. Len(Root) <= Len(t) /\ Alike(Root, t, Len(Root))
  BY <1>2, <1>3, PrefixAlike
<1>5. Len(Root) # Len(t)
  BY <1>2, <1>3, <1>4, SameAlike
<1>6. SamePath(SubSeq(Root, 1, Len(Root)), SubSeq(t, 1, Len(Root)))
  BY <1>2, <1>4, PrefixesAlike
<1>7. SubSeq(Root, 1, Len(Root)) = Root
  BY <1>2
<1>8. IsStrictPrefix(Fold(Root), Fold(t))
  BY <1>3 DEF IsStrictPrefix, SamePath
<1>9. SamePath(Root, SubSeq(t, 1, Len(Root)))
  BY <1>6, <1>7
<1> QED  BY <1>1, <1>2, <1>4, <1>5, <1>8, <1>9

\* What is left of a step is in the tree, and no link.
LEMMA NoneOrLink ==
  ASSUME NEW place, KindAt(place) \notin {"none", "link"}
  PROVE  place \notin Links
BY DEF KindAt, Links

\* A target no parent of which is a link lies below where the root leads.
LEMMA EntryIsBelowRoot ==
  ASSUME NEW t \in Asked,
         \A m \in 1..ParentParts(t) : Lstat(SubSeq(t, 1, Len(Root) + m)) \notin {"none", "link"}
  PROVE  Entry(t) = Fold(Real(Root) \o After(t, Len(Root)))
<1> DEFINE r == Len(Root)
           b == ParentParts(t)
           To(m) == Resolved(Links, SubSeq(t, 1, r + m))
<1>0. PICK S : t \in Seq(S) /\ Root \in Seq(S) /\ LinksIn(Links, S)
  BY AskedLiesBelow, TargetNames
<1>1. /\ t \in Seq(S) /\ Root \in Seq(S) /\ LinksIn(Links, S)
      /\ Len(t) \in Nat /\ r \in Nat /\ r < Len(t) /\ SamePath(Root, SubSeq(t, 1, r))
  BY <1>0, AskedLiesBelow
<1>2. b \in 0..(Len(t) - r) /\ r + b + 1 = Len(t) /\ r <= Len(t)
  BY <1>1 DEF ParentParts
<1>3. ASSUME NEW m \in 0..(b - 1) PROVE Fold(Append(To(m), t[r + m + 1])) \notin Links
  <2>1. m + 1 \in 1..b /\ r + m \in 0..(Len(t) - 1) /\ r + (m + 1) = r + m + 1
    BY <1>1, <1>2
  <2>2. Entry(SubSeq(t, 1, r + m + 1)) = Fold(Append(To(m), t[r + m + 1]))
    BY <1>1, <2>1, EntryIs
  <2>3. Lstat(SubSeq(t, 1, r + m + 1)) \notin {"none", "link"}
    BY <2>1
  <2> QED  BY <2>2, <2>3, NoneOrLink DEF Lstat
<1>4. Fold(To(b)) = Fold(Real(Root) \o SubSeq(t, r + 1, r + b))
  <2>1. Fold(Resolved(Links, SubSeq(t, 1, r + b))) = Fold(Resolved(Links, Root) \o SubSeq(t, r + 1, r + b))
    <3> PICK L : L = Links
      OBVIOUS
    <3>1. LinksIn(L, S)
      BY <1>1
    <3>2. NoLinks(L, t, r, b)
      BY <1>3 DEF NoLinks
    <3> HIDE DEF b
    <3>3. Fold(Resolved(L, SubSeq(t, 1, Len(Root) + b)))
             = Fold(Resolved(L, Root) \o SubSeq(t, Len(Root) + 1, Len(Root) + b))
      BY <1>1, <1>2, <3>1, <3>2, WithoutLinks
    <3> QED  BY <3>3
  <2> QED  BY <2>1 DEF Real
<1>5. Entry(t) = Fold(Append(To(b), t[r + b + 1]))
  <2>1. r + b \in 0..(Len(t) - 1) /\ SubSeq(t, 1, r + b + 1) = t
    BY <1>1, <1>2
  <2>2. Entry(SubSeq(t, 1, r + b + 1)) = Fold(Append(To(b), t[r + b + 1]))
    BY <1>1, <2>1, EntryIs
  <2> QED  BY <2>1, <2>2
<1> DEFINE R == Real(Root)
           v == SubSeq(t, r + 1, r + b)
           x == t[r + b + 1]
<1>6. R \in Seq(S)
  <2> PICK L : L = Links
    OBVIOUS
  <2>1. LinksIn(L, S)
    BY <1>1
  <2>2. Resolved(L, Root) \in Seq(S)
    BY <1>1, <2>1, ResolvedIn
  <2> QED  BY <2>2 DEF Real
<1>7. To(b) \in Seq(S) /\ x \in S
  <2> PICK L : L = Links
    OBVIOUS
  <2>1. LinksIn(L, S) /\ r + b \in 0..(Len(t) - 1)
    BY <1>1, <1>2
  <2>2. Resolved(L, SubSeq(t, 1, r + b)) \in Seq(S) /\ t[r + b + 1] \in S
    BY <1>1, <2>1, ResolvedPrefix
  <2> QED  BY <2>2
<1>8. v \in Seq(S) /\ After(t, r) = Append(v, x)
  <2>1. SubSeq(t, r + 1, r + b) \in Seq(S) /\ SubSeq(t, r + 1, r + b + 1) = Append(v, x)
    <3> PICK k : k = b
      OBVIOUS
    <3>1. k \in Nat /\ r + k + 1 <= Len(t)
      BY <1>1, <1>2
    <3>2. /\ SubSeq(t, r + 1, r + k) \in Seq(S)
          /\ SubSeq(t, r + 1, r + k + 1) = Append(SubSeq(t, r + 1, r + k), t[r + k + 1])
      BY ONLY <1>1, <3>1, MiddleGrows
    <3> QED  BY <3>2
  <2> QED  BY <1>2, <2>1 DEF After
<1> HIDE DEF To, R, v, x, b
<1>9. R \o After(t, r) = Append(R \o v, x) /\ R \o v \in Seq(S)
  BY <1>6, <1>7, <1>8, AppendToConcat
<1>10. Fold(Append(To(b), x)) = Append(Fold(To(b)), ToLowerPath(x))
  BY <1>7, FoldOfAppend
<1>11. Fold(Append(R \o v, x)) = Append(Fold(R \o v), ToLowerPath(x))
  BY <1>7, <1>9, FoldOfAppend
<1> QED  BY <1>4, <1>5, <1>9, <1>10, <1>11 DEF R, v, x

------------------------------------------------------------------------------
(* What is deleted was checked.                                            *)

Attempts ==
    [pc : {"parents", "target", "remove", "refused", "failed"}, target : Asked,
     seen : Nat, disturbed : BOOLEAN]

\* The first seen entries below the root are there and no links.
Seen(t, seen) == \A m \in 1..seen : Lstat(SubSeq(t, 1, Len(Root) + m)) \notin {"none", "link"}

\* What an attempt has seen in an undisturbed tree is still true.
SeenIsTrue ==
    /\ deletion.pc \in {"target", "remove"} => deletion.seen >= ParentParts(deletion.target)
    /\ ~deletion.disturbed => Seen(deletion.target, deletion.seen)
    /\ ~deletion.disturbed /\ deletion.pc = "remove" => Lstat(deletion.target) = "file"

DeletionInv ==
    /\ DOMAIN tree = DOMAIN Places
    /\ \/ deletion = [pc |-> "idle"]
       \/ deletion \in Attempts /\ SeenIsTrue
       \/ deletion.pc = "removed" /\ DeletesOnlyWhatItChecked

\* No deletion has begun.
LEMMA DeletionInit == Init => DeletionInv
<1> SUFFICES ASSUME Init PROVE DeletionInv
  OBVIOUS
<1>1. \A t \in Trees : DOMAIN t = DOMAIN Places
  BY DEF Trees
<1>2. DOMAIN tree = DOMAIN Places
  BY <1>1 DEF Init
<1> QED  BY <1>2 DEF Init, DeletionInv

\* In an unchanged tree an entry is what it was.
LEMMA LstatStays ==
  ASSUME tree' = tree, NEW CONSTANT p
  PROVE  Lstat(p)' = Lstat(p)
BY DEF Lstat, KindAt, Entry, Real, Links

\* What has been seen in an unchanged tree is still there.
LEMMA SeenStays ==
  ASSUME tree' = tree, NEW CONSTANT t, NEW CONSTANT n
  PROVE  Seen(t, n)' = Seen(t, n)
BY LstatStays DEF Seen

\* A deletion that was right is right in an unchanged tree.
LEMMA RemovalStays ==
  ASSUME DeletesOnlyWhatItChecked, tree' = tree, deletion' = deletion
  PROVE  DeletesOnlyWhatItChecked'
BY DEF DeletesOnlyWhatItChecked, Real, Links

\* So is what an attempt has seen.
LEMMA AttemptStays ==
  ASSUME SeenIsTrue, tree' = tree, deletion' = deletion
  PROVE  SeenIsTrue'
<1> PICK t, n : t = deletion.target /\ n = deletion.seen
  OBVIOUS
<1>1. Lstat(t)' = Lstat(t) /\ Seen(t, n)' = Seen(t, n)
  BY LstatStays, SeenStays
<1> QED  BY <1>1 DEF SeenIsTrue

\* No step of any of the three programs breaks the invariant of deletions.
LEMMA DeletionStep == DeletionInv /\ [Next]_vars => DeletionInv'
<1> SUFFICES ASSUME DeletionInv, [Next]_vars PROVE DeletionInv'
  OBVIOUS
<1>1. CASE tree' = tree /\ deletion' = deletion
  BY <1>1, RemovalStays, AttemptStays DEF DeletionInv
<1>2. ASSUME NEW place, NEW kind, Change(place, kind) PROVE DeletionInv'
  <2>1. deletion \in Attempts
    BY <1>2 DEF DeletionInv, Change
  <2>2. deletion' \in Attempts /\ deletion'.disturbed /\ deletion'.pc = deletion.pc
        /\ deletion'.target = deletion.target /\ deletion'.seen = deletion.seen
    BY <1>2, <2>1 DEF Change, Attempts
  <2>3. DOMAIN tree' = DOMAIN Places
    BY <1>2 DEF DeletionInv, Change
  <2> QED  BY <2>1, <2>2, <2>3, <1>2 DEF DeletionInv, SeenIsTrue, Change
<1>3. ASSUME NEW text \in Targets, DeleteFile(text) PROVE DeletionInv'
  <2>1. Clean(text) \in Asked
    BY <1>3 DEF Asked, DeleteFile
  <2>2. deletion' = [pc |-> "parents", target |-> Clean(text), seen |-> 0, disturbed |-> FALSE]
       /\ tree' = tree
    BY <1>3 DEF DeleteFile
  <2>3. deletion' \in Attempts /\ deletion'.pc = "parents" /\ deletion'.seen = 0
    BY <2>1, <2>2 DEF Attempts
  <2>4. SeenIsTrue'
    BY <2>3 DEF SeenIsTrue, Seen
  <2> QED  BY <2>2, <2>3, <2>4 DEF DeletionInv
<1>4. CASE RejectSymlinkParents
  <2>1. deletion \in Attempts /\ SeenIsTrue /\ tree' = tree /\ DOMAIN tree = DOMAIN Places
        /\ deletion.pc = "parents"
    BY <1>4 DEF DeletionInv, RejectSymlinkParents
  <2> PICK t, n : t = deletion.target /\ n = deletion.seen
    OBVIOUS
  <2>2. n \in Nat /\ t \in Asked /\ \A m : Seen(t, m)' = Seen(t, m)
    BY <2>1, SeenStays DEF Attempts
  <2>3. CASE n >= ParentParts(t)
    <3>1. deletion' = [deletion EXCEPT !.pc = "target"]
      BY <1>4, <2>3 DEF RejectSymlinkParents
    <3>2. deletion' \in Attempts /\ deletion'.pc = "target" /\ deletion'.target = t /\ deletion'.seen = n
          /\ deletion'.disturbed = deletion.disturbed
      BY <2>1, <3>1 DEF Attempts
    <3>3. SeenIsTrue'
      BY <2>1, <2>2, <2>3, <3>2 DEF SeenIsTrue
    <3> QED  BY <2>1, <3>2, <3>3 DEF DeletionInv
  <2>4. CASE ~(n >= ParentParts(t)) /\ Lstat(SubSeq(t, 1, Len(Root) + n + 1)) \in {"none", "link"}
    <3>1. deletion' = [deletion EXCEPT !.pc = "refused"]
      BY <1>4, <2>4 DEF RejectSymlinkParents
    <3>2. deletion' \in Attempts /\ deletion'.pc = "refused" /\ deletion'.target = t /\ deletion'.seen = n
          /\ deletion'.disturbed = deletion.disturbed
      BY <2>1, <3>1 DEF Attempts
    <3>3. SeenIsTrue'
      BY <2>1, <2>2, <3>2 DEF SeenIsTrue
    <3> QED  BY <2>1, <3>2, <3>3 DEF DeletionInv
  <2>5. CASE ~(n >= ParentParts(t)) /\ ~(Lstat(SubSeq(t, 1, Len(Root) + n + 1)) \in {"none", "link"})
    <3>1. deletion' = [deletion EXCEPT !.seen = n + 1]
      BY <1>4, <2>1, <2>5 DEF RejectSymlinkParents, Attempts
    <3>2. deletion' \in Attempts /\ deletion'.pc = "parents" /\ deletion'.target = t /\ deletion'.seen = n + 1
          /\ deletion'.disturbed = deletion.disturbed
      BY <2>1, <2>2, <3>1 DEF Attempts
    <3>3. Seen(t, n) => Seen(t, n + 1)
      <4>1. ASSUME Seen(t, n), NEW m \in 1..(n + 1)
            PROVE  Lstat(SubSeq(t, 1, Len(Root) + m)) \notin {"none", "link"}
        <5>1. CASE m = n + 1
          <6>1. Len(Root) + n + 1 = Len(Root) + m
            BY <2>2, <5>1, AskedLiesBelow
          <6> QED  BY <2>5, <6>1
        <5>2. CASE m # n + 1
          BY <2>2, <4>1, <5>2 DEF Seen
        <5> QED  BY <5>1, <5>2
      <4> QED  BY <4>1 DEF Seen
    <3>4. SeenIsTrue'
      BY <2>1, <2>2, <3>2, <3>3 DEF SeenIsTrue
    <3> QED  BY <2>1, <3>2, <3>4 DEF DeletionInv
  <2> QED  BY <2>3, <2>4, <2>5
<1>5. CASE InspectTarget
  <2>1. deletion \in Attempts /\ SeenIsTrue /\ tree' = tree /\ DOMAIN tree = DOMAIN Places
        /\ deletion.pc = "target"
    BY <1>5 DEF DeletionInv, InspectTarget
  <2> PICK t, n : t = deletion.target /\ n = deletion.seen
    OBVIOUS
  <2>2. Seen(t, n)' = Seen(t, n) /\ Lstat(t)' = Lstat(t)
    BY <2>1, SeenStays, LstatStays
  <2>3. deletion' = [deletion EXCEPT !.pc = IF Lstat(t) = "file" THEN "remove" ELSE "refused"]
    BY <1>5 DEF InspectTarget
  <2>4. /\ deletion' \in Attempts /\ deletion'.target = t /\ deletion'.seen = n
        /\ deletion'.disturbed = deletion.disturbed
        /\ deletion'.pc = IF Lstat(t) = "file" THEN "remove" ELSE "refused"
    BY <2>1, <2>3 DEF Attempts
  <2>5. SeenIsTrue'
    BY <2>1, <2>2, <2>4 DEF SeenIsTrue
  <2> QED  BY <2>1, <2>4, <2>5 DEF DeletionInv
<1>6. CASE RemoveFile
  <2>1. deletion \in Attempts /\ SeenIsTrue /\ DOMAIN tree = DOMAIN Places /\ deletion.pc = "remove"
    BY <1>6 DEF DeletionInv, RemoveFile
  <2> PICK t, n, place, kind : t = deletion.target /\ n = deletion.seen /\ place = Entry(t) /\ kind = Lstat(t)
    OBVIOUS
  <2>2. t \in Asked /\ n \in Nat /\ deletion.disturbed \in BOOLEAN
    BY <2>1 DEF Attempts
  <2>3. CASE deletion' = [deletion EXCEPT !.pc = "failed"] /\ tree' = tree
    <3>1. deletion' \in Attempts /\ deletion'.pc = "failed" /\ deletion'.target = t /\ deletion'.seen = n
          /\ deletion'.disturbed = deletion.disturbed
      BY <2>1, <2>3 DEF Attempts
    <3>2. Seen(t, n)' = Seen(t, n)
      BY <2>3, SeenStays
    <3>3. SeenIsTrue'
      BY <2>1, <3>1, <3>2 DEF SeenIsTrue
    <3> QED  BY <2>1, <2>3, <3>1, <3>3 DEF DeletionInv
  <2>4. CASE /\ tree' = [tree EXCEPT ![place] = "none"]
             /\ deletion' = [pc |-> "removed", target |-> t, place |-> place,
                             kind |-> kind, disturbed |-> deletion.disturbed]
    <3>1. DOMAIN tree' = DOMAIN Places
      BY <2>1, <2>4
    <3>2. IsStrictPrefix(Fold(Root), Fold(t))
      BY <2>2, AskedLiesBelow
    <3>3. ASSUME ~deletion.disturbed
          PROVE  kind = "file" /\ place = Fold(Real(Root) \o After(t, Len(Root))) /\ Links' = Links
      <4>1. kind = "file" /\ Seen(t, n) /\ n >= ParentParts(t)
        BY <2>1, <3>3 DEF SeenIsTrue
      <4>2. \A m \in 1..ParentParts(t) : Lstat(SubSeq(t, 1, Len(Root) + m)) \notin {"none", "link"}
        <5>1. ParentParts(t) \in Int
          BY <2>2, AskedLiesBelow DEF ParentParts
        <5> QED  BY <2>2, <4>1, <5>1 DEF Seen
      <4>3. place = Fold(Real(Root) \o After(t, Len(Root)))
        BY <2>2, <4>2, EntryIsBelowRoot
      <4>4. tree[place] = "file"
        BY <4>1 DEF Lstat, KindAt
      <4>5. \A p \in DOMAIN LinkTo : p \in DOMAIN tree
        BY <2>1, PathAssumption
      <4>6. \A p \in DOMAIN tree : tree'[p] = "link" <=> tree[p] = "link"
        BY <2>4, <4>4
      <4>7. Links' = Links
        BY <4>5, <4>6 DEF Links
      <4> QED  BY <4>1, <4>3, <4>7
    <3>4. DeletesOnlyWhatItChecked'
      BY <2>4, <3>2, <3>3 DEF DeletesOnlyWhatItChecked, Real
    <3>5. deletion'.pc = "removed"
      BY <2>4
    <3> QED  BY <3>1, <3>4, <3>5 DEF DeletionInv
  <2> QED  BY <1>6, <2>3, <2>4 DEF RemoveFile
<1> QED  BY <1>1, <1>2, <1>3, <1>4, <1>5, <1>6
         DEF Next, vars, hostVars, Remount, Judge, Handled, NormalizeAndValidate

\* Whatever the deletion service deletes was asked for by a path below the
\* workspace; in an undisturbed tree it is a regular file, at the place its path
\* names when nothing below the root is a link (DeleteFile, rejectSymlinkParents).
THEOREM DeletionsChecked == Spec => []DeletesOnlyWhatItChecked
<1>1. DeletionInv => DeletesOnlyWhatItChecked
  BY DEF DeletionInv, DeletesOnlyWhatItChecked, Attempts
<1> QED  BY <1>1, DeletionInit, DeletionStep, PTL DEF Spec

------------------------------------------------------------------------------
(* Following a path once is enough.                                        *)

\* A path no part of which is a link leads to itself.
LEMMA LeadsToItself ==
  ASSUME NEW S, NEW L, LinksIn(L, S), NEW p \in Seq(S),
         \A n \in 1..Len(p) : Fold(SubSeq(p, 1, n)) \notin L
  PROVE  Resolved(L, p) = p
<1> DEFINE P(n) == SubSeq(p, 1, n)
           T == {n \in 0..Len(p) : Resolved(L, P(n)) = P(n)}
<1>1. Len(p) \in Nat /\ P(Len(p)) = p /\ P(0) = <<>>
  BY LenProperties
<1>2. 0 \in T
  <2>1. Resolved(L, <<>>) = <<>>
    BY NothingResolved DEF LinksIn
  <2>2. Resolved(L, P(0)) = P(0) /\ 0 \in 0..Len(p)
    <3> HIDE DEF P
    <3> QED  BY <1>1, <2>1
  <2> QED  BY <2>2
<1>3. ASSUME NEW n \in 0..(Len(p) - 1), n \in T PROVE n + 1 \in T
  <2>1. /\ P(n) \in Seq(S) /\ p[n + 1] \in S
        /\ Resolved(L, P(n + 1)) = Followed(L, Append(Resolved(L, P(n)), p[n + 1]))
    BY ResolvedPrefix
  <2>2. P(n + 1) = Append(P(n), p[n + 1]) /\ n + 1 \in 1..Len(p)
    BY <1>1, <2>1
  <2>3. Resolved(L, P(n)) = P(n) /\ Fold(P(n + 1)) \notin L
    BY <1>3, <2>2
  <2> HIDE DEF P
  <2>4. Resolved(L, P(n + 1)) = P(n + 1)
    BY <2>1, <2>2, <2>3 DEF Followed
  <2> QED  BY <2>2, <2>4
<1>4. Len(p) \in T
  <2> HIDE DEF T
  <2>1. 0..Len(p) \subseteq T
    BY <1>1, <1>2, <1>3, Upwards
  <2> QED  BY <1>1, <2>1
<1> QED  BY <1>1, <1>4

\* Where a path leads there is no link left to follow.
LEMMA ResolvedTwice ==
  ASSUME NEW S, NEW L, LinksIn(L, S), NEW p \in Seq(S)
  PROVE  Fold(Resolved(L, Resolved(L, p))) = Fold(Resolved(L, p))
<1> DEFINE R(n) == Resolved(L, SubSeq(p, 1, n))
           P(n) == SubSeq(p, 1, n)
           T == {n \in 0..Len(p) : Fold(Resolved(L, R(n))) = Fold(R(n))}
<1>1. Len(p) \in Nat /\ SubSeq(p, 1, Len(p)) = p /\ P(0) = <<>>
  BY LenProperties
<1>2. 0 \in T
  <2>1. Resolved(L, <<>>) = <<>>
    BY NothingResolved DEF LinksIn
  <2>2. R(0) = <<>> /\ 0 \in 0..Len(p)
    <3>1. R(0) = Resolved(L, P(0))
      OBVIOUS
    <3> HIDE DEF P, R
    <3> QED  BY <1>1, <2>1, <3>1
  <2>3. Fold(Resolved(L, R(0))) = Fold(R(0))
    <3> HIDE DEF R
    <3> QED  BY <2>1, <2>2
  <2> QED  BY <2>2, <2>3
<1>3. ASSUME NEW n \in 0..(Len(p) - 1), n \in T PROVE n + 1 \in T
  <2> DEFINE x == p[n + 1]
             q == Append(R(n), x)
  <2>1. R(n) \in Seq(S) /\ x \in S /\ R(n + 1) = Followed(L, q)
    BY ResolvedPrefix
  <2> SUFFICES Fold(Resolved(L, R(n + 1))) = Fold(R(n + 1))
    BY <1>1
  <2>2. CASE Fold(q) \in L
    <3>1. PICK l \in DOMAIN LinkTo : l = Fold(q) /\ R(n + 1) = LinkTo[l] /\ l \in L
      BY <2>1, <2>2 DEF Followed, LinksIn
    <3>2. LinkTo[l] \in Seq(S)
      BY DEF LinksIn
    <3>3. \A m \in 1..Len(LinkTo[l]) : Fold(SubSeq(LinkTo[l], 1, m)) \notin L
      BY PathAssumption DEF LinksIn
    <3>4. Resolved(L, LinkTo[l]) = LinkTo[l]
      BY <3>2, <3>3, LeadsToItself
    <3> QED  BY <3>1, <3>4
  <2>3. CASE Fold(q) \notin L
    <3>1. R(n + 1) = q
      BY <2>1, <2>3 DEF Followed
    <3> PICK r \in Seq(S) : r = R(n)
      BY <2>1
    <3>2. Resolved(L, r) \in Seq(S) /\ Resolved(L, Append(r, x)) = Followed(L, Append(Resolved(L, r), x))
      BY <2>1, ResolvedAppend
    <3>3. Fold(Append(Resolved(L, r), x)) = Append(Fold(Resolved(L, r)), ToLowerPath(x))
      BY <2>1, <3>2, FoldOfAppend
    <3>4. Fold(Append(r, x)) = Append(Fold(r), ToLowerPath(x))
      BY <2>1, FoldOfAppend
    <3>5. Fold(Resolved(L, r)) = Fold(r)
      BY <1>3
    <3>6. Fold(Append(Resolved(L, r), x)) = Fold(q)
      BY <3>3, <3>4, <3>5
    <3>7. Resolved(L, Append(r, x)) = Append(Resolved(L, r), x)
      BY <2>3, <3>2, <3>6 DEF Followed
    <3>8. Fold(Resolved(L, q)) = Fold(q)
      BY <3>6, <3>7
    <3> QED  BY <3>1, <3>8
  <2> QED  BY <2>2, <2>3
<1>4. Len(p) \in T
  <2> HIDE DEF T
  <2>1. 0..Len(p) \subseteq T
    BY <1>1, <1>2, <1>3, Upwards
  <2> QED  BY <1>1, <2>1
<1> QED  BY <1>1, <1>4

\* Where a clean path leads is a clean path, and the end of the way.
LEMMA CleanLeadsToClean ==
  ASSUME NEW p, IsCleanPath(p), NEW L, L \subseteq DOMAIN LinkTo
  PROVE  IsCleanPath(Resolved(L, p)) /\ Fold(Resolved(L, Resolved(L, p))) = Fold(Resolved(L, p))
<1> PICK S : S = Names({p})
  OBVIOUS
<1>1. p \in Seq(S) /\ Len(p) \in Nat \ {0} /\ LinksIn(L, S)
  BY NamesAre
<1>2. Resolved(L, p) \in Seq(S)
  BY <1>1, ResolvedIn
<1>3. Resolved(L, p) # <<>>
  <2> DEFINE n == Len(p) - 1
  <2>1. n \in 0..(Len(p) - 1) /\ SubSeq(p, 1, n + 1) = p
    BY <1>1
  <2> HIDE DEF n
  <2>2. /\ Resolved(L, SubSeq(p, 1, n)) \in Seq(S) /\ p[n + 1] \in S
        /\ Resolved(L, SubSeq(p, 1, n + 1)) = Followed(L, Append(Resolved(L, SubSeq(p, 1, n)), p[n + 1]))
    BY <1>1, <2>1, ResolvedPrefix
  <2>3. PICK q \in Seq(S), x \in S : q = Resolved(L, SubSeq(p, 1, n)) /\ x = p[n + 1]
    BY <2>2
  <2>4. Append(q, x) # <<>>
    BY AppendProperties
  <2>5. \A l \in DOMAIN LinkTo : LinkTo[l] # <<>>
    BY PathAssumption DEF IsCleanPath
  <2>6. Resolved(L, p) = Followed(L, Append(q, x))
    BY <2>1, <2>2, <2>3
  <2> QED  BY <2>4, <2>5, <2>6, <1>1 DEF Followed, LinksIn
<1>4. S = S \ {<<>>, <<".">>, <<"..">>}
  BY DEF Names, LinkParts, PartsOf
<1>5. IsCleanPath(Resolved(L, p))
  <2> PICK r : r = Resolved(L, p)
    OBVIOUS
  <2>1. r \in Seq(S \ {<<>>, <<".">>, <<"..">>}) /\ r # <<>>
    BY <1>2, <1>3, <1>4
  <2> QED  BY <2>1, CleanIn
<1> QED  BY <1>1, <1>5, ResolvedTwice

\* ContainsPath compares clean paths by their components.
LEMMA CleanContains ==
  ASSUME NEW p, NEW q, IsCleanPath(p), IsCleanPath(q)
  PROVE  ContainsPath(p, q) <=> IsPrefix(Fold(p), Fold(q))
<1> PICK S : S = Names({p, q})
  OBVIOUS
<1>1. p \in Seq(S) /\ q \in Seq(S) /\ <<"..">> \notin S /\ Len(p) \in Nat \ {0}
  BY NamesAre
<1>2. p # <<>> /\ \A n \in 1..Len(q) : q[n] # <<"..">>
  BY <1>1, ElementOfSeq, EmptySeq
<1> QED  BY <1>1, <1>2, ContainsIsPrefix

\* Folding a clean path keeps its length.
LEMMA CleanFold ==
  ASSUME NEW p, IsCleanPath(p)
  PROVE  Len(Fold(p)) = Len(p) /\ (Len(p) = 2 => Fold(p)[2] = ToLowerPath(p[2]))
<1>1. p \in Seq(PartsOf(p))
  BY DEF IsCleanPath, PartsOf
<1>2. Len(Fold(p)) = Len(p) /\ \A n \in 1..Len(p) : Fold(p)[n] = ToLowerPath(p[n])
  BY <1>1, FoldIs
<1> QED  BY <1>2

------------------------------------------------------------------------------
(* What is mounted lies apart.                                             *)

MountsInv ==
    /\ program \in {"runner", "monitor"} => deletion = [pc |-> "idle"]
    /\ mounts # Nil => program = "runner" /\ AcceptedMountsAreApart

\* The flags that name paths name texts, and so do their defaults.
LEMMA ConfigTexts ==
  ASSUME NEW options \in Options, NEW f \in DOMAIN DefaultConfig, ParseConfig(options)[f] # <<>>
  PROVE  IsText(ParseConfig(options)[f])
<1> PICK text : text = ParseConfig(options)[f]
  OBVIOUS
<1>1. CASE f \in DOMAIN options
  <2>1. text = options[f]
    BY <1>1 DEF ParseConfig
  <2>2. \/ \E fs : options \in [fs -> HostPaths \cup {<<>>}]
        \/ \E fs : options \in [fs -> ContainerPaths]
    <3> DEFINE hosts == {"workspace", "home"}
               containers == {"workspaceContainer", "homeContainer", "workdir"}
               H == {[fs -> HostPaths \cup {<<>>}] : fs \in SUBSET hosts}
               C == {[fs -> ContainerPaths] : fs \in SUBSET containers}
    <3>1. Options = (UNION H) \cup (UNION C)
      BY DEF Options
    <3>2. \A F \in H : \E fs : F = [fs -> HostPaths \cup {<<>>}]
      OBVIOUS
    <3>3. \A F \in C : \E fs : F = [fs -> ContainerPaths]
      OBVIOUS
    <3> HIDE DEF H, C
    <3>4. PICK F \in H \cup C : options \in F
      BY <3>1
    <3>5. CASE F \in H
      <4>1. PICK fs : F = [fs -> HostPaths \cup {<<>>}]
        BY <3>2, <3>5
      <4>2. options \in [fs -> HostPaths \cup {<<>>}]
        BY ONLY <3>4, <4>1
      <4> QED  BY ONLY <4>2
    <3>6. CASE F \in C
      <4>1. PICK fs : F = [fs -> ContainerPaths]
        BY <3>3, <3>6
      <4>2. options \in [fs -> ContainerPaths]
        BY ONLY <3>4, <4>1
      <4> QED  BY ONLY <4>2
    <3> QED  BY <3>4, <3>5, <3>6
  <2>3. options[f] \in HostPaths \cup {<<>>} \cup ContainerPaths
    BY <1>1, <2>2
  <2> QED  BY <2>1, <2>3, PathAssumption
<1>2. CASE f \notin DOMAIN options
  <2>1. text = DefaultConfig[f]
    BY <1>2 DEF ParseConfig
  <2>2. \E a, b : text = <<"C:", Sep, a>>
    BY <2>1 DEF DefaultConfig
  <2>3. ASSUME NEW a PROVE IsText(<<"C:", Sep, a>>)
    <3> PICK s : s = <<"C:", Sep, a>>
      OBVIOUS
    <3>1. s \in Seq({"C:", Sep, a}) /\ Len(s) = 3 /\ s[1] = "C:" /\ s # <<>>
      OBVIOUS
    <3>2. s \in Seq(ToSet(s))
      BY <3>1 DEF ToSet
    <3>3. s[1] \notin {Sep, Slash, ".", ".."}
      BY <3>1 DEF Sep, Slash
    <3> QED  BY <3>1, <3>2, <3>3 DEF IsText
  <2> QED  BY <2>2, <2>3
<1> QED  BY <1>1, <1>2

\* Nothing has been mounted.
LEMMA MountsInit == Init => MountsInv
BY DEF Init, MountsInv

\* Mounts that were right are right in an unchanged tree.
LEMMA MountsStay ==
  ASSUME AcceptedMountsAreApart, tree' = tree, mounts' = mounts
  PROVE  AcceptedMountsAreApart'
BY DEF AcceptedMountsAreApart, Real, KindAt, Links

\* A directory the runner accepts is one when its links are followed, and none of
\* those it must not mount.
LEMMA MountableIs ==
  ASSUME NEW text, IsText(text), NEW profile, IsMountable(Real(Clean(text)), profile)
  PROVE  LET p == Fold(Real(Clean(text)))
         IN  /\ Len(p) > 1 /\ KindAt(p) = "dir"
             /\ ~(Len(p) = 2 /\ p[2] \in SystemFolders)
             /\ profile # <<>> => p # Fold(Clean(profile))
<1> PICK r, L : r = Real(Clean(text)) /\ L = Links
  OBVIOUS
<1>1. L \subseteq DOMAIN LinkTo
  BY DEF Links
<1>2. IsCleanPath(r) /\ Fold(Real(r)) = Fold(r)
  BY <1>1, CleanIsClean, CleanLeadsToClean DEF Real
<1>3. Len(Fold(r)) = Len(r) /\ (Len(r) = 2 => Fold(r)[2] = ToLowerPath(r[2]))
  BY <1>2, CleanFold
<1>4. KindAt(Fold(r)) = "dir"
  BY <1>2 DEF IsMountable, Stat
<1> QED  BY <1>3, <1>4 DEF IsMountable, SamePath

\* Directories that do not overlap are apart where they lie.
LEMMA ApartIs ==
  ASSUME NEW p, NEW q, IsCleanPath(p), IsCleanPath(q), ~PathsOverlap(p, q)
  PROVE  ~IsPrefix(Fold(p), Fold(q)) /\ ~IsPrefix(Fold(q), Fold(p))
BY CleanContains DEF PathsOverlap

\* The configuration NormalizeAndValidate accepts is one that is right.
LEMMA MountsAccepted ==
  ASSUME MountsInv, NEW options \in Options, NormalizeAndValidate(options)
  PROVE  MountsInv'
<1> PICK cfg : cfg = ParseConfig(options)
  OBVIOUS
<1>1. PICK profile \in {UserProfile, <<>>}, follows \in BOOLEAN, followsHome \in BOOLEAN :
        LET workspace == ResolvePath(cfg.workspace, follows)
            home == ResolvePath(cfg.home, followsHome)
        IN  /\ cfg.workspace # <<>> /\ IsMountable(workspace, profile)
            /\ cfg.home # <<>> => IsMountable(home, profile) /\ ~PathsOverlap(workspace, home)
            /\ mounts' = [cfg |-> cfg, workspace |-> workspace,
                          home |-> IF cfg.home = <<>> THEN <<>> ELSE home,
                          profile |-> profile, followed |-> follows /\ followsHome]
  BY DEF NormalizeAndValidate
<1>2. /\ program = "runner" /\ program' = program /\ tree' = tree /\ deletion' = deletion
      /\ ValidateContainerPath(cfg.workspaceContainer) /\ ValidateContainerPath(cfg.workdir)
      /\ ContainsPath(Clean(cfg.workspaceContainer), Clean(cfg.workdir))
      /\ cfg.home # <<>> =>
           /\ ValidateContainerPath(cfg.homeContainer)
           /\ ~PathsOverlap(Clean(cfg.workspaceContainer), Clean(cfg.homeContainer))
  BY DEF NormalizeAndValidate
<1>3. mounts'.cfg = cfg /\ mounts'.profile = profile /\ mounts'.followed = (follows /\ followsHome)
  BY <1>1
<1> DEFINE At(text) == Fold(Clean(text))
           Lies(text) == Fold(Real(Clean(text)))
           Apart(p, q) == ~IsPrefix(p, q) /\ ~IsPrefix(q, p)
           Good(p) == /\ Len(p) > 1 /\ KindAt(p) = "dir"
                      /\ ~(Len(p) = 2 /\ p[2] \in SystemFolders)
                      /\ profile # <<>> => p # At(profile)
<1>4. \A f \in {"workspace", "home", "workspaceContainer", "homeContainer", "workdir"} :
         cfg[f] # <<>> => IsText(cfg[f]) /\ IsCleanPath(Clean(cfg[f]))
  BY ConfigTexts, CleanIsClean DEF DefaultConfig
<1>5. ASSUME NEW text, IsText(text) PROVE IsCleanPath(Real(Clean(text)))
  <2> PICK L : L = Links /\ L \subseteq DOMAIN LinkTo
    BY DEF Links
  <2> QED  BY <1>5, CleanIsClean, CleanLeadsToClean DEF Real
<1>6. ASSUME follows, followsHome
      PROVE  /\ Good(Lies(cfg.workspace))
             /\ cfg.home # <<>> => Good(Lies(cfg.home))
             /\ cfg.home # <<>> => Apart(Lies(cfg.workspace), Lies(cfg.home))
  <2>1. Good(Lies(cfg.workspace))
    <3>1. IsText(cfg.workspace) /\ IsMountable(Real(Clean(cfg.workspace)), profile)
      BY <1>1, <1>4, <1>6 DEF ResolvePath
    <3> QED  BY <3>1, MountableIs
  <2>2. ASSUME cfg.home # <<>>
        PROVE  Good(Lies(cfg.home)) /\ Apart(Lies(cfg.workspace), Lies(cfg.home))
    <3>1. IsText(cfg.home) /\ IsMountable(Real(Clean(cfg.home)), profile)
      BY <1>1, <1>4, <1>6, <2>2 DEF ResolvePath
    <3>2. IsText(cfg.workspace) /\ ~PathsOverlap(Real(Clean(cfg.workspace)), Real(Clean(cfg.home)))
      BY <1>1, <1>4, <1>6, <2>2 DEF ResolvePath
    <3>3. Good(Lies(cfg.home))
      BY <3>1, MountableIs
    <3>4. Apart(Lies(cfg.workspace), Lies(cfg.home))
      BY <1>5, <3>1, <3>2, ApartIs
    <3> QED  BY <3>3, <3>4
  <2> QED  BY <2>1, <2>2
<1>7. IsPrefix(At(cfg.workspaceContainer), At(cfg.workdir))
  BY <1>2, <1>4, CleanContains DEF ValidateContainerPath
<1>8. Len(At(cfg.workspaceContainer)) > 1
  BY <1>2, <1>4, CleanFold DEF ValidateContainerPath
<1>9. cfg.home # <<>> => Apart(At(cfg.workspaceContainer), At(cfg.homeContainer))
  BY <1>2, <1>4, ApartIs DEF ValidateContainerPath
<1>10. AcceptedMountsAreApart'
  <2>1. \A text : Lies(text)' = Lies(text)
    BY <1>2 DEF Real, Links
  <2>2. \A p : KindAt(p)' = KindAt(p)
    BY <1>2 DEF KindAt
  <2> QED  BY <1>1, <1>3, <1>6, <1>7, <1>8, <1>9, <2>1, <2>2 DEF AcceptedMountsAreApart
<1> QED  BY <1>2, <1>10 DEF MountsInv

\* No step of any of the three programs breaks the invariant of mounts.
LEMMA MountsStep == MountsInv /\ [Next]_vars => MountsInv'
<1> SUFFICES ASSUME MountsInv, [Next]_vars PROVE MountsInv'
  OBVIOUS
<1>1. CASE UNCHANGED <<program, hostVars>>
  BY <1>1, MountsStay DEF MountsInv, hostVars
<1>2. ASSUME NEW options \in Options, NormalizeAndValidate(options) PROVE MountsInv'
  BY <1>2, MountsAccepted
<1>3. ASSUME NEW place, NEW kind, Change(place, kind) PROVE MountsInv'
  BY <1>3 DEF MountsInv, Change
<1>4. ASSUME NEW text, DeleteFile(text) PROVE MountsInv'
  BY <1>4 DEF MountsInv, DeleteFile
<1>5. CASE RejectSymlinkParents \/ InspectTarget \/ RemoveFile
  <2>1. deletion # [pc |-> "idle"] /\ program' = program /\ mounts' = mounts
    BY <1>5 DEF RejectSymlinkParents, InspectTarget, RemoveFile
  <2> QED  BY <2>1 DEF MountsInv
<1> QED  BY <1>1, <1>2, <1>3, <1>4, <1>5
         DEF Next, vars, hostVars, Remount, Judge, Handled

\* The directories the runner mounts lie apart from each other, and so do their
\* mount points; none is a drive, a system folder or the profile, and the working
\* directory is in the workspace (NormalizeAndValidate).
THEOREM MountsApart == Spec => []AcceptedMountsAreApart
<1>1. MountsInv => AcceptedMountsAreApart
  BY DEF MountsInv, AcceptedMountsAreApart
<1> QED  BY <1>1, MountsInit, MountsStep, PTL DEF Spec

------------------------------------------------------------------------------
(* Components that are written with separators before them.                *)

\* A set that has the empty sequence and what one more element makes of each has
\* all sequences.
LEMMA Grows ==
  ASSUME NEW S, NEW T, <<>> \in T, \A s \in Seq(S), x \in S : s \in T => Append(s, x) \in T
  PROVE  Seq(S) \subseteq T
<1> SUFFICES ASSUME NEW s \in Seq(S) PROVE s \in T
  OBVIOUS
<1> DEFINE N == Len(s)
           U == {n \in 0..N : SubSeq(s, 1, n) \in T}
<1>1. N \in Nat /\ SubSeq(s, 1, N) = s /\ SubSeq(s, 1, 0) = <<>>
  OBVIOUS
<1>2. 0 \in U
  <2>1. 0 \in 0..N
    BY <1>1
  <2>2. SubSeq(s, 1, 0) \in T
    <3> HIDE DEF N
    <3> QED  BY <1>1, Zenon
  <2> QED  BY <2>1, <2>2
<1>3. ASSUME NEW n \in 0..(N - 1), n \in U PROVE n + 1 \in U
  <2>1. SubSeq(s, 1, n) \in Seq(S) /\ s[n + 1] \in S /\ n + 1 \in 0..N
    BY <1>1
  <2>2. SubSeq(s, 1, n + 1) = Append(SubSeq(s, 1, n), s[n + 1])
    BY <1>1, <2>1
  <2> QED  BY <1>3, <2>1, <2>2
<1>4. N \in U
  <2> HIDE DEF U, N
  <2>1. 0..N \subseteq U
    BY <1>1, <1>2, <1>3, Upwards
  <2> QED  BY <1>1, <2>1
<1> QED  BY <1>1, <1>4

\* A function that begins with base and goes on with step.
Climbs(f, S, base, N, step) ==
    f \in [0..N -> S] /\ f[0] = base /\ \A n \in 1..N : f[n] = step[n][f[n - 1]]

Steps(S, base, N, step) == base \in S /\ N \in Nat /\ step \in [1..N -> [S -> S]]

\* There is one.
LEMMA StepsClimb ==
  ASSUME NEW S, NEW base, NEW N, NEW step, Steps(S, base, N, step)
  PROVE  \E f : Climbs(f, S, base, N, step)
<1>1. base \in S /\ N \in Nat /\ step \in [1..N -> [S -> S]]
  BY DEF Steps
<1>2. \E f \in [0..N -> S] : f[0] = base /\ \A n \in 1..N : f[n] = step[n][f[n - 1]]
  BY <1>1, Recursion
<1> QED  BY <1>2 DEF Climbs

\* What Below has written after each of its components.
Descends(f, C, parts) ==
    /\ f \in [0..Len(parts) -> Seq(C)] /\ f[0] = <<>> /\ f[Len(parts)] = Below(parts)
    /\ \A n \in 1..Len(parts) : f[n] = f[n - 1] \o <<Sep>> \o parts[n]

\* Below goes through the components one by one.
LEMMA BelowIs ==
  ASSUME NEW C, Sep \in C, NEW parts \in Seq(Seq(C))
  PROVE  \E f : Descends(f, C, parts)
<1> DEFINE N == Len(parts)
           X == Seq(C)
           One(q, n) == q \o <<Sep>> \o parts[n]
           Whole(f) == [n \in 0..N |-> IF n = 0 THEN <<>> ELSE One(f[n - 1], n)]
           step == [n \in 1..N |-> [q \in X |-> One(q, n)]]
<1>1. N \in Nat /\ <<>> \in X
  BY LenProperties
<1>2. \A n \in 1..N : \A q \in X : One(q, n) \in X
  <2> SUFFICES ASSUME NEW n \in 1..N, NEW q \in X PROVE One(q, n) \in X
    OBVIOUS
  <2>1. parts[n] \in Seq(C)
    BY ElementOfSeq
  <2>2. <<Sep>> \in Seq(C)
    OBVIOUS
  <2>3. q \o <<Sep>> \in Seq(C)
    BY <2>2, ConcatProperties
  <2> QED  BY <2>1, <2>3, ConcatProperties
<1>3. PICK f \in [0..N -> X] : f[0] = <<>> /\ \A n \in 1..N : f[n] = One(f[n - 1], n)
  <2> HIDE DEF N, X, One
  <2>1. step \in [1..N -> [X -> X]]
    BY <1>2
  <2> HIDE DEF step
  <2>2. Steps(X, <<>>, N, step)
    BY <1>1, <2>1 DEF Steps
  <2>3. PICK f : Climbs(f, X, <<>>, N, step)
    BY <2>2, StepsClimb
  <2>4. f \in [0..N -> X] /\ f[0] = <<>> /\ \A n \in 1..N : f[n] = step[n][f[n - 1]]
    BY <2>3 DEF Climbs
  <2>5. \A n \in 1..N : f[n] = One(f[n - 1], n)
    <3> SUFFICES ASSUME NEW n \in 1..N PROVE f[n] = One(f[n - 1], n)
      OBVIOUS
    <3>1. f[n - 1] \in X
      BY <1>1, <2>4
    <3> QED  BY <2>4, <3>1 DEF step
  <2> QED  BY <2>4, <2>5
<1>4. f = Whole(f)
  <2>1. \A n \in 1..N : f[n] = One(f[n - 1], n)
    BY <1>3 DEF One
  <2> HIDE DEF N, X, One
  <2> QED  BY <1>1, <1>3, <2>1
<1> DEFINE h == CHOOSE g : g = Whole(g)
<1>5. h = Whole(h)
  <2> HIDE DEF Whole
  <2> QED  BY <1>4
<1>6. Below(parts) = h[N]
  BY DEF Below
<1> HIDE DEF h, X
<1>7. 0..N \subseteq {n \in 0..N : h[n] = f[n]}
  <2> DEFINE T == {n \in 0..N : h[n] = f[n]}
  <2>1. 0 \in T
    BY <1>1, <1>3, <1>5
  <2>2. ASSUME NEW n \in 0..(N - 1), n \in T PROVE n + 1 \in T
    <3>1. n + 1 \in 1..N /\ (n + 1) - 1 = n /\ n + 1 # 0 /\ n + 1 \in 0..N
      BY <1>1
    <3>2. h[n + 1] = One(h[n], n + 1)
      BY <1>5, <3>1
    <3>3. f[n + 1] = One(f[n], n + 1)
      BY <1>3, <3>1
    <3> HIDE DEF One, N
    <3> QED  BY <2>2, <3>1, <3>2, <3>3
  <2> HIDE DEF T, N
  <2>3. 0..N \subseteq T
    BY <1>1, <2>1, <2>2, Upwards
  <2> QED  BY <2>3 DEF T
<1> HIDE DEF N
<1>8. f[N] = Below(parts)
  BY <1>1, <1>6, <1>7
<1> QED  BY <1>3, <1>8 DEF X, N, Descends

\* One more component stands behind one more separator.
LEMMA BelowAppend ==
  ASSUME NEW C, Sep \in C, NEW p \in Seq(Seq(C)), NEW x \in Seq(C)
  PROVE  Below(p) \in Seq(C) /\ Below(Append(p, x)) = Append(Below(p), Sep) \o x
<1> PICK N : N = Len(p)
  OBVIOUS
<1> PICK t : t = Append(p, x)
  OBVIOUS
<1>1. N \in Nat /\ t \in Seq(Seq(C)) /\ Len(t) = N + 1 /\ t[N + 1] = x /\ \A n \in 1..N : t[n] = p[n]
  BY AppendProperties
<1>2. PICK f : Descends(f, C, p)
  BY BelowIs
<1>3. PICK g : Descends(g, C, t)
  BY <1>1, BelowIs
<1>4. \A n \in 0..(N - 1) : f[n] = g[n] => f[n + 1] = g[n + 1]
  <2> SUFFICES ASSUME NEW n \in 0..(N - 1), f[n] = g[n] PROVE f[n + 1] = g[n + 1]
    OBVIOUS
  <2>1. n + 1 \in 1..N /\ n + 1 \in 1..(N + 1) /\ (n + 1) - 1 = n
    BY <1>1
  <2>2. f[n + 1] = f[n] \o <<Sep>> \o p[n + 1] /\ g[n + 1] = g[n] \o <<Sep>> \o t[n + 1]
    BY <1>1, <1>2, <1>3, <2>1 DEF Descends
  <2> QED  BY <1>1, <2>1, <2>2
<1>5. f[N] = g[N]
  <2>1. f[0] = g[0]
    BY <1>2, <1>3 DEF Descends
  <2> DEFINE T == {n \in 0..N : f[n] = g[n]}
  <2>2. 0 \in T
    BY <1>1, <2>1
  <2>3. ASSUME NEW n \in 0..(N - 1), n \in T PROVE n + 1 \in T
    <3>1. n + 1 \in 0..N /\ f[n] = g[n]
      BY <1>1, <2>3
    <3> QED  BY <1>4, <3>1
  <2> HIDE DEF T
  <2>4. 0..N \subseteq T
    BY <1>1, <2>2, <2>3, Upwards
  <2> QED  BY <1>1, <2>4 DEF T
<1>6. g[N + 1] = g[N] \o <<Sep>> \o x
  <2>1. N + 1 \in 1..Len(t) /\ (N + 1) - 1 = N
    BY <1>1
  <2> QED  BY <1>1, <1>3, <2>1 DEF Descends
<1>7. Below(p) \in Seq(C)
  <2>1. N \in 0..Len(p)
    BY <1>1
  <2> QED  BY <1>2, <2>1 DEF Descends
<1>8. Append(Below(p), Sep) = Below(p) \o <<Sep>>
  BY <1>7, AppendIsConcat
<1> QED  BY <1>1, <1>2, <1>3, <1>5, <1>6, <1>7, <1>8 DEF Descends

\* Nothing stands below no component.
LEMMA BelowOfNothing == Below(<<>>) = <<>>
<1> PICK C : C = {Sep}
  OBVIOUS
<1>1. <<>> \in Seq(Seq(C)) /\ Len(<<>>) = 0 /\ Sep \in C
  BY EmptySeq
<1>2. PICK f : Descends(f, C, <<>>)
  BY <1>1, BelowIs
<1> QED  BY <1>1, <1>2 DEF Descends

\* The last element of what is put together is the last of the second part.
LEMMA FrontOfConcat ==
  ASSUME NEW D, NEW u \in Seq(D), NEW v \in Seq(D), v # <<>>
  PROVE  Front(u \o v) = u \o Front(v) /\ Last(u \o v) = Last(v)
<1>1. Len(u) \in Nat /\ Len(v) \in Nat \ {0} /\ u \o v \in Seq(D) /\ Len(u \o v) = Len(u) + Len(v)
  BY EmptySeq, LenProperties, ConcatProperties
<1>2. Last(u \o v) = Last(v)
  BY <1>1 DEF Last
<1> DEFINE a == SubSeq(u \o v, 1, Len(u) + Len(v) - 1)
           b == u \o SubSeq(v, 1, Len(v) - 1)
<1>3. a \in Seq(D) /\ Len(a) = Len(u) + Len(v) - 1
      /\ \A i \in 1..(Len(u) + Len(v) - 1) : a[i] = (u \o v)[i]
  <2> PICK s \in Seq(D) : s = u \o v
    BY <1>1
  <2>1. Len(u) + Len(v) - 1 \in Nat /\ Len(u) + Len(v) - 1 <= Len(s)
    BY <1>1
  <2> QED  BY <2>1, FirstOnes
<1>4. /\ SubSeq(v, 1, Len(v) - 1) \in Seq(D) /\ Len(SubSeq(v, 1, Len(v) - 1)) = Len(v) - 1
      /\ \A i \in 1..(Len(v) - 1) : SubSeq(v, 1, Len(v) - 1)[i] = v[i]
  <2>1. Len(v) - 1 \in Nat /\ Len(v) - 1 <= Len(v)
    BY <1>1
  <2> QED  BY <2>1, FirstOnes
<1>5. b \in Seq(D) /\ Len(b) = Len(u) + Len(v) - 1
  BY <1>1, <1>4, ConcatProperties
<1>6. \A i \in 1..(Len(u) + Len(v) - 1) : a[i] = b[i]
  <2> SUFFICES ASSUME NEW i \in 1..(Len(u) + Len(v) - 1) PROVE a[i] = b[i]
    OBVIOUS
  <2>1. a[i] = IF i <= Len(u) THEN u[i] ELSE v[i - Len(u)]
    BY <1>1, <1>3, ConcatProperties
  <2>2. b[i] = IF i <= Len(u) THEN u[i] ELSE v[i - Len(u)]
    BY <1>1, <1>4, ConcatProperties
  <2> QED  BY <2>1, <2>2
<1> HIDE DEF a, b
<1>7. a = b
  BY <1>3, <1>5, <1>6, SeqEqual
<1> QED  BY <1>1, <1>2, <1>7 DEF Front, a, b

\* A character that comes later does not reach back beyond the last component.
LEMMA SplitOfConcat ==
  ASSUME NEW B, NEW u \in Seq(Seq(B)), NEW v \in Seq(Seq(B)), v # <<>>, NEW x \in B \cup {Sep, Slash}
  PROVE  Split(u \o v, x) = u \o Split(v, x)
<1> PICK D : D = Seq(B)
  OBVIOUS
<1>1. u \in Seq(D) /\ v \in Seq(D)
  OBVIOUS
<1>2. CASE x \in {Sep, Slash}
  <2>1. <<>> \in D
    BY EmptySeq
  <2>2. u \o Append(v, <<>>) = Append(u \o v, <<>>)
    BY <1>1, <2>1, AppendToConcat
  <2> QED  BY <1>2, <2>2 DEF Split
<1>3. CASE x \notin {Sep, Slash}
  <2>1. Front(u \o v) = u \o Front(v) /\ Last(u \o v) = Last(v)
    BY <1>1, FrontOfConcat
  <2>2. Len(v) \in Nat \ {0}
    BY <1>1, EmptySeq
  <2>3. Front(v) \in Seq(D)
    BY <1>1, <2>2, FirstOnes DEF Front
  <2>4. Last(v) \in D
    BY <1>1, <2>2, ElementOfSeq DEF Last
  <2>5. Append(Last(v), x) \in D
    <3>1. Last(v) \in Seq(B) /\ x \in B
      BY <1>3, <2>4
    <3>2. Append(Last(v), x) \in Seq(B)
      BY <3>1, AppendIs
    <3> QED  BY <3>2
  <2>6. u \o Append(Front(v), Append(Last(v), x)) = Append(u \o Front(v), Append(Last(v), x))
    BY <1>1, <2>3, <2>5, AppendToConcat
  <2> QED  BY <1>3, <2>1, <2>6 DEF Split
<1> QED  BY <1>2, <1>3

\* A separator parts a text into texts that are split each for itself.
LEMMA ComponentsConcat ==
  ASSUME NEW C, NEW a \in Seq(C), NEW c \in C, c \in {Sep, Slash}, NEW b \in Seq(C)
  PROVE  Components(Append(a, c) \o b) = Components(a) \o Components(b)
<1> PICK B : B = C \ {Sep, Slash}
  OBVIOUS
<1> PICK d \in Seq(C) : d = Append(a, c)
  BY AppendIs
<1> PICK u \in Seq(Seq(B)) : u = Components(a)
  BY ComponentsAreTexts
<1> DEFINE T == {s \in Seq(C) : Components(d \o s) = u \o Components(s)}
<1>1. <<>> \in T
  <2>1. d \o <<>> = d
    BY ConcatEmptySeq
  <2>2. Components(d) = Append(u, <<>>)
    BY ComponentsAppend DEF Split
  <2>3. Append(u, <<>>) = u \o << <<>> >>
    <3> PICK D : D = Seq(B)
      OBVIOUS
    <3>1. u \in Seq(D) /\ <<>> \in D
      BY EmptySeq
    <3> QED  BY <3>1, AppendIsConcat
  <2>4. Components(d \o <<>>) = u \o Components(<<>>)
    BY <2>1, <2>2, <2>3, ComponentsOfNothing
  <2>5. <<>> \in Seq(C)
    BY EmptySeq
  <2> QED  BY <2>4, <2>5
<1>2. ASSUME NEW s \in Seq(C), NEW x \in C, s \in T PROVE Append(s, x) \in T
  <2>1. d \o Append(s, x) = Append(d \o s, x) /\ d \o s \in Seq(C) /\ Append(s, x) \in Seq(C)
    BY AppendToConcat, AppendIs
  <2>2. Components(d \o Append(s, x)) = Split(Components(d \o s), x)
    BY <2>1, ComponentsAppend
  <2>3. Components(d \o s) = u \o Components(s)
    BY <1>2
  <2> PICK v \in Seq(Seq(B)) : v = Components(s) /\ v # <<>>
    BY ComponentsAreTexts
  <2>4. x \in B \cup {Sep, Slash}
    OBVIOUS
  <2>5. Split(u \o v, x) = u \o Split(v, x)
    <3> HIDE DEF T
    <3>1. v # <<>> /\ u \in Seq(Seq(B)) /\ v \in Seq(Seq(B))
      OBVIOUS
    <3> QED  BY ONLY <2>4, <3>1, SplitOfConcat
  <2>6. Components(Append(s, x)) = Split(v, x)
    BY ComponentsAppend
  <2> QED  BY <2>1, <2>2, <2>3, <2>5, <2>6
<1>3. Seq(C) \subseteq T
  <2> HIDE DEF T
  <2> QED  BY <1>1, <1>2, Grows
<1> QED  BY <1>3

\* A text without separators is one component.
LEMMA ComponentsOfName ==
  ASSUME NEW B, Sep \notin B, Slash \notin B, NEW name \in Seq(B)
  PROVE  Components(name) = <<name>>
<1> DEFINE T == {s \in Seq(B) : Components(s) = <<s>>}
<1>1. <<>> \in T
  BY ComponentsOfNothing, EmptySeq
<1>2. ASSUME NEW s \in Seq(B), NEW x \in B, s \in T PROVE Append(s, x) \in T
  <2>1. Components(Append(s, x)) = Split(<<s>>, x)
    BY <1>2, ComponentsAppend
  <2>2. Front(<<s>>) = <<>> /\ Last(<<s>>) = s
    BY DEF Front, Last
  <2>3. Split(<<s>>, x) = Append(<<>>, Append(s, x))
    BY <2>2 DEF Split
  <2>4. Append(<<>>, Append(s, x)) = <<Append(s, x)>>
    OBVIOUS
  <2>5. Append(s, x) \in Seq(B)
    BY AppendIs
  <2> QED  BY <2>1, <2>3, <2>4, <2>5
<1>3. Seq(B) \subseteq T
  <2> HIDE DEF T
  <2> QED  BY <1>1, <1>2, Grows
<1> QED  BY <1>3

\* Below a separator each are the components it was made of, behind an empty one.
LEMMA ComponentsOfBelow ==
  ASSUME NEW C, Sep \in C, NEW parts \in Seq(Seq(C \ {Sep, Slash}))
  PROVE  Below(parts) \in Seq(C) /\ Components(Below(parts)) = << <<>> >> \o parts
<1> PICK B : B = C \ {Sep, Slash}
  OBVIOUS
<1> PICK D : D = Seq(B)
  OBVIOUS
<1> DEFINE T == {p \in Seq(D) : Below(p) \in Seq(C) /\ Components(Below(p)) = << <<>> >> \o p}
<1>0. Seq(B) \subseteq Seq(C)
  BY SeqMonotonic
<1>1. <<>> \in T
  <2>1. <<>> \in D /\ <<>> \in Seq(D) /\ <<>> \in Seq(C)
    BY EmptySeq
  <2>2. << <<>> >> \o <<>> = << <<>> >>
    OBVIOUS
  <2> QED  BY <2>1, <2>2, BelowOfNothing, ComponentsOfNothing
<1>2. ASSUME NEW p \in Seq(D), NEW x \in D, p \in T PROVE Append(p, x) \in T
  <2>1. p \in Seq(Seq(C)) /\ x \in Seq(C)
    BY <1>0, SeqMonotonic
  <2>2. Below(p) \in Seq(C) /\ Below(Append(p, x)) = Append(Below(p), Sep) \o x
    BY <2>1, BelowAppend
  <2>3. Append(Below(p), Sep) \o x \in Seq(C)
    BY <2>1, <2>2, AppendIs, ConcatProperties
  <2>4. Components(Append(Below(p), Sep) \o x) = Components(Below(p)) \o Components(x)
    BY <2>1, <2>2, ComponentsConcat
  <2>5. Components(x) = <<x>>
    BY ComponentsOfName
  <2>6. (<< <<>> >> \o p) \o <<x>> = << <<>> >> \o Append(p, x)
    <3> PICK e : e = << <<>> >>
      OBVIOUS
    <3>1. e \in Seq(D)
      BY EmptySeq
    <3>2. e \o Append(p, x) = Append(e \o p, x) /\ e \o p \in Seq(D)
      BY <3>1, AppendToConcat
    <3> QED  BY <3>2, AppendIsConcat
  <2>7. Components(Below(p)) = << <<>> >> \o p
    BY <1>2
  <2>8. Append(p, x) \in Seq(D)
    BY AppendIs
  <2> QED  BY <2>2, <2>3, <2>4, <2>5, <2>6, <2>7, <2>8
<1>3. Seq(D) \subseteq T
  <2> HIDE DEF T
  <2> QED  BY <1>1, <1>2, Grows
<1> QED  BY <1>3

\* A walk over clean components goes through them.
LEMMA WalkOfClean ==
  ASSUME NEW D, NEW p \in Seq(D \ {<<>>, <<".">>, <<"..">>})
  PROVE  Walk(<< <<>> >> \o p) = p
<1> PICK E : E = D \ {<<>>, <<".">>, <<"..">>}
  OBVIOUS
<1> PICK F : F = D \cup {<<>>}
  OBVIOUS
<1> PICK e : e = << <<>> >>
  OBVIOUS
<1>0. e \in Seq(F) /\ Seq(E) \subseteq Seq(F)
  <2>1. Seq(E) \subseteq Seq(F)
    BY SeqMonotonic
  <2> QED  BY <2>1
<1> DEFINE T == {q \in Seq(E) : Walk(e \o q) = q}
<1>1. <<>> \in T
  <2>1. e \o <<>> = Append(<<>>, <<>>) /\ <<>> \in Seq(E) /\ <<>> \in Seq(F) /\ <<>> \in F
    BY EmptySeq
  <2>2. Walk(Append(<<>>, <<>>)) = Onwards(Walk(<<>>), <<>>)
    BY <2>1, WalkAppend
  <2>3. Onwards(<<>>, <<>>) = <<>>
    BY DEF Onwards
  <2> QED  BY <2>1, <2>2, <2>3, WalkOfNothing
<1>2. ASSUME NEW q \in Seq(E), NEW x \in E, q \in T PROVE Append(q, x) \in T
  <2>1. q \in Seq(F) /\ x \in F
    BY <1>0
  <2>2. e \o Append(q, x) = Append(e \o q, x) /\ e \o q \in Seq(F)
    BY <1>0, <2>1, AppendToConcat
  <2>3. Walk(Append(e \o q, x)) = Onwards(q, x)
    <3> PICK w : w = e \o q
      OBVIOUS
    <3>1. Walk(Append(w, x)) = Onwards(Walk(w), x)
      BY <2>1, <2>2, WalkAppend
    <3> QED  BY <1>2, <3>1
  <2>4. Onwards(q, x) = Append(q, x)
    BY DEF Onwards
  <2>5. Append(q, x) \in Seq(E)
    BY AppendIs
  <2> QED  BY <2>2, <2>3, <2>4, <2>5
<1>3. Seq(E) \subseteq T
  <2> HIDE DEF T
  <2> QED  BY <1>1, <1>2, Grows
<1> QED  BY <1>3

\* A walk that has led nowhere is forgotten.
LEMMA WalkOfConcat ==
  ASSUME NEW D, NEW u \in Seq(D), Walk(u) = <<>>, NEW v \in Seq(D)
  PROVE  Walk(u \o v) = Walk(v)
<1> DEFINE T == {q \in Seq(D) : Walk(u \o q) = Walk(q)}
<1>1. <<>> \in T
  BY EmptySeq, ConcatEmptySeq, WalkOfNothing
<1>2. ASSUME NEW q \in Seq(D), NEW x \in D, q \in T PROVE Append(q, x) \in T
  <2>1. u \o Append(q, x) = Append(u \o q, x) /\ u \o q \in Seq(D) /\ Append(q, x) \in Seq(D)
    BY AppendToConcat, AppendIs
  <2>2. Walk(Append(u \o q, x)) = Onwards(Walk(u \o q), x) /\ Walk(Append(q, x)) = Onwards(Walk(q), x)
    BY <2>1, WalkAppend
  <2> QED  BY <1>2, <2>1, <2>2
<1>3. Seq(D) \subseteq T
  <2> HIDE DEF T
  <2> QED  BY <1>1, <1>2, Grows
<1> QED  BY <1>3

------------------------------------------------------------------------------
(* Lower case of texts and the components below it.                        *)

\* The lower case of one character, and of sets of them.
Lc(c) == IF c \in DOMAIN LowerOf THEN LowerOf[c] ELSE c

\* Texts, and texts without separators.
Texts == Seq(Chars)
Plains == Seq(Chars \ {Sep, Slash})

\* No mark has a lower case or is one, and letters become small only once.
LEMMA LettersAre ==
  /\ \A c \in Chars : Lc(c) \in Chars /\ Lc(Lc(c)) = Lc(c)
  /\ \A m \in Marks : \A c \in Chars : Lc(c) = m <=> c = m
  /\ \A c \in Chars : Lc(c) \in {Sep, Slash} <=> c \in {Sep, Slash}
  /\ Marks \subseteq Chars /\ Sep \in Marks /\ Slash \in Marks /\ Sep # Slash
<1>1. \A c \in Chars : Lc(c) \in Chars /\ Lc(Lc(c)) = Lc(c)
  BY LettersAssumption DEF Lc, Chars
<1>2. \A m \in Marks : \A c \in Chars : Lc(c) = m <=> c = m
  BY LettersAssumption DEF Lc, Chars
<1>3. Sep \in Marks /\ Slash \in Marks /\ Sep # Slash
  BY DEF Marks, Sep, Slash
<1>4. Marks \subseteq Chars
  BY DEF Chars
<1> QED  BY <1>1, <1>2, <1>3, <1>4

\* Lower case changes the characters one by one.
LEMMA LowerIs ==
  ASSUME NEW s \in Texts
  PROVE  /\ ToLowerPath(s) \in Texts /\ Len(ToLowerPath(s)) = Len(s) /\ Len(s) \in Nat
         /\ DOMAIN ToLowerPath(s) = 1..Len(s) /\ DOMAIN s = 1..Len(s)
         /\ \A i \in 1..Len(s) : ToLowerPath(s)[i] = Lc(s[i]) /\ s[i] \in Chars
<1>1. DOMAIN s = 1..Len(s) /\ Len(s) \in Nat /\ \A i \in 1..Len(s) : s[i] \in Chars
  BY LenProperties, ElementOfSeq DEF Texts
<1>2. ToLowerPath(s) = [i \in 1..Len(s) |-> Lc(s[i])]
  BY <1>1 DEF ToLowerPath, Lc
<1>3. \A i \in 1..Len(s) : Lc(s[i]) \in Chars
  BY <1>1, LettersAre
<1> DEFINE t == [i \in 1..Len(s) |-> Lc(s[i])]
<1>4. t \in Seq(Chars) /\ Len(t) = Len(s) /\ DOMAIN t = 1..Len(s) /\ \A i \in 1..Len(s) : t[i] = Lc(s[i])
  BY <1>1, <1>3
<1> HIDE DEF t
<1> QED  BY <1>1, <1>2, <1>4 DEF Texts, t

\* Two texts are the same in lower case if their characters are.
LEMMA SameLower ==
  ASSUME NEW s \in Texts, NEW t \in Texts
  PROVE  ToLowerPath(s) = ToLowerPath(t) <=> Len(s) = Len(t) /\ \A i \in 1..Len(s) : Lc(s[i]) = Lc(t[i])
<1>1. ASSUME ToLowerPath(s) = ToLowerPath(t)
      PROVE  Len(s) = Len(t) /\ \A i \in 1..Len(s) : Lc(s[i]) = Lc(t[i])
  BY <1>1, LowerIs
<1>2. ASSUME Len(s) = Len(t), \A i \in 1..Len(s) : Lc(s[i]) = Lc(t[i])
      PROVE  ToLowerPath(s) = ToLowerPath(t)
  <2> PICK v, w : v = ToLowerPath(s) /\ w = ToLowerPath(t)
    OBVIOUS
  <2>1. v \in Seq(Chars) /\ w \in Seq(Chars) /\ Len(v) = Len(w) /\ \A i \in 1..Len(v) : v[i] = w[i]
    BY <1>2, LowerIs DEF Texts
  <2>2. v = w
    BY <2>1, SeqEqual
  <2> QED  BY <2>2
<1> QED  BY <1>1, <1>2

\* No text is none in lower case.
LEMMA LowerOfNothing == ToLowerPath(<<>>) = <<>>
<1>1. <<>> \in Texts /\ Len(<<>>) = 0
  BY EmptySeq DEF Texts
<1>2. Len(ToLowerPath(<<>>)) = 0 /\ ToLowerPath(<<>>) \in Seq(Chars)
  BY <1>1, LowerIs DEF Texts
<1> QED  BY <1>2, EmptySeq

\* One more character.
LEMMA LowerOfAppend ==
  ASSUME NEW s \in Texts, NEW x \in Chars
  PROVE  ToLowerPath(Append(s, x)) = Append(ToLowerPath(s), Lc(x)) /\ Append(s, x) \in Texts
<1> PICK t : t = Append(s, x)
  OBVIOUS
<1>1. t \in Texts /\ Len(t) = Len(s) + 1 /\ t[Len(s) + 1] = x /\ \A i \in 1..Len(s) : t[i] = s[i]
  BY AppendProperties DEF Texts
<1> PICK v : v = ToLowerPath(s)
  OBVIOUS
<1> PICK w : w = Append(v, Lc(x))
  OBVIOUS
<1>2. v \in Seq(Chars) /\ Lc(x) \in Chars
  BY LowerIs, LettersAre DEF Texts
<1>3. w \in Seq(Chars) /\ Len(w) = Len(s) + 1 /\ w[Len(s) + 1] = Lc(x) /\ \A i \in 1..Len(s) : w[i] = v[i]
  <2>1. Len(v) = Len(s)
    BY LowerIs
  <2> QED  BY <1>2, <2>1, AppendProperties
<1> PICK r : r = ToLowerPath(t)
  OBVIOUS
<1>4. r \in Seq(Chars) /\ Len(r) = Len(w) /\ \A i \in 1..Len(r) : r[i] = w[i]
  <2>1. r \in Seq(Chars) /\ Len(r) = Len(s) + 1 /\ \A i \in 1..(Len(s) + 1) : r[i] = Lc(t[i])
    BY <1>1, LowerIs DEF Texts
  <2>2. \A i \in 1..Len(s) : v[i] = Lc(s[i])
    BY LowerIs
  <2>3. Len(s) \in Nat
    BY LowerIs
  <2>4. Len(r) = Len(w)
    BY <1>3, <2>1, <2>3
  <2>5. ASSUME NEW i \in 1..Len(r) PROVE r[i] = w[i]
    <3>1. r[i] = Lc(t[i]) /\ i \in 1..(Len(s) + 1)
      BY <1>3, <2>1, <2>4
    <3>2. CASE i \in 1..Len(s)
      BY <1>1, <1>3, <2>2, <3>1, <3>2
    <3>3. CASE i = Len(s) + 1
      BY <1>1, <1>3, <3>1, <3>3
    <3>4. i \in 1..Len(s) \/ i = Len(s) + 1
      BY <2>3, <3>1
    <3> QED  BY <3>2, <3>3, <3>4
  <2> QED  BY <2>1, <2>4, <2>5
<1>5. r = w
  BY <1>3, <1>4, SeqEqual
<1> QED  BY <1>1, <1>5

\* Texts one after the other.
LEMMA LowerOfConcat ==
  ASSUME NEW s \in Texts, NEW t \in Texts
  PROVE  ToLowerPath(s \o t) = ToLowerPath(s) \o ToLowerPath(t) /\ s \o t \in Texts
<1> DEFINE T == {q \in Seq(Chars) : ToLowerPath(s \o q) = ToLowerPath(s) \o ToLowerPath(q)}
<1>0. s \in Seq(Chars) /\ t \in Seq(Chars) /\ ToLowerPath(s) \in Seq(Chars)
  BY LowerIs DEF Texts
<1>1. <<>> \in T
  <2>1. <<>> \in Seq(Chars) /\ <<>> \in Texts
    BY EmptySeq DEF Texts
  <2>2. ToLowerPath(<<>>) = <<>>
    BY LowerOfNothing
  <2>3. s \o <<>> = s /\ ToLowerPath(s) \o <<>> = ToLowerPath(s)
    BY <1>0, ConcatEmptySeq
  <2> QED  BY <2>1, <2>2, <2>3
<1>2. ASSUME NEW q \in Seq(Chars), NEW x \in Chars, q \in T PROVE Append(q, x) \in T
  <2>1. s \o Append(q, x) = Append(s \o q, x) /\ s \o q \in Seq(Chars) /\ Append(q, x) \in Seq(Chars)
    <3> PICK C : C = Chars
      OBVIOUS
    <3>1. s \in Seq(C) /\ q \in Seq(C) /\ x \in C
      BY <1>0
    <3>2. s \o Append(q, x) = Append(s \o q, x) /\ s \o q \in Seq(C)
      BY ONLY <3>1, AppendToConcat
    <3>3. Append(q, x) \in Seq(C)
      BY <3>1, AppendIs
    <3> QED  BY <3>2, <3>3
  <2>2. ToLowerPath(Append(s \o q, x)) = Append(ToLowerPath(s \o q), Lc(x))
    BY <2>1, LowerOfAppend DEF Texts
  <2>3. ToLowerPath(Append(q, x)) = Append(ToLowerPath(q), Lc(x))
    BY LowerOfAppend DEF Texts
  <2>4. ToLowerPath(s) \o Append(ToLowerPath(q), Lc(x)) = Append(ToLowerPath(s) \o ToLowerPath(q), Lc(x))
    <3>1. ToLowerPath(q) \in Seq(Chars) /\ Lc(x) \in Chars
      BY LowerIs, LettersAre DEF Texts
    <3> PICK C, u, v, y : C = Chars /\ u = ToLowerPath(s) /\ v = ToLowerPath(q) /\ y = Lc(x)
      OBVIOUS
    <3>2. u \in Seq(C) /\ v \in Seq(C) /\ y \in C
      BY <1>0, <3>1
    <3>3. u \o Append(v, y) = Append(u \o v, y)
      BY ONLY <3>2, AppendToConcat
    <3> QED  BY <3>3
  <2>5. ToLowerPath(s \o q) = ToLowerPath(s) \o ToLowerPath(q)
    BY <1>2
  <2> QED  BY <2>1, <2>2, <2>3, <2>4, <2>5
<1>3. Seq(Chars) \subseteq T
  <2> HIDE DEF T
  <2> QED  BY <1>1, <1>2, Grows
<1> QED  BY <1>0, <1>3, ConcatProperties DEF Texts

\* All but the last component can be folded by themselves.
LEMMA FoldOfFront ==
  ASSUME NEW S, NEW q \in Seq(S), q # <<>>
  PROVE  Fold(Front(q)) = Front(Fold(q))
<1> PICK n, f : n = Len(q) - 1 /\ f = Fold(q)
  OBVIOUS
<1> PICK v, w, z : v = SubSeq(q, 1, n) /\ w = SubSeq(f, 1, n) /\ z = Fold(v)
  OBVIOUS
<1> PICK R : R = {ToLowerPath(y) : y \in S}
  OBVIOUS
<1>1. Len(q) \in Nat \ {0} /\ Len(f) = Len(q) /\ f \in Seq(R) /\ \A i \in 1..Len(q) : f[i] = ToLowerPath(q[i])
  BY FoldIs, EmptySeq
<1>2. n \in Nat /\ n <= Len(q)
  BY <1>1
<1>3. v \in Seq(S) /\ Len(v) = n /\ \A i \in 1..n : v[i] = q[i]
  BY <1>2, FirstOnes
<1>4. w \in Seq(R) /\ Len(w) = n /\ \A i \in 1..n : w[i] = f[i]
  BY <1>1, <1>2, FirstOnes
<1>5. z \in Seq(R) /\ Len(z) = n /\ \A i \in 1..n : z[i] = ToLowerPath(v[i])
  BY <1>3, FoldIs
<1>6. \A i \in 1..n : z[i] = w[i]
  BY <1>1, <1>2, <1>3, <1>4, <1>5
<1>7. z = w
  BY <1>4, <1>5, <1>6, SeqEqual
<1> QED  BY <1>1, <1>7 DEF Front

\* Paths are folded component by component.
LEMMA FoldSplit ==
  ASSUME NEW q \in Seq(Plains), q # <<>>, NEW x \in Chars
  PROVE  Fold(Split(q, x)) = Split(Fold(q), Lc(x))
<1> PICK f : f = Fold(q)
  OBVIOUS
<1>1. /\ Len(q) \in Nat \ {0} /\ Len(f) = Len(q) /\ f \in Seq({ToLowerPath(y) : y \in Plains})
      /\ \A i \in 1..Len(q) : f[i] = ToLowerPath(q[i]) /\ q[i] \in Plains
  BY FoldIs, EmptySeq, ElementOfSeq
<1>2. Plains \subseteq Texts
  BY SeqMonotonic DEF Plains, Texts
<1>3. CASE x \in {Sep, Slash}
  <2>1. Lc(x) \in {Sep, Slash}
    BY <1>3, LettersAre
  <2>2. <<>> \in Plains
    BY EmptySeq DEF Plains
  <2>3. Fold(Append(q, <<>>)) = Append(f, ToLowerPath(<<>>))
    BY <2>2, FoldOfAppend
  <2>4. ToLowerPath(<<>>) = <<>>
    BY LowerOfNothing
  <2> QED  BY <1>3, <2>1, <2>3, <2>4 DEF Split
<1>4. CASE x \notin {Sep, Slash}
  <2>1. Lc(x) \notin {Sep, Slash}
    BY <1>4, LettersAre
  <2>2. Front(q) \in Seq(Plains) /\ Last(q) \in Plains /\ Last(f) = ToLowerPath(Last(q))
    BY <1>1, FirstOnes DEF Front, Last
  <2>3. Append(Last(q), x) \in Plains
    BY <1>4, <2>2, AppendIs DEF Plains
  <2>4. Fold(Append(Front(q), Append(Last(q), x))) = Append(Fold(Front(q)), ToLowerPath(Append(Last(q), x)))
    BY <2>2, <2>3, FoldOfAppend
  <2>5. ToLowerPath(Append(Last(q), x)) = Append(Last(f), Lc(x))
    BY <1>2, <2>2, LowerOfAppend
  <2>6. Fold(Front(q)) = Front(f)
    BY FoldOfFront
  <2> QED  BY <1>4, <2>1, <2>4, <2>5, <2>6 DEF Split
<1> QED  BY <1>3, <1>4

\* Letter case has nothing to do with what is a component.
LEMMA ComponentsOfLower ==
  ASSUME NEW s \in Texts
  PROVE  Components(ToLowerPath(s)) = Fold(Components(s))
<1> DEFINE T == {q \in Seq(Chars) : Components(ToLowerPath(q)) = Fold(Components(q))}
<1>1. <<>> \in T
  <2>1. <<>> \in Seq(Chars) /\ <<>> \in Texts /\ <<>> \in Plains
    BY EmptySeq DEF Texts, Plains
  <2>2. ToLowerPath(<<>>) = <<>>
    BY LowerOfNothing
  <2>3. Fold(<< <<>> >>) = << <<>> >>
    <3>1. << <<>> >> \in Seq(Plains) /\ Len(<< <<>> >>) = 1
      BY <2>1
    <3> PICK f, R : f = Fold(<< <<>> >>) /\ R = {ToLowerPath(y) : y \in Plains}
      OBVIOUS
    <3> PICK p \in Seq(Plains) : p = << <<>> >> /\ Len(p) = 1 /\ p[1] = <<>>
      BY <3>1
    <3>2. Fold(p) \in Seq(R) /\ Len(Fold(p)) = Len(p) /\ \A n \in 1..Len(p) : Fold(p)[n] = ToLowerPath(p[n])
      BY FoldIs
    <3>4. f \in Seq(R) /\ Len(f) = 1 /\ f[1] = <<>>
      BY <2>2, <3>2
    <3>3. f = << <<>> >>
      BY <3>4
    <3> QED  BY <3>3
  <2> QED  BY <2>1, <2>2, <2>3, ComponentsOfNothing
<1>2. ASSUME NEW q \in Seq(Chars), NEW x \in Chars, q \in T PROVE Append(q, x) \in T
  <2>1. ToLowerPath(Append(q, x)) = Append(ToLowerPath(q), Lc(x)) /\ Append(q, x) \in Seq(Chars)
    BY LowerOfAppend DEF Texts
  <2>2. ToLowerPath(q) \in Seq(Chars) /\ Lc(x) \in Chars
    BY LowerIs, LettersAre DEF Texts
  <2>3. Components(Append(ToLowerPath(q), Lc(x))) = Split(Components(ToLowerPath(q)), Lc(x))
    BY <2>2, ComponentsAppend
  <2>4. Components(Append(q, x)) = Split(Components(q), x)
    BY ComponentsAppend
  <2>5. Components(q) \in Seq(Plains) /\ Components(q) # <<>>
    BY ComponentsAreTexts DEF Plains
  <2>6. Fold(Split(Components(q), x)) = Split(Fold(Components(q)), Lc(x))
    BY <2>5, FoldSplit
  <2> QED  BY <1>2, <2>1, <2>3, <2>4, <2>6
<1>3. Seq(Chars) \subseteq T
  <2> HIDE DEF T
  <2> QED  BY <1>1, <1>2, Grows
<1> QED  BY <1>3 DEF Texts

\* Folding a path of texts gives one.
LEMMA FoldInTexts ==
  ASSUME NEW p \in Seq(Texts)
  PROVE  Fold(p) \in Seq(Texts) /\ (Fold(p) = <<>> <=> p = <<>>)
<1>1. Fold(p) \in Seq({ToLowerPath(y) : y \in Texts}) /\ Len(Fold(p)) = Len(p)
  BY FoldIs
<1>2. {ToLowerPath(y) : y \in Texts} \subseteq Texts
  BY LowerIs
<1>3. Fold(p) \in Seq(Texts)
  BY <1>1, <1>2, SeqMonotonic
<1> QED  BY <1>1, <1>3, EmptySeq

\* Texts without separators are texts.
LEMMA PlainsAreTexts == Plains \subseteq Texts /\ Seq(Plains) \subseteq Seq(Texts)
<1>1. Plains \subseteq Texts
  BY SeqMonotonic DEF Plains, Texts
<1> QED  BY <1>1, SeqMonotonic

\* No letters but a mark are one in lower case.
LEMMA LowerIsMark ==
  ASSUME NEW x \in Texts, NEW m \in Marks
  PROVE  (ToLowerPath(x) = <<m>> <=> x = <<m>>) /\ (ToLowerPath(x) = <<>> <=> x = <<>>)
<1> PICK y : y = ToLowerPath(x)
  OBVIOUS
<1>1. /\ x \in Seq(Chars) /\ y \in Seq(Chars) /\ Len(y) = Len(x) /\ Len(x) \in Nat
      /\ \A i \in 1..Len(x) : y[i] = Lc(x[i]) /\ x[i] \in Chars
  BY LowerIs DEF Texts
<1>2. \A c \in Chars : Lc(c) = m <=> c = m
  BY LettersAre
<1>3. y = <<>> <=> x = <<>>
  BY <1>1, EmptySeq
<1>4. ASSUME NEW C, NEW z \in Seq(C) PROVE z = <<m>> <=> Len(z) = 1 /\ z[1] = m
  OBVIOUS
<1>5. y = <<m>> <=> Len(y) = 1 /\ y[1] = m
  BY <1>1, <1>4
<1>6. x = <<m>> <=> Len(x) = 1 /\ x[1] = m
  BY <1>1, <1>4
<1>7. Len(x) = 1 => (y[1] = m <=> x[1] = m)
  BY <1>1, <1>2
<1> QED  BY <1>1, <1>3, <1>5, <1>6, <1>7

\* Letter case has nothing to do with where a walk leads.
LEMMA WalkOfFold ==
  ASSUME NEW parts \in Seq(Texts)
  PROVE  Walk(Fold(parts)) = Fold(Walk(parts)) /\ Walk(parts) \in Seq(Texts)
<1>0. ASSUME NEW p \in Seq(Texts) PROVE Walk(p) \in Seq(Texts)
  <2>1. Walk(p) \in Seq(Texts \ {<<>>, <<".">>, <<"..">>})
    BY WalkIsClean
  <2> QED  BY <2>1, SeqMonotonic
<1> DEFINE T == {p \in Seq(Texts) : Walk(Fold(p)) = Fold(Walk(p))}
<1>1. <<>> \in T
  <2>1. <<>> \in Seq(Texts)
    BY EmptySeq
  <2>2. Fold(<<>>) = <<>>
    BY <2>1, FoldInTexts
  <2> QED  BY <2>1, <2>2, WalkOfNothing
<1>2. ASSUME NEW p \in Seq(Texts), NEW x \in Texts, p \in T PROVE Append(p, x) \in T
  <2> PICK q, y : q = Walk(p) /\ y = ToLowerPath(x)
    OBVIOUS
  <2>1. q \in Seq(Texts) /\ y \in Texts /\ Fold(p) \in Seq(Texts) /\ Append(p, x) \in Seq(Texts)
    BY <1>0, LowerIs, FoldInTexts, AppendIs
  <2>2. Walk(Append(p, x)) = Onwards(q, x)
    BY WalkAppend
  <2>3. Fold(Append(p, x)) = Append(Fold(p), y)
    BY FoldOfAppend
  <2>4. Walk(Append(Fold(p), y)) = Onwards(Walk(Fold(p)), y)
    BY <2>1, WalkAppend
  <2>5. Walk(Fold(p)) = Fold(q)
    BY <1>2
  <2>6. Onwards(Fold(q), y) = Fold(Onwards(q, x))
    <3>1. "." \in Marks /\ ".." \in Marks
      BY DEF Marks
    <3>2. (y = <<".">> <=> x = <<".">>) /\ (y = <<"..">> <=> x = <<"..">>) /\ (y = <<>> <=> x = <<>>)
      BY <3>1, LowerIsMark
    <3>3. Fold(q) = <<>> <=> q = <<>>
      BY <2>1, FoldInTexts
    <3>4. Fold(Append(q, x)) = Append(Fold(q), y)
      BY <2>1, FoldOfAppend
    <3>5. q # <<>> => Fold(Front(q)) = Front(Fold(q))
      BY <2>1, FoldOfFront
    <3>6. CASE x = <<>> \/ x = <<".">>
      <4>1. Onwards(q, x) = q /\ Onwards(Fold(q), y) = Fold(q)
        BY <3>2, <3>6 DEF Onwards
      <4> QED  BY <4>1
    <3>7. CASE x = <<"..">>
      BY <3>2, <3>3, <3>5, <3>7 DEF Onwards
    <3>8. CASE x \notin {<<>>, <<".">>, <<"..">>}
      BY <3>2, <3>4, <3>8 DEF Onwards
    <3> QED  BY <3>6, <3>7, <3>8
  <2> QED  BY <2>1, <2>2, <2>3, <2>4, <2>5, <2>6
<1>3. Seq(Texts) \subseteq T
  <2> HIDE DEF T
  <2> QED  BY <1>1, <1>2, Grows
<1> QED  BY <1>0, <1>3

\* The text with the separators of Windows.
Turned(s) == [i \in DOMAIN s |-> IF s[i] = Slash THEN Sep ELSE s[i]]

\* With the slashes turned a text is as long and has no slash.
LEMMA TurnedIs ==
  ASSUME NEW s \in Texts
  PROVE  /\ Turned(s) \in Texts /\ Len(Turned(s)) = Len(s) /\ Len(s) \in Nat
         /\ \A i \in 1..Len(s) : /\ s[i] \in Chars /\ Turned(s)[i] # Slash
                                 /\ Turned(s)[i] = IF s[i] = Slash THEN Sep ELSE s[i]
<1>1. DOMAIN s = 1..Len(s) /\ Len(s) \in Nat /\ \A i \in 1..Len(s) : s[i] \in Chars
  BY LenProperties, ElementOfSeq DEF Texts
<1>2. Sep \in Chars /\ Sep # Slash
  BY LettersAre
<1> DEFINE t == [i \in 1..Len(s) |-> IF s[i] = Slash THEN Sep ELSE s[i]]
<1>3. t \in Seq(Chars) /\ Len(t) = Len(s) /\ \A i \in 1..Len(s) : t[i] = IF s[i] = Slash THEN Sep ELSE s[i]
  BY <1>1, <1>2
<1>4. Turned(s) = t
  BY <1>1 DEF Turned
<1> HIDE DEF t
<1> QED  BY <1>1, <1>2, <1>3, <1>4 DEF Texts

\* Either separator parts the same components.
LEMMA ComponentsOfTurned ==
  ASSUME NEW s \in Texts
  PROVE  Components(Turned(s)) = Components(s)
<1> DEFINE T == {q \in Seq(Chars) : Components(Turned(q)) = Components(q)}
<1>1. <<>> \in T
  <2>1. <<>> \in Seq(Chars) /\ Len(<<>>) = 0
    BY EmptySeq
  <2>2. Turned(<<>>) \in Seq(Chars) /\ Len(Turned(<<>>)) = 0
    BY <2>1, TurnedIs DEF Texts
  <2>3. Turned(<<>>) = <<>>
    BY <2>2, EmptySeq
  <2> QED  BY <2>1, <2>3
<1>2. ASSUME NEW q \in Seq(Chars), NEW x \in Chars, q \in T PROVE Append(q, x) \in T
  <2> PICK y : y = IF x = Slash THEN Sep ELSE x
    OBVIOUS
  <2>1. Turned(q) \in Seq(Chars) /\ y \in Chars /\ Append(q, x) \in Seq(Chars)
    BY TurnedIs, AppendIs, LettersAre DEF Texts
  <2>2. Turned(Append(q, x)) = Append(Turned(q), y)
    <3> PICK t, u, v : t = Append(q, x) /\ u = Turned(t) /\ v = Append(Turned(q), y)
      OBVIOUS
    <3>1. t \in Seq(Chars) /\ Len(t) = Len(q) + 1 /\ t[Len(q) + 1] = x /\ \A i \in 1..Len(q) : t[i] = q[i]
      BY AppendProperties
    <3>2. u \in Seq(Chars) /\ Len(u) = Len(t) /\ \A i \in 1..Len(t) : u[i] = IF t[i] = Slash THEN Sep ELSE t[i]
      BY <3>1, TurnedIs DEF Texts
    <3>3. Len(Turned(q)) = Len(q) /\ Len(q) \in Nat /\ \A i \in 1..Len(q) : Turned(q)[i] = IF q[i] = Slash THEN Sep ELSE q[i]
      BY TurnedIs DEF Texts
    <3>4. v \in Seq(Chars) /\ Len(v) = Len(q) + 1 /\ v[Len(q) + 1] = y /\ \A i \in 1..Len(q) : v[i] = Turned(q)[i]
      BY <2>1, <3>3, AppendProperties
    <3>5. ASSUME NEW i \in 1..Len(u) PROVE u[i] = v[i]
      <4>1. i \in 1..Len(q) \/ i = Len(q) + 1
        BY <3>1, <3>2, <3>3
      <4>2. CASE i \in 1..Len(q)
        BY <3>1, <3>2, <3>3, <3>4, <4>2
      <4>3. CASE i = Len(q) + 1
        BY <3>1, <3>2, <3>3, <3>4, <4>3
      <4> QED  BY <4>1, <4>2, <4>3
    <3>6. Len(u) = Len(v)
      BY <3>1, <3>2, <3>4
    <3>7. u = v
      BY <3>2, <3>4, <3>5, <3>6, SeqEqual
    <3> QED  BY <3>7
  <2>3. Components(Append(Turned(q), y)) = Split(Components(Turned(q)), y)
    BY <2>1, ComponentsAppend
  <2>4. Components(Append(q, x)) = Split(Components(q), x)
    BY ComponentsAppend
  <2>5. \A r : Split(r, x) = Split(r, y)
    BY DEF Split
  <2> QED  BY <1>2, <2>1, <2>2, <2>3, <2>4, <2>5
<1>3. Seq(Chars) \subseteq T
  <2> HIDE DEF T
  <2> QED  BY <1>1, <1>2, Grows
<1> QED  BY <1>3 DEF Texts

\* What stands below, in lower case.
LEMMA LowerOfBelow ==
  ASSUME NEW parts \in Seq(Texts)
  PROVE  ToLowerPath(Below(parts)) = Below(Fold(parts)) /\ Below(parts) \in Texts
<1>0. Sep \in Chars /\ Lc(Sep) = Sep
  <2>1. Sep \in Chars /\ Sep \in Marks
    BY LettersAre
  <2> QED  BY <2>1, LettersAre
<1> DEFINE T == {p \in Seq(Texts) : Below(p) \in Texts /\ ToLowerPath(Below(p)) = Below(Fold(p))}
<1>1. <<>> \in T
  <2>1. <<>> \in Seq(Texts) /\ <<>> \in Texts
    BY EmptySeq DEF Texts
  <2>2. Fold(<<>>) = <<>>
    BY <2>1, FoldInTexts
  <2> QED  BY <2>1, <2>2, BelowOfNothing, LowerOfNothing
<1>2. ASSUME NEW p \in Seq(Texts), NEW x \in Texts, p \in T PROVE Append(p, x) \in T
  <2> PICK b, y, f : b = Below(p) /\ y = ToLowerPath(x) /\ f = Fold(p)
    OBVIOUS
  <2>1. b \in Texts /\ y \in Texts /\ f \in Seq(Texts) /\ ToLowerPath(b) = Below(f)
    BY <1>2, LowerIs, FoldInTexts
  <2>2. Below(Append(p, x)) = Append(b, Sep) \o x
    BY <1>0, BelowAppend DEF Texts
  <2>3. Below(Append(f, y)) = Append(Below(f), Sep) \o y
    BY <1>0, <2>1, BelowAppend DEF Texts
  <2>4. Fold(Append(p, x)) = Append(f, y)
    BY FoldOfAppend
  <2>5. ToLowerPath(Append(b, Sep)) = Append(ToLowerPath(b), Sep) /\ Append(b, Sep) \in Texts
    BY <1>0, <2>1, LowerOfAppend
  <2>6. ToLowerPath(Append(b, Sep) \o x) = Append(ToLowerPath(b), Sep) \o y /\ Append(b, Sep) \o x \in Texts
    BY <2>5, LowerOfConcat
  <2>7. Append(p, x) \in Seq(Texts)
    BY AppendIs
  <2> QED  BY <2>1, <2>2, <2>3, <2>4, <2>6, <2>7
<1>3. Seq(Texts) \subseteq T
  <2> HIDE DEF T
  <2> QED  BY <1>1, <1>2, Grows
<1> QED  BY <1>3

------------------------------------------------------------------------------
(* The place a text names.                                                 *)

\* Paths one after the other.
LEMMA FoldOfConcat ==
  ASSUME NEW S, NEW p \in Seq(S), NEW q \in Seq(S)
  PROVE  Fold(p \o q) = Fold(p) \o Fold(q)
<1> PICK R : R = {ToLowerPath(x) : x \in S}
  OBVIOUS
<1>0. ASSUME NEW t \in Seq(S) PROVE Fold(t) \in Seq(R)
  BY FoldIs
<1> DEFINE T == {t \in Seq(S) : Fold(p \o t) = Fold(p) \o Fold(t)}
<1>1. <<>> \in T
  <2>1. <<>> \in Seq(S) /\ Len(<<>>) = 0 /\ p \o <<>> = p
    BY EmptySeq, ConcatEmptySeq
  <2>2. Fold(<<>>) \in Seq(R) /\ Len(Fold(<<>>)) = 0
    BY <2>1, FoldIs
  <2>3. Fold(<<>>) = <<>>
    BY <2>2, EmptySeq
  <2>4. Fold(p) \o <<>> = Fold(p)
    BY <1>0, ConcatEmptySeq
  <2> QED  BY <2>1, <2>3, <2>4
<1>2. ASSUME NEW t \in Seq(S), NEW x \in S, t \in T PROVE Append(t, x) \in T
  <2>1. p \o Append(t, x) = Append(p \o t, x) /\ p \o t \in Seq(S) /\ Append(t, x) \in Seq(S)
    BY AppendToConcat, AppendIs
  <2>2. Fold(Append(p \o t, x)) = Append(Fold(p \o t), ToLowerPath(x))
    BY <2>1, FoldOfAppend
  <2>3. Fold(Append(t, x)) = Append(Fold(t), ToLowerPath(x))
    BY FoldOfAppend
  <2>4. Fold(p) \o Append(Fold(t), ToLowerPath(x)) = Append(Fold(p) \o Fold(t), ToLowerPath(x))
    BY <1>0, AppendToConcat
  <2> QED  BY <1>2, <2>1, <2>2, <2>3, <2>4
<1>3. Seq(S) \subseteq T
  <2> HIDE DEF T
  <2> QED  BY <1>1, <1>2, Grows
<1> QED  BY <1>3

\* Components that name something.
NameTexts == Plains \ {<<>>, <<".">>, <<"..">>}

\* The components below the drive of a text.
Parts(s) == Walk(Components(Tail(s)))

\* Names are texts without separators, and those are texts.
LEMMA NamesArePlain ==
  /\ NameTexts \subseteq Plains /\ Plains \subseteq Texts /\ NameTexts \subseteq Texts
  /\ Seq(NameTexts) \subseteq Seq(Plains) /\ Seq(Plains) \subseteq Seq(Texts) /\ Seq(NameTexts) \subseteq Seq(Texts)
<1>1. NameTexts \subseteq Plains
  BY DEF NameTexts
<1>2. Seq(NameTexts) \subseteq Seq(Plains)
  BY <1>1, SeqMonotonic
<1> QED  BY <1>1, <1>2, PlainsAreTexts

\* A text with a first character, and the rest of it.
LEMMA TailIs ==
  ASSUME NEW s \in Texts, s # <<>>
  PROVE  /\ Tail(s) \in Texts /\ s[1] \in Chars /\ Len(s) \in Nat \ {0} /\ Len(Tail(s)) = Len(s) - 1
         /\ \A i \in 1..(Len(s) - 1) : Tail(s)[i] = s[i + 1]
         /\ s = <<s[1]>> \o Tail(s)
<1>1. s \in Seq(Chars) /\ Len(s) \in Nat \ {0}
  BY EmptySeq DEF Texts
<1>2. Tail(s) \in Seq(Chars) /\ Len(Tail(s)) = Len(s) - 1 /\ \A i \in 1..(Len(s) - 1) : Tail(s)[i] = s[i + 1]
  BY <1>1, HeadTailProperties
<1>3. s[1] \in Chars
  BY <1>1, ElementOfSeq
<1>4. s = <<s[1]>> \o Tail(s)
  <2> PICK a, t, u : a = <<s[1]>> /\ t = Tail(s) /\ u = a \o t
    OBVIOUS
  <2>1. a \in Seq(Chars) /\ Len(a) = 1 /\ a[1] = s[1]
    BY <1>3
  <2>2. u \in Seq(Chars) /\ Len(u) = 1 + Len(t) /\ \A i \in 1..(1 + Len(t)) : u[i] = IF i <= 1 THEN a[i] ELSE t[i - 1]
    BY <1>2, <2>1, ConcatProperties
  <2>3. Len(u) = Len(s)
    BY <1>1, <1>2, <2>2
  <2>4. ASSUME NEW i \in 1..Len(s) PROVE u[i] = s[i]
    <3>1. CASE i = 1
      BY <1>1, <1>2, <2>1, <2>2, <3>1
    <3>2. CASE i # 1
      <4>1. i - 1 \in 1..(Len(s) - 1) /\ (i - 1) + 1 = i /\ i \in 1..(1 + Len(t)) /\ ~(i <= 1)
        BY <1>1, <1>2, <3>2
      <4> QED  BY <1>2, <2>2, <4>1
    <3> QED  BY <3>1, <3>2
  <2>5. u = s
    BY <1>1, <2>2, <2>3, <2>4, SeqEqual
  <2> QED  BY <2>5
<1> QED  BY <1>1, <1>2, <1>3, <1>4 DEF Texts

\* What stands behind the first character.
LEMMA TailOfConcat ==
  ASSUME NEW d \in Chars, NEW t \in Texts
  PROVE  <<d>> \o t \in Texts /\ (<<d>> \o t)[1] = d /\ Tail(<<d>> \o t) = t /\ Len(<<d>> \o t) = Len(t) + 1
         /\ \A i \in 1..Len(t) : (<<d>> \o t)[i + 1] = t[i]
<1> PICK a, u : a = <<d>> /\ u = a \o t
  OBVIOUS
<1>1. a \in Seq(Chars) /\ Len(a) = 1 /\ a[1] = d /\ t \in Seq(Chars) /\ Len(t) \in Nat
  BY LenProperties DEF Texts
<1>2. u \in Seq(Chars) /\ Len(u) = 1 + Len(t) /\ \A i \in 1..(1 + Len(t)) : u[i] = IF i <= 1 THEN a[i] ELSE t[i - 1]
  BY <1>1, ConcatProperties
<1>3. u[1] = d
  BY <1>1, <1>2
<1>4. \A i \in 1..Len(t) : u[i + 1] = t[i]
  <2> SUFFICES ASSUME NEW i \in 1..Len(t) PROVE u[i + 1] = t[i]
    OBVIOUS
  <2>1. i + 1 \in 1..(1 + Len(t)) /\ ~(i + 1 <= 1) /\ (i + 1) - 1 = i
    BY <1>1
  <2> QED  BY <1>2, <2>1
<1>5. u # <<>>
  BY <1>1, <1>2, EmptySeq
<1>6. Tail(u) \in Seq(Chars) /\ Len(Tail(u)) = Len(t) /\ \A i \in 1..Len(t) : Tail(u)[i] = u[i + 1]
  BY <1>1, <1>2, <1>5, HeadTailProperties
<1>7. Tail(u) = t
  BY <1>1, <1>4, <1>6, SeqEqual
<1> QED  BY <1>1, <1>2, <1>3, <1>4, <1>7 DEF Texts

\* The components of a text are names.
LEMMA PartsIs ==
  ASSUME NEW s \in Texts, s # <<>>
  PROVE  /\ Parts(s) \in Seq(NameTexts) /\ Components(Tail(s)) \in Seq(Plains)
         /\ PlaceNamed(s) = << <<Lc(s[1])>> >> \o Fold(Parts(s))
<1>1. Tail(s) \in Texts /\ s[1] \in Chars
  BY TailIs
<1>2. Components(Tail(s)) \in Seq(Plains)
  BY <1>1, ComponentsAreTexts DEF Texts, Plains
<1>3. Parts(s) \in Seq(NameTexts)
  BY <1>2, WalkIsClean DEF Parts, NameTexts
<1>4. Parts(s) \in Seq(Texts)
  BY <1>3, NamesArePlain
<1>5. <<s[1]>> \in Texts /\ ToLowerPath(<<s[1]>>) = <<Lc(s[1])>>
  <2>1. <<s[1]>> = Append(<<>>, s[1]) /\ <<>> \in Texts
    BY EmptySeq DEF Texts
  <2>2. ToLowerPath(Append(<<>>, s[1])) = Append(ToLowerPath(<<>>), Lc(s[1])) /\ Append(<<>>, s[1]) \in Texts
    BY <1>1, <2>1, LowerOfAppend
  <2>3. Append(<<>>, Lc(s[1])) = <<Lc(s[1])>>
    OBVIOUS
  <2> QED  BY <2>1, <2>2, <2>3, LowerOfNothing
<1>6. Fold(<< <<s[1]>> >>) = << <<Lc(s[1])>> >> /\ << <<s[1]>> >> \in Seq(Texts)
  <2> PICK x : x = <<s[1]>>
    OBVIOUS
  <2>1. x \in Texts /\ <<>> \in Seq(Texts) /\ Append(<<>>, x) = <<x>> /\ <<x>> \in Seq(Texts)
    BY <1>5
  <2>2. Fold(Append(<<>>, x)) = Append(Fold(<<>>), ToLowerPath(x))
    BY <2>1, FoldOfAppend
  <2>3. Fold(<<>>) = <<>>
    BY <2>1, FoldInTexts
  <2>4. Append(<<>>, ToLowerPath(x)) = <<ToLowerPath(x)>>
    OBVIOUS
  <2> QED  BY <1>5, <2>1, <2>2, <2>3, <2>4
<1>7. Fold(<< <<s[1]>> >> \o Parts(s)) = Fold(<< <<s[1]>> >>) \o Fold(Parts(s))
  BY <1>4, <1>6, FoldOfConcat
<1>8. PlaceNamed(s) = Fold(<< <<s[1]>> >> \o Parts(s))
  BY DEF PlaceNamed, Clean, Parts
<1> QED  BY <1>2, <1>3, <1>6, <1>7, <1>8

\* Components without their separators are as they were.
LEMMA PartsOfTurned ==
  ASSUME NEW s \in Texts, s # <<>>
  PROVE  Parts(Turned(s)) = Parts(s) /\ Turned(s) # <<>>
<1> PICK t : t = Turned(s)
  OBVIOUS
<1>1. t \in Texts /\ t # <<>> /\ Len(t) = Len(s) /\ Len(s) \in Nat \ {0}
      /\ \A i \in 1..Len(s) : t[i] = IF s[i] = Slash THEN Sep ELSE s[i]
  <2>1. Len(s) \in Nat \ {0}
    BY TailIs
  <2>2. t \in Texts /\ Len(t) = Len(s) /\ \A i \in 1..Len(s) : t[i] = IF s[i] = Slash THEN Sep ELSE s[i]
    BY TurnedIs
  <2>3. t # <<>>
    BY <2>1, <2>2, EmptySeq
  <2> QED  BY <2>1, <2>2, <2>3
<1> PICK a, b, c : a = Tail(s) /\ b = Tail(t) /\ c = Turned(a)
  BY Zenon
<1>2. a \in Texts /\ b \in Texts /\ c \in Texts
  BY <1>1, TailIs, TurnedIs, Zenon
<1>3. Len(a) = Len(s) - 1 /\ \A i \in 1..(Len(s) - 1) : a[i] = s[i + 1]
  BY TailIs
<1>4. Len(b) = Len(s) - 1 /\ \A i \in 1..(Len(s) - 1) : b[i] = t[i + 1]
  <2>1. Len(b) = Len(t) - 1 /\ \A i \in 1..(Len(t) - 1) : b[i] = t[i + 1]
    BY <1>1, TailIs, Zenon
  <2> QED  BY <1>1, <2>1, Zenon
<1>5. Len(c) = Len(s) - 1 /\ \A i \in 1..(Len(s) - 1) : c[i] = IF a[i] = Slash THEN Sep ELSE a[i]
  <2>1. Len(c) = Len(a) /\ \A i \in 1..Len(a) : c[i] = IF a[i] = Slash THEN Sep ELSE a[i]
    BY <1>2, TurnedIs
  <2> QED  BY <1>3, <2>1, Zenon
<1>6. ASSUME NEW i \in 1..Len(b) PROVE b[i] = c[i]
  <2>1. i \in 1..(Len(s) - 1) /\ i + 1 \in 1..Len(s)
    BY <1>1, <1>4
  <2>2. b[i] = t[i + 1] /\ t[i + 1] = IF s[i + 1] = Slash THEN Sep ELSE s[i + 1]
    BY <1>1, <1>4, <2>1
  <2> QED  BY <1>3, <1>5, <2>1, <2>2
<1>7. b = c
  <2>1. b \in Seq(Chars) /\ c \in Seq(Chars)
    BY <1>2 DEF Texts
  <2>2. Len(b) = Len(c)
    BY <1>4, <1>5, Zenon
  <2> QED  BY ONLY <1>6, <2>1, <2>2, SeqEqual
<1>8. Components(c) = Components(a)
  BY <1>2, ComponentsOfTurned
<1> QED  BY <1>1, <1>7, <1>8 DEF Parts

\* Nor does letter case touch them.
LEMMA PartsOfLower ==
  ASSUME NEW s \in Texts, s # <<>>
  PROVE  Parts(ToLowerPath(s)) = Fold(Parts(s)) /\ ToLowerPath(s) # <<>> /\ ToLowerPath(s)[1] = Lc(s[1])
<1>1. /\ Tail(s) \in Texts /\ s[1] \in Chars /\ s = <<s[1]>> \o Tail(s) /\ Len(s) \in Nat \ {0}
      /\ Components(Tail(s)) \in Seq(Texts)
  BY TailIs, PartsIs, NamesArePlain
<1>2. ToLowerPath(s) # <<>> /\ ToLowerPath(s)[1] = Lc(s[1]) /\ ToLowerPath(s) \in Texts
  <2>1. Len(ToLowerPath(s)) = Len(s) /\ ToLowerPath(s)[1] = Lc(s[1]) /\ ToLowerPath(s) \in Texts
    BY <1>1, LowerIs
  <2> QED  BY <1>1, <2>1, EmptySeq
<1>3. Tail(ToLowerPath(s)) = ToLowerPath(Tail(s))
  <2> PICK a, b, c : a = Tail(s) /\ b = Tail(ToLowerPath(s)) /\ c = ToLowerPath(a)
    OBVIOUS
  <2>1. Len(a) = Len(s) - 1 /\ a \in Texts /\ \A i \in 1..(Len(s) - 1) : a[i] = s[i + 1]
    BY TailIs
  <2>2. Len(ToLowerPath(s)) = Len(s) /\ \A i \in 1..Len(s) : ToLowerPath(s)[i] = Lc(s[i])
    BY LowerIs
  <2>3. Len(b) = Len(s) - 1 /\ b \in Texts /\ \A i \in 1..(Len(s) - 1) : b[i] = ToLowerPath(s)[i + 1]
    BY <1>2, <2>2, TailIs, Zenon
  <2>4. Len(c) = Len(s) - 1 /\ c \in Texts /\ \A i \in 1..(Len(s) - 1) : c[i] = Lc(a[i])
    BY <2>1, LowerIs, Zenon
  <2>5. ASSUME NEW i \in 1..Len(b) PROVE b[i] = c[i]
    <3>1. i \in 1..(Len(s) - 1) /\ i + 1 \in 1..Len(s)
      BY <1>1, <2>3
    <3> QED  BY <2>1, <2>2, <2>3, <2>4, <3>1
  <2>6. b = c
    BY <2>3, <2>4, <2>5, SeqEqual DEF Texts
  <2> QED  BY <2>6
<1>4. Components(ToLowerPath(Tail(s))) = Fold(Components(Tail(s)))
  BY <1>1, ComponentsOfLower
<1>5. Walk(Fold(Components(Tail(s)))) = Fold(Walk(Components(Tail(s))))
  BY <1>1, WalkOfFold
<1> QED  BY <1>2, <1>3, <1>4, <1>5 DEF Parts

------------------------------------------------------------------------------
(* Texts written from a drive and components.                              *)

\* What is not empty and without separators ends in no separator.
EndsInName(s) == s \in Texts /\ s # <<>> /\ s[Len(s)] \notin {Sep, Slash}

\* Below at least one name stands a name.
LEMMA BelowEnds ==
  ASSUME NEW Q \in Seq(NameTexts), Q # <<>>
  PROVE  EndsInName(Below(Q)) /\ Len(Below(Q)) > 1
<1>1. PICK p \in Seq(NameTexts), x \in NameTexts : Q = Append(p, x)
  BY SequenceEmptyOrAppend
<1>2. p \in Seq(Texts) /\ x \in Texts /\ Sep \in Chars
  BY NamesArePlain, LettersAre
<1>3. Below(p) \in Texts /\ Below(Q) = Append(Below(p), Sep) \o x
  BY <1>1, <1>2, BelowAppend DEF Texts
<1> PICK a, b, X : a = Append(Below(p), Sep) /\ b = a \o x /\ X = Chars \ {Sep, Slash}
  OBVIOUS
<1>4. a \in Seq(Chars) /\ Len(a) = Len(Below(p)) + 1 /\ Len(Below(p)) \in Nat
  BY <1>2, <1>3, AppendProperties, LenProperties DEF Texts
<1>5. x \in Seq(X) /\ Len(x) \in Nat \ {0} /\ x[Len(x)] \in X
  <2>1. x \in Seq(X) /\ x # <<>>
    BY DEF NameTexts, Plains
  <2> QED  BY <2>1, EmptySeq, ElementOfSeq
<1>6. b \in Seq(Chars) /\ Len(b) = Len(a) + Len(x) /\ b[Len(a) + Len(x)] = x[Len(x)]
  <2>1. x \in Seq(Chars)
    BY <1>2 DEF Texts
  <2>2. b \in Seq(Chars) /\ Len(b) = Len(a) + Len(x)
        /\ \A i \in 1..(Len(a) + Len(x)) : b[i] = IF i <= Len(a) THEN a[i] ELSE x[i - Len(a)]
    BY <1>4, <2>1, ConcatProperties
  <2>3. Len(a) + Len(x) \in 1..(Len(a) + Len(x)) /\ ~(Len(a) + Len(x) <= Len(a)) /\ (Len(a) + Len(x)) - Len(a) = Len(x)
    BY <1>4, <1>5
  <2> QED  BY <2>2, <2>3
<1>7. Len(b) \in Nat /\ Len(b) > 1 /\ b # <<>>
  BY <1>4, <1>5, <1>6, EmptySeq
<1> QED  BY <1>3, <1>5, <1>6, <1>7 DEF EndsInName, Texts

\* No text made of names has a slash.
LEMMA BelowHasNoSlash ==
  ASSUME NEW Q \in Seq(NameTexts)
  PROVE  Below(Q) \in Seq(Chars \ {Slash})
<1> PICK X, D : X = Chars \ {Slash} /\ D = Chars \ {Sep, Slash}
  OBVIOUS
<1>1. Sep \in X
  BY LettersAre
<1>2. Q \in Seq(Seq(X))
  <2>1. Seq(D) \subseteq Seq(X)
    BY SeqMonotonic
  <2>2. NameTexts \subseteq Seq(D)
    BY DEF NameTexts, Plains
  <2>3. NameTexts \subseteq Seq(X)
    BY <2>1, <2>2
  <2> QED  BY <2>3, SeqMonotonic
<1>3. PICK f : Descends(f, X, Q)
  BY <1>1, <1>2, BelowIs
<1>4. Len(Q) \in 0..Len(Q)
  BY LenProperties
<1> QED  BY <1>3, <1>4 DEF Descends

\* What stands below one component after the other.
LEMMA BelowOfConcat ==
  ASSUME NEW u \in Seq(Texts), NEW v \in Seq(Texts)
  PROVE  Below(u \o v) = Below(u) \o Below(v)
<1>0. Sep \in Chars
  BY LettersAre
<1>1. \A q \in Seq(Texts) : Below(q) \in Texts
  BY LowerOfBelow
<1> DEFINE T == {q \in Seq(Texts) : Below(u \o q) = Below(u) \o Below(q)}
<1>2. <<>> \in T
  <2>1. <<>> \in Seq(Texts) /\ u \o <<>> = u
    BY EmptySeq, ConcatEmptySeq
  <2>2. Below(u) \o <<>> = Below(u)
    BY <1>1, ConcatEmptySeq DEF Texts
  <2> QED  BY <2>1, <2>2, BelowOfNothing
<1>3. ASSUME NEW q \in Seq(Texts), NEW x \in Texts, q \in T PROVE Append(q, x) \in T
  <2>1. u \o Append(q, x) = Append(u \o q, x) /\ u \o q \in Seq(Texts) /\ Append(q, x) \in Seq(Texts)
    BY AppendToConcat, AppendIs
  <2>2. Below(Append(u \o q, x)) = Append(Below(u \o q), Sep) \o x
    BY <1>0, <2>1, BelowAppend DEF Texts
  <2>3. Below(Append(q, x)) = Append(Below(q), Sep) \o x
    BY <1>0, BelowAppend DEF Texts
  <2> PICK b, c : b = Below(u) /\ c = Below(q)
    OBVIOUS
  <2>4. b \in Seq(Chars) /\ c \in Seq(Chars) /\ x \in Seq(Chars)
    BY <1>1 DEF Texts
  <2>5. b \o Append(c, Sep) = Append(b \o c, Sep) /\ Append(c, Sep) \in Seq(Chars)
    BY <1>0, <2>4, AppendToConcat, AppendIs
  <2>6. (b \o Append(c, Sep)) \o x = b \o (Append(c, Sep) \o x)
    <3> PICK g : g = Append(c, Sep)
      OBVIOUS
    <3>1. g \in Seq(Chars)
      BY <2>5
    <3>2. (b \o g) \o x = b \o (g \o x)
      BY ONLY <2>4, <3>1, ConcatAssociative, SMTT(20)
    <3> QED  BY <3>2
  <2> QED  BY <1>3, <2>1, <2>2, <2>3, <2>5, <2>6
<1>4. Seq(Texts) \subseteq T
  <2> HIDE DEF T
  <2> QED  BY <1>2, <1>3, Grows
<1> QED  BY <1>4

\* A name is not empty and has no separators.
LEMMA NameBegins ==
  ASSUME NEW x \in NameTexts
  PROVE  x \in Texts /\ Len(x) \in Nat \ {0} /\ x[1] \in Chars /\ x[1] \notin {Sep, Slash}
<1> PICK X : X = Chars \ {Sep, Slash}
  OBVIOUS
<1>1. x \in Seq(X) /\ x # <<>>
  BY DEF NameTexts, Plains
<1>2. Len(x) \in Nat \ {0} /\ x[1] \in X
  BY <1>1, EmptySeq, ElementOfSeq
<1> QED  BY <1>2, NamesArePlain

\* Below at least one name there is a separator before the first.
LEMMA BelowBegins ==
  ASSUME NEW Q \in Seq(NameTexts), Q # <<>>
  PROVE  Below(Q)[1] = Sep /\ Below(Q)[2] \notin {Sep, Slash}
<1>0. Sep \in Chars /\ Q \in Seq(Texts)
  BY LettersAre, NamesArePlain
<1> PICK x, r : x = Head(Q) /\ r = Tail(Q)
  OBVIOUS
<1>1. x \in NameTexts /\ r \in Seq(NameTexts) /\ Q = <<x>> \o r
  OBVIOUS
<1>2. x \in Texts /\ Len(x) \in Nat \ {0} /\ x[1] \in Chars /\ x[1] \notin {Sep, Slash}
  BY <1>1, NameBegins
<1>3. r \in Seq(Texts) /\ <<x>> \in Seq(Texts) /\ <<>> \in Seq(Texts) /\ Append(<<>>, x) = <<x>>
  BY <1>1, <1>2, NamesArePlain
<1>4. Below(Q) = Below(<<x>>) \o Below(r)
  BY <1>1, <1>3, BelowOfConcat
<1>5. Below(<<x>>) = Append(<<>>, Sep) \o x
  BY <1>0, <1>2, <1>3, BelowAppend, BelowOfNothing DEF Texts
<1>6. Append(<<>>, Sep) = <<Sep>>
  OBVIOUS
<1> PICK a, b : a = <<Sep>> \o x /\ b = Below(r)
  OBVIOUS
<1>7. a \in Seq(Chars) /\ a[1] = Sep /\ Len(a) = Len(x) + 1 /\ \A i \in 1..Len(x) : a[i + 1] = x[i]
  BY <1>0, <1>2, TailOfConcat DEF Texts
<1>8. b \in Seq(Chars)
  BY <1>3, LowerOfBelow DEF Texts
<1>9. 1 \in 1..Len(a) /\ 2 \in 1..Len(a) /\ a[2] = x[1]
  <2>1. 1 \in 1..Len(x) /\ 1 + 1 = 2
    BY <1>2
  <2>2. a[1 + 1] = x[1]
    BY <1>7, <2>1
  <2> QED  BY <1>2, <1>7, <2>1, <2>2
<1>10. \A i \in 1..Len(a) : (a \o b)[i] = a[i]
  <2>1. Len(a) \in Nat /\ Len(b) \in Nat
    BY <1>7, <1>8, LenProperties
  <2> QED  BY <1>7, <1>8, <2>1, ConcatProperties
<1>11. Below(Q) = a \o b
  BY <1>4, <1>5, <1>6
<1>12. (a \o b)[1] = Sep /\ (a \o b)[2] = x[1]
  BY <1>7, <1>9, <1>10
<1> QED  BY <1>2, <1>11, <1>12

\* A text from a drive and names.
LEMMA WrittenIs ==
  ASSUME NEW d \in Chars \ {Slash}, NEW Q \in Seq(NameTexts)
  PROVE  /\ Written(d, Q) \in Seq(Chars \ {Slash}) /\ Written(d, Q) \in Texts /\ Written(d, Q) # <<>>
         /\ Written(d, Q)[1] = d /\ Written(d, Q)[2] = Sep /\ Len(Written(d, Q)) > 1
         /\ Len(Written(d, Q)) \in Nat
         /\ Tail(Written(d, Q)) = IF Q = <<>> THEN <<Sep>> ELSE Below(Q)
<1> PICK t : t = IF Q = <<>> THEN <<Sep>> ELSE Below(Q)
  OBVIOUS
<1> PICK X : X = Chars \ {Slash}
  OBVIOUS
<1>0. Sep \in Chars /\ Sep \in X /\ Q \in Seq(Texts)
  BY LettersAre, NamesArePlain
<1>1. t \in Texts /\ t \in Seq(X)
  <2>1. <<Sep>> \in Seq(X) /\ <<Sep>> \in Seq(Chars)
    BY <1>0
  <2> QED  BY <1>0, <2>1, BelowHasNoSlash, LowerOfBelow DEF Texts
<1>2. Written(d, Q) = <<d>> \o t
  BY DEF Written
<1> PICK w : w = <<d>> \o t
  OBVIOUS
<1>3. /\ w \in Texts /\ w[1] = d /\ Tail(w) = t /\ Len(w) = Len(t) + 1
      /\ \A i \in 1..Len(t) : w[i + 1] = t[i]
  <2>1. d \in Chars
    OBVIOUS
  <2>2. d \in Chars /\ t \in Texts
    BY <1>1, <2>1
  <2>3. <<d>> \o t \in Texts /\ (<<d>> \o t)[1] = d /\ Tail(<<d>> \o t) = t /\ Len(<<d>> \o t) = Len(t) + 1
        /\ \A i \in 1..Len(t) : (<<d>> \o t)[i + 1] = t[i]
    BY ONLY <2>2, TailOfConcat
  <2> QED  BY <2>3
<1>4. w \in Seq(X)
  <2>1. <<d>> \in Seq(X)
    OBVIOUS
  <2> QED  BY <1>1, <2>1, ConcatProperties
<1>5. t[1] = Sep /\ Len(t) \in Nat \ {0}
  <2>1. CASE Q = <<>>
    <3>1. t = <<Sep>>
      BY <2>1
    <3> QED  BY <3>1
  <2>2. CASE Q # <<>>
    <3>1. Len(Below(Q)) \in Nat
      BY <1>0, LowerOfBelow, LowerIs
    <3> QED  BY <2>2, <3>1, BelowBegins, BelowEnds
  <2> QED  BY <2>1, <2>2
<1>6. w[2] = Sep /\ Len(w) > 1 /\ Len(w) \in Nat
  <2>1. 1 \in 1..Len(t) /\ 1 + 1 = 2
    BY <1>5
  <2>2. w[1 + 1] = t[1]
    BY <1>3, <2>1
  <2> QED  BY <1>3, <1>5, <2>1, <2>2
<1>7. w # <<>>
  BY <1>3, <1>6, EmptySeq
<1> QED  BY <1>2, <1>3, <1>4, <1>6, <1>7

\* Writing a text of components and taking it apart again.
LEMMA PartsOfWritten ==
  ASSUME NEW d \in Chars \ {Slash}, NEW Q \in Seq(NameTexts)
  PROVE  /\ Parts(Written(d, Q)) = Q
         /\ Append(Written(d, Q), Sep) \in Texts /\ Append(Written(d, Q), Sep)[1] = d
         /\ Append(Written(d, Q), Sep) # <<>> /\ Parts(Append(Written(d, Q), Sep)) = Q
<1> PICK w, t, v : w = Written(d, Q) /\ t = Tail(w) /\ v = Append(w, Sep)
  OBVIOUS
<1> PICK e : e = << <<>> >>
  OBVIOUS
<1>0. Sep \in Chars /\ Q \in Seq(Plains) /\ <<>> \in Plains /\ e \in Seq(Plains)
  <2>1. <<>> \in Plains
    BY EmptySeq DEF Plains
  <2> QED  BY <2>1, LettersAre, NamesArePlain
<1>1. w \in Seq(Chars) /\ w # <<>> /\ w[1] = d /\ t \in Seq(Chars) /\ Len(w) \in Nat /\ Len(w) > 1
      /\ t = IF Q = <<>> THEN <<Sep>> ELSE Below(Q)
  BY WrittenIs, TailIs DEF Texts
<1>2. v \in Seq(Chars) /\ v # <<>> /\ v[1] = d /\ Tail(v) = Append(t, Sep)
  <2>1. v \in Seq(Chars) /\ v # <<>> /\ v[1] = w[1]
    BY <1>0, <1>1, AppendProperties
  <2>2. Tail(v) = Append(t, Sep)
    BY <1>1, HeadTailAppend
  <2> QED  BY <1>1, <2>1, <2>2
<1>3. e \o Q \in Seq(Plains) /\ Walk(e \o Q) = Q
  <2>1. Walk(e \o Q) = Q
    BY WalkOfClean DEF NameTexts
  <2> QED  BY <1>0, <2>1, ConcatProperties
<1>4. ASSUME NEW p \in Seq(Plains) PROVE Walk(Append(p, <<>>)) = Walk(p)
  BY <1>0, WalkAppend DEF Onwards
<1>5. Components(Append(t, Sep)) = Append(Components(t), <<>>)
  BY <1>0, <1>1, ComponentsAppend DEF Split
<1>6. Components(t) \in Seq(Plains)
  BY <1>1, ComponentsAreTexts DEF Plains
<1>7. Walk(Components(t)) = Q
  <2>1. CASE Q = <<>>
    <3>0. t = <<Sep>>
      BY <1>1, <2>1
    <3>9. Append(<<>>, Sep) = <<Sep>>
      OBVIOUS
    <3>1. t = Append(<<>>, Sep) /\ <<>> \in Seq(Chars)
      BY <3>0, <3>9, EmptySeq
    <3>2. Components(t) = Append(e, <<>>)
      BY <1>0, <3>1, ComponentsAppend, ComponentsOfNothing DEF Split
    <3>3. e \o Q = e
      BY <1>0, <2>1, ConcatEmptySeq
    <3> QED  BY <1>0, <1>3, <1>4, <3>2, <3>3
  <2>2. CASE Q # <<>>
    <3>1. Components(t) = e \o Q
      BY <1>0, <1>1, <2>2, ComponentsOfBelow DEF Plains
    <3> QED  BY <1>3, <3>1
  <2> QED  BY <2>1, <2>2
<1>8. Walk(Components(Append(t, Sep))) = Q
  BY <1>4, <1>5, <1>6, <1>7
<1> QED  BY <1>1, <1>2, <1>7, <1>8 DEF Parts, Texts

------------------------------------------------------------------------------
(* What NormalizePath leaves of a text that begins with a drive.           *)

\* When one text begins with another but for letter case.
LEMMA StartsIs ==
  ASSUME NEW s \in Texts, NEW p \in Texts
  PROVE  /\ Len(s) \in Nat /\ Len(p) \in Nat
         /\ StartsWithIgnoreCase(s, p) <=> Len(p) <= Len(s) /\ \A i \in 1..Len(p) : Lc(p[i]) = Lc(s[i])
<1> PICK v, w : v = ToLowerPath(s) /\ w = ToLowerPath(p)
  OBVIOUS
<1>1. /\ v \in Seq(Chars) /\ Len(v) = Len(s) /\ Len(s) \in Nat /\ \A i \in 1..Len(s) : v[i] = Lc(s[i])
      /\ w \in Seq(Chars) /\ Len(w) = Len(p) /\ Len(p) \in Nat /\ \A i \in 1..Len(p) : w[i] = Lc(p[i])
  BY LowerIs DEF Texts
<1>2. IsPrefix(w, v) <=> Len(w) <= Len(v) /\ \A i \in 1..Len(w) : w[i] = v[i]
  <2>1. IsPrefix(w, v) <=> Len(w) <= Len(v) /\ SubSeq(w, 1, Len(w)) = SubSeq(v, 1, Len(w))
    BY DEF IsPrefix
  <2>2. ASSUME Len(w) <= Len(v)
        PROVE  SubSeq(w, 1, Len(w)) = SubSeq(v, 1, Len(w)) <=> \A i \in 1..Len(w) : w[i] = v[i]
    <3> PICK a, b, n : a = SubSeq(w, 1, Len(w)) /\ b = SubSeq(v, 1, Len(w)) /\ n = Len(w)
      OBVIOUS
    <3>1. n \in Nat /\ n <= Len(w) /\ n <= Len(v)
      BY <1>1, <2>2
    <3>2. a \in Seq(Chars) /\ Len(a) = n /\ \A i \in 1..n : a[i] = w[i]
      BY <1>1, <3>1, FirstOnes
    <3>3. b \in Seq(Chars) /\ Len(b) = n /\ \A i \in 1..n : b[i] = v[i]
      BY <1>1, <3>1, FirstOnes
    <3>4. (\A i \in 1..n : a[i] = b[i]) => a = b
      BY <3>2, <3>3, SeqEqual
    <3>5. a = b <=> \A i \in 1..n : a[i] = b[i]
      BY <3>4
    <3> QED  BY <3>2, <3>3, <3>5
  <2> QED  BY <2>1, <2>2
<1>3. IsPrefix(w, v) <=> Len(p) <= Len(s) /\ \A i \in 1..Len(p) : Lc(p[i]) = Lc(s[i])
  BY <1>1, <1>2
<1> QED  BY <1>1, <1>3 DEF StartsWithIgnoreCase

\* What the code takes away from the end of a text.
LEMMA RemovedTrailing ==
  ASSUME NEW s \in Texts, NEW m \in 0..Len(s), m = 0 \/ s[m] \notin {Sep, Slash},
         \A i \in (m + 1)..Len(s) : s[i] \in {Sep, Slash}
  PROVE  RemoveTrailingSlash(s)
            = SubSeq(s, 1, IF m = 1 /\ Len(s) > 1 /\ s[1] \in ToSet(Drives) THEN 2 ELSE m)
<1> DEFINE kept == {n \in 0..Len(s) : \A i \in (n + 1)..Len(s) : s[i] \in {Sep, Slash}}
           n == CHOOSE k \in kept : \A j \in kept : k <= j
<1>1. Len(s) \in Nat
  BY LowerIs
<1>2. m \in kept
  OBVIOUS
<1>3. \A k \in kept : m <= k
  <2> SUFFICES ASSUME NEW k \in kept, k < m PROVE FALSE
    BY <1>1
  <2>1. m \in (k + 1)..Len(s) /\ m # 0
    BY <1>1
  <2> QED  BY <2>1
<1>4. n = m
  <2>1. n \in kept /\ \A j \in kept : n <= j
    BY <1>2, <1>3
  <2>2. n \in 0..Len(s) /\ m \in 0..Len(s)
    BY <2>1
  <2> HIDE DEF n, kept
  <2> QED  BY <1>1, <1>2, <1>3, <2>1, <2>2
<1> HIDE DEF n, kept
<1>5. RemoveTrailingSlash(s) = SubSeq(s, 1, IF n = 1 /\ Len(s) > 1 /\ s[1] \in ToSet(Drives) THEN 2 ELSE n)
  BY DEF RemoveTrailingSlash, n, kept
<1> QED  BY <1>4, <1>5

\* Every text has a last character that is no separator, if any.
LEMMA LastName ==
  ASSUME NEW s \in Texts
  PROVE  \E m \in 0..Len(s) : /\ m = 0 \/ s[m] \notin {Sep, Slash}
                              /\ \A i \in (m + 1)..Len(s) : s[i] \in {Sep, Slash}
<1> DEFINE S == {n \in 0..Len(s) : n = 0 \/ s[n] \notin {Sep, Slash}}
<1>1. Len(s) \in Nat
  BY LowerIs
<1>2. PICK m \in S : \A k \in S : k <= m
  <2>1. S \in SUBSET (0..Len(s)) /\ S # {}
    BY <1>1
  <2> HIDE DEF S
  <2> QED  BY <1>1, <2>1, Greatest
<1>3. \A i \in (m + 1)..Len(s) : s[i] \in {Sep, Slash}
  <2> SUFFICES ASSUME NEW i \in (m + 1)..Len(s), s[i] \notin {Sep, Slash} PROVE FALSE
    OBVIOUS
  <2>1. i \in S /\ m \in Nat /\ i \in Nat /\ i > m
    BY <1>1
  <2> HIDE DEF S
  <2> QED  BY <1>2, <2>1
<1> QED  BY <1>2, <1>3

\* A folder of the list has no separator at its end, unless it is a drive's root.
LEMMA ListedEnds ==
  ASSUME NEW s \in Texts
  PROVE  /\ RemoveTrailingSlash(s) \in Texts
         /\ Len(RemoveTrailingSlash(s)) > 2 => Last(RemoveTrailingSlash(s)) # Sep
<1>1. PICK m \in 0..Len(s) : /\ m = 0 \/ s[m] \notin {Sep, Slash}
                             /\ \A i \in (m + 1)..Len(s) : s[i] \in {Sep, Slash}
  BY LastName
<1> PICK k : k = IF m = 1 /\ Len(s) > 1 /\ s[1] \in ToSet(Drives) THEN 2 ELSE m
  OBVIOUS
<1> PICK r : r = SubSeq(s, 1, k)
  OBVIOUS
<1>2. RemoveTrailingSlash(s) = r
  BY <1>1, RemovedTrailing
<1>3. k \in Nat /\ k <= Len(s) /\ Len(s) \in Nat /\ (k > 2 => k = m)
  BY LowerIs
<1>4. r \in Seq(Chars) /\ Len(r) = k /\ \A i \in 1..k : r[i] = s[i]
  BY <1>3, FirstOnes DEF Texts
<1>5. k > 2 => r[k] # Sep
  BY <1>1, <1>3, <1>4
<1> QED  BY <1>2, <1>4, <1>5 DEF Last, Texts

\* A text that begins with a drive, for the proofs.
OnDrive(s) == s \in Texts /\ s # <<>> /\ Len(s) > 1 /\ s[1] \in ToSet(Drives) /\ s[2] \in {Sep, Slash}

\* The letters of the drives are no marks.
LEMMA DrivesAre ==
  ASSUME NEW d \in ToSet(Drives)
  PROVE  d \in Chars \ Marks /\ Lc(d) \in Chars \ Marks /\ Lc(d) # Lc("UNC") /\ d \in Chars \ {Slash}
<1>1. d \in Chars \ Marks
  <2> PICK L : L = Chars \ Marks
    OBVIOUS
  <2>1. Drives \in Seq(L)
    BY LettersAssumption
  <2>2. d \in L
    BY <2>1, ElementOfSeq DEF ToSet
  <2> QED  BY <2>2
<1>2. Lc(d) \in Chars /\ Lc(d) \notin Marks
  BY <1>1, LettersAre
<1>3. ToLowerPath(<<d>>) # ToLowerPath(<<"UNC">>)
  BY LettersAssumption
<1>4. ASSUME NEW c PROVE ToLowerPath(<<c>>) = <<Lc(c)>>
  BY DEF ToLowerPath, Lc
<1>5. Slash \in Marks
  BY LettersAre
<1> QED  BY <1>1, <1>2, <1>3, <1>4, <1>5

\* The texts of the constants that begin with a drive do so.
LEMMA IsOnDriveIs ==
  ASSUME NEW s, IsOnDrive(s)
  PROVE  OnDrive(s)
BY EmptySeq DEF IsOnDrive, OnDrive, Texts

\* What stands before a path that begins with a drive is taken away.
Stripped(dev, s) == DevicePathToDosPath(dev, WithWindowsDir(WithoutNamespace(Unquoted(s))))

NormalizedFrom(path) ==
    IF Len(path) >= 2 /\ path[1] \in ToSet(Drives) /\ path[2] = Sep THEN GetFullPathSafe(path)
    ELSE path

\* NormalizePath is the steps below, one after the other.
LEMMA NormalizeIs ==
  ASSUME NEW dev, NEW s
  PROVE  NormalizeFilePath(dev, s) = NormalizedFrom(Stripped(dev, Turned(s)))
BY DEF NormalizeFilePath, Stripped, Turned, NormalizedFrom

\* What QueryDosDevice answers.
DevicesAre(dev) == dev \in [ToSet(Drives) -> Volumes \cup {<<>>}]

\* A path lies on the volume of a drive.
LiesOn(dev, path, d) ==
    /\ dev[d] # <<>> /\ StartsWithIgnoreCase(path, dev[d])
    /\ IsBoundaryAfterPrefix(path, Len(dev[d]))

\* Where the letter of a volume takes the place of its name.
LEMMA DeviceIs ==
  ASSUME NEW dev, NEW path
  PROVE  \/ /\ \A d \in ToSet(Drives) : ~LiesOn(dev, path, d)
            /\ DevicePathToDosPath(dev, path) = path
         \/ \E d \in ToSet(Drives) :
              /\ LiesOn(dev, path, d)
              /\ DevicePathToDosPath(dev, path) =
                   LET rest == After(path, Len(dev[d]))
                   IN  IF rest # <<>> THEN <<d>> \o rest ELSE <<d, Sep>>
<1> DEFINE I == {i \in 1..Len(Drives) : LiesOn(dev, path, Drives[i])}
           n == IF I # {} THEN Min(I) ELSE 0
           rest == After(path, Len(dev[Drives[n]]))
<1>1. DevicePathToDosPath(dev, path) =
        IF n = 0 THEN path ELSE IF rest # <<>> THEN <<Drives[n]>> \o rest ELSE <<Drives[n], Sep>>
  BY DEF DevicePathToDosPath, SelectInSeq, LiesOn
<1>2. Len(Drives) \in Nat /\ ToSet(Drives) = {Drives[i] : i \in 1..Len(Drives)}
  <2>1. Drives \in Seq(Chars \ Marks)
    BY LettersAssumption
  <2>2. DOMAIN Drives = 1..Len(Drives) /\ Len(Drives) \in Nat
    BY <2>1, LenProperties
  <2> QED  BY <2>2 DEF ToSet
<1>3. CASE I = {}
  <2>1. \A d \in ToSet(Drives) : ~LiesOn(dev, path, d)
    BY <1>2, <1>3
  <2>2. n = 0
    BY <1>3
  <2> QED  BY <1>1, <2>1, <2>2
<1>4. CASE I # {}
  <2>1. n \in I
    <3>1. PICK m \in I : \A k \in I : m <= k
      <4> DEFINE J == {Len(Drives) - i : i \in I}
      <4>1. J \in SUBSET (0..Len(Drives)) /\ J # {}
        BY <1>2, <1>4
      <4>2. PICK j \in J : \A k \in J : k <= j
        <5> HIDE DEF J
        <5> QED  BY <1>2, <4>1, Greatest
      <4>3. PICK i \in I : j = Len(Drives) - i
        OBVIOUS
      <4>4. ASSUME NEW k \in I PROVE i <= k
        <5>1. Len(Drives) - k \in J
          OBVIOUS
        <5>2. Len(Drives) - k <= Len(Drives) - i
          BY <4>2, <4>3, <5>1
        <5> QED  BY <1>2, <5>2
      <4> QED  BY <4>4
    <3>2. Min(I) \in I
      <4> HIDE DEF I
      <4> QED  BY <3>1 DEF Min
    <3> QED  BY <1>4, <3>2
  <2>2. n \in 1..Len(Drives) /\ n # 0 /\ LiesOn(dev, path, Drives[n]) /\ Drives[n] \in ToSet(Drives)
    <3> HIDE DEF n
    <3> QED  BY <1>2, <2>1
  <2> HIDE DEF n
  <2> QED  BY <1>1, <2>2
<1> QED  BY <1>3, <1>4

\* The names of volumes are texts.
LEMMA VolumesAre ==
  ASSUME NEW v \in Volumes
  PROVE  /\ v \in Texts /\ v \in Seq(Chars \ {Slash}) /\ Len(v) > 1 /\ Len(v) \in Nat /\ v[1] = Sep /\ v # <<>>
         /\ v[2] \notin Marks /\ v[2] \in Chars /\ Lc(v[2]) # Lc("SystemRoot")
<1>1. v \in Seq(Chars \ {Slash}) /\ Len(v) > 1 /\ v[1] = Sep /\ v[2] \notin Marks
      /\ ToLowerPath(<<v[2]>>) # ToLowerPath(<<"SystemRoot">>)
  BY VolumesAssumption
<1>2. v \in Seq(Chars \ {Slash}) /\ v \in Seq(Chars)
  BY <1>1, SeqMonotonic
<1>3. Len(v) \in Nat /\ v[2] \in Chars /\ v # <<>>
  BY <1>1, <1>2, EmptySeq, LenProperties, ElementOfSeq
<1>4. ASSUME NEW c PROVE ToLowerPath(<<c>>) = <<Lc(c)>>
  BY DEF ToLowerPath, Lc
<1> QED  BY <1>1, <1>2, <1>3, <1>4 DEF Texts

\* No text that begins with a drive begins with anything the code looks for.
LEMMA DriveBegins ==
  ASSUME NEW s \in Texts, Len(s) > 1, s[1] \in ToSet(Drives), NEW p \in Texts, Len(p) > 0,
         p[1] \in Marks \/ p[1] = "UNC"
  PROVE  ~StartsWithIgnoreCase(s, p)
<1>1. Lc(s[1]) \notin Marks /\ Lc(s[1]) # Lc("UNC")
  BY DrivesAre
<1>2. p[1] \in Marks => Lc(p[1]) = p[1]
  BY LettersAre
<1>3. Lc(p[1]) # Lc(s[1])
  BY <1>1, <1>2
<1>4. 1 \in 1..Len(p)
  BY StartsIs
<1> QED  BY <1>3, <1>4, StartsIs

\* What the code looks for at the beginning of a text.
LEMMA BeginningsAre ==
  /\ <<Sep, "?", "?", Sep>> \in Texts /\ <<Sep, Sep, "?", Sep>> \in Texts /\ <<"UNC", Sep>> \in Texts
  /\ <<Sep, "SystemRoot", Sep>> \in Texts /\ <<Quote>> \in Texts /\ <<Sep>> \in Texts
  /\ Sep \in Marks /\ Quote \in Marks /\ "?" \in Marks
<1>1. Sep \in Chars /\ "?" \in Chars /\ "UNC" \in Chars /\ "SystemRoot" \in Chars /\ Quote \in Chars
  BY DEF Chars, Marks
<1> PICK C : C = Chars
  OBVIOUS
<1>2. ASSUME NEW a \in C, NEW b \in C, NEW c \in C, NEW d \in C
      PROVE  <<a, b, c, d>> \in Seq(C) /\ <<a, b, c>> \in Seq(C) /\ <<a, b>> \in Seq(C) /\ <<a>> \in Seq(C)
  OBVIOUS
<1>3. Sep \in Marks /\ Quote \in Marks /\ "?" \in Marks
  BY DEF Marks
<1> QED  BY <1>1, <1>2, <1>3 DEF Texts

\* A text that begins with a drive stays as it is.
LEMMA DriveStays ==
  ASSUME NEW dev, DevicesAre(dev), NEW s \in Texts, Len(s) > 1, s[1] \in ToSet(Drives)
  PROVE  /\ Unquoted(s) = s /\ WithoutNamespace(s) = s /\ WithWindowsDir(s) = s
         /\ DevicePathToDosPath(dev, s) = s /\ Stripped(dev, s) = s
<1>1. s[1] \notin Marks
  BY DrivesAre
<1>2. Unquoted(s) = s
  <2>1. Head(s) = s[1]
    BY DEF Texts
  <2> QED  BY <1>1, <2>1, BeginningsAre DEF Unquoted
<1>3. ASSUME NEW p \in Texts, Len(p) > 0, p[1] \in Marks \/ p[1] = "UNC"
      PROVE  ~StartsWithIgnoreCase(s, p)
  BY <1>3, DriveBegins
<1>4. WithoutNamespace(s) = s
  <2>1. ~StartsWithIgnoreCase(s, <<Sep, "?", "?", Sep>>)
    BY <1>3, BeginningsAre
  <2>2. ~StartsWithIgnoreCase(s, <<Sep, Sep, "?", Sep>>)
    BY <1>3, BeginningsAre
  <2>3. ~StartsWithIgnoreCase(s, <<"UNC", Sep>>)
    BY <1>3, BeginningsAre
  <2> QED  BY <2>1, <2>2, <2>3 DEF WithoutNamespace, RemovePrefix
<1>5. WithWindowsDir(s) = s
  <2>1. ~StartsWithIgnoreCase(s, <<Sep, "SystemRoot", Sep>>)
    BY <1>3, BeginningsAre
  <2> QED  BY <2>1 DEF WithWindowsDir
<1>6. DevicePathToDosPath(dev, s) = s
  <2>1. \A d \in ToSet(Drives) : ~LiesOn(dev, s, d)
    <3> SUFFICES ASSUME NEW d \in ToSet(Drives), LiesOn(dev, s, d) PROVE FALSE
      OBVIOUS
    <3>1. dev[d] \in Volumes
      BY DEF DevicesAre, LiesOn
    <3>2. dev[d] \in Texts /\ Len(dev[d]) > 0 /\ dev[d][1] \in Marks
      BY <3>1, VolumesAre, BeginningsAre
    <3> QED  BY <1>3, <3>2 DEF LiesOn
  <2> QED  BY <2>1, DeviceIs
<1> QED  BY <1>2, <1>4, <1>5, <1>6 DEF Stripped

\* A text that begins with a drive, with the separators of Windows.
LEMMA TurnedOnDrive ==
  ASSUME NEW s, OnDrive(s)
  PROVE  /\ OnDrive(Turned(s)) /\ Turned(s)[1] = s[1] /\ Turned(s)[2] = Sep /\ Parts(Turned(s)) = Parts(s)
         /\ Len(Turned(s)) >= 2
<1>1. s \in Texts /\ s # <<>> /\ Len(s) > 1 /\ s[1] \in ToSet(Drives) /\ s[2] \in {Sep, Slash}
  BY DEF OnDrive
<1>2. s[1] # Slash
  BY <1>1, DrivesAre
<1>3. Parts(Turned(s)) = Parts(s) /\ Turned(s) # <<>>
  BY <1>1, PartsOfTurned
<1>4. /\ Turned(s) \in Texts /\ Len(Turned(s)) = Len(s) /\ Len(s) \in Nat
      /\ \A i \in 1..Len(s) : Turned(s)[i] = IF s[i] = Slash THEN Sep ELSE s[i]
  BY <1>1, TurnedIs
<1>5. Turned(s)[1] = s[1] /\ Turned(s)[2] = Sep
  BY <1>1, <1>2, <1>4
<1> QED  BY <1>1, <1>3, <1>4, <1>5 DEF OnDrive

\* A text of a drive and names, with or without a separator at its end.
LEMMA WrittenOnDrive ==
  ASSUME NEW d \in ToSet(Drives), NEW Q \in Seq(NameTexts)
  PROVE  /\ OnDrive(Written(d, Q)) /\ Parts(Written(d, Q)) = Q /\ Written(d, Q)[1] = d
         /\ OnDrive(Append(Written(d, Q), Sep)) /\ Parts(Append(Written(d, Q), Sep)) = Q
         /\ Append(Written(d, Q), Sep)[1] = d
         /\ Written(d, Q)[2] = Sep /\ Append(Written(d, Q), Sep)[2] = Sep
<1>1. d \in Chars \ {Slash} /\ Sep \in Chars
  BY DrivesAre, LettersAre
<1> PICK w, v : w = Written(d, Q) /\ v = Append(w, Sep)
  OBVIOUS
<1>2. w \in Texts /\ w # <<>> /\ w[1] = d /\ w[2] = Sep /\ Len(w) > 1 /\ Len(w) \in Nat
  BY <1>1, WrittenIs
<1>3. Parts(w) = Q /\ v \in Texts /\ v[1] = d /\ v # <<>> /\ Parts(v) = Q
  BY <1>1, PartsOfWritten
<1>4. Len(v) > 1 /\ v[2] = Sep
  BY <1>1, <1>2, AppendProperties DEF Texts
<1> QED  BY <1>2, <1>3, <1>4 DEF OnDrive

\* What GetFullPathName makes of a text that begins with a drive: the drive, the
\* names, and a separator if there was one.
LEMMA FullPathIs ==
  ASSUME NEW t, OnDrive(t), t[2] = Sep
  PROVE  LET w == Written(t[1], Parts(t))
             n == NormalizedFrom(t)
         IN  /\ n = w \/ (n = Append(w, Sep) /\ Last(w) # Sep)
             /\ OnDrive(n) /\ n[1] = t[1] /\ n[2] = Sep /\ Parts(n) = Parts(t)
<1> PICK w, n : w = Written(t[1], Parts(t)) /\ n = NormalizedFrom(t)
  OBVIOUS
<1>1. t \in Texts /\ t # <<>> /\ Len(t) > 1 /\ t[1] \in ToSet(Drives) /\ Len(t) \in Nat
  BY LowerIs DEF OnDrive
<1>2. n = GetFullPathSafe(t)
  <2>1. Len(t) >= 2
    BY <1>1
  <2> QED  BY <1>1, <2>1 DEF NormalizedFrom
<1>3. GetFullPathSafe(t) = w \/ (GetFullPathSafe(t) = Append(w, Sep) /\ Last(w) # Sep)
  <2>1. Written(t[1], Walk(Components(Tail(t)))) = w
    BY DEF Parts
  <2> QED  BY <2>1 DEF GetFullPathSafe
<1>4. Parts(t) \in Seq(NameTexts)
  BY <1>1, PartsIs
<1>5. OnDrive(w) /\ Parts(w) = Parts(t) /\ w[1] = t[1] /\ OnDrive(Append(w, Sep))
      /\ Parts(Append(w, Sep)) = Parts(t) /\ Append(w, Sep)[1] = t[1]
      /\ w[2] = Sep /\ Append(w, Sep)[2] = Sep
  BY <1>1, <1>4, WrittenOnDrive
<1> PICK v : v = Append(w, Sep)
  OBVIOUS
<1>6. (n = w \/ (n = v /\ Last(w) # Sep)) /\ OnDrive(n) /\ n[1] = t[1] /\ n[2] = Sep /\ Parts(n) = Parts(t)
  BY <1>2, <1>3, <1>5
<1> QED  BY <1>6

\* What becomes of a text that begins with a drive.
LEMMA NormalizedOnDrive ==
  ASSUME NEW dev, DevicesAre(dev), NEW s, OnDrive(s)
  PROVE  LET w == Written(s[1], Parts(s))
             n == NormalizeFilePath(dev, s)
         IN  /\ n = w \/ (n = Append(w, Sep) /\ Last(w) # Sep)
             /\ OnDrive(n) /\ n[1] = s[1] /\ n[2] = Sep /\ Parts(n) = Parts(s)
<1> PICK t, w, n : t = Turned(s) /\ w = Written(s[1], Parts(s)) /\ n = NormalizeFilePath(dev, s)
  OBVIOUS
<1>1. OnDrive(t) /\ t[1] = s[1] /\ t[2] = Sep /\ Parts(t) = Parts(s) /\ Len(t) >= 2
  BY TurnedOnDrive
<1>2. t \in Texts /\ Len(t) > 1 /\ t[1] \in ToSet(Drives)
  BY <1>1 DEF OnDrive
<1>3. n = NormalizedFrom(t)
  BY <1>2, DriveStays, NormalizeIs
<1>4. /\ n = w \/ (n = Append(w, Sep) /\ Last(w) # Sep)
      /\ OnDrive(n) /\ n[1] = t[1] /\ n[2] = Sep /\ Parts(n) = Parts(t)
  BY <1>1, <1>3, FullPathIs
<1> QED  BY <1>1, <1>4

\* Without separators at its end it is the drive and the names.
LEMMA ShortenedOnDrive ==
  ASSUME NEW dev, DevicesAre(dev), NEW s, OnDrive(s)
  PROVE  RemoveTrailingSlash(NormalizeFilePath(dev, s)) = Written(s[1], Parts(s))
<1> PICK d, Q, w, n, t :
      d = s[1] /\ Q = Parts(s) /\ w = Written(d, Q) /\ n = NormalizeFilePath(dev, s) /\ t = Tail(w)
  OBVIOUS
<1>1. n = w \/ (n = Append(w, Sep) /\ Last(w) # Sep)
  BY NormalizedOnDrive
<1>2. s \in Texts /\ s # <<>> /\ d \in ToSet(Drives)
  BY DEF OnDrive
<1>3. Q \in Seq(NameTexts) /\ d \in Chars \ {Slash} /\ d \notin {Sep, Slash} /\ Sep \in Chars
  <2>1. Q \in Seq(NameTexts)
    BY <1>2, PartsIs
  <2>2. d \in Chars \ {Slash} /\ d \notin Marks
    BY <1>2, DrivesAre
  <2> QED  BY <2>1, <2>2, LettersAre
<1>4. /\ w \in Texts /\ w # <<>> /\ w[1] = d /\ w[2] = Sep /\ Len(w) > 1 /\ Len(w) \in Nat
      /\ t = IF Q = <<>> THEN <<Sep>> ELSE Below(Q)
  BY <1>3, WrittenIs
<1>5. Len(t) = Len(w) - 1 /\ \A i \in 1..(Len(w) - 1) : t[i] = w[i + 1]
  BY <1>4, TailIs
<1>6. CASE Q = <<>>
  <2>1. Len(w) = 2 /\ Last(w) = Sep /\ n = w
    <3>1. Len(<<Sep>>) = 1
      OBVIOUS
    <3>2. t = <<Sep>>
      BY <1>4, <1>6
    <3>5. Len(t) = 1
      BY <3>1, <3>2
    <3>3. Len(w) = 2
      BY <1>4, <1>5, <3>5
    <3>4. Last(w) = Sep
      BY <1>4, <3>3 DEF Last
    <3> QED  BY <1>1, <3>3, <3>4
  <2>2. 1 \in 0..Len(w) /\ w[1] \notin {Sep, Slash} /\ \A i \in (1 + 1)..Len(w) : w[i] \in {Sep, Slash}
    BY <1>3, <1>4, <2>1
  <2>3. RemoveTrailingSlash(w) = SubSeq(w, 1, 2)
    BY <1>2, <1>4, <2>1, <2>2, RemovedTrailing
  <2>4. SubSeq(w, 1, 2) = w
    BY <1>4, <2>1 DEF Texts
  <2> QED  BY <2>1, <2>3, <2>4
<1>7. CASE Q # <<>>
  <2>1. t = Below(Q) /\ EndsInName(t) /\ Len(t) > 1
    BY <1>3, <1>4, <1>7, BelowEnds
  <2>2. w[Len(w)] \notin {Sep, Slash} /\ Len(w) > 2
    <3>1. Len(t) \in 1..(Len(w) - 1) /\ Len(t) + 1 = Len(w)
      BY <1>4, <1>5, <2>1
    <3>2. t[Len(t)] = w[Len(w)]
      BY <1>5, <3>1
    <3> QED  BY <2>1, <3>1, <3>2 DEF EndsInName
  <2>3. /\ n \in Texts /\ Len(n) \in {Len(w), Len(w) + 1}
        /\ \A i \in 1..Len(w) : n[i] = w[i]
        /\ \A i \in (Len(w) + 1)..Len(n) : n[i] \in {Sep, Slash}
    <3> PICK v : v = Append(w, Sep)
      OBVIOUS
    <3>1. v \in Texts /\ Len(v) = Len(w) + 1 /\ v[Len(w) + 1] = Sep /\ \A i \in 1..Len(w) : v[i] = w[i]
      BY <1>3, <1>4, AppendProperties DEF Texts
    <3>2. CASE n = w
      BY <1>4, <3>2
    <3>3. CASE n = v
      <4>1. \A i \in (Len(w) + 1)..Len(n) : i = Len(w) + 1
        BY <1>4, <3>1, <3>3
      <4> QED  BY <3>1, <3>3, <4>1
    <3> QED  BY <1>1, <3>2, <3>3
  <2>4. Len(w) \in 0..Len(n) /\ n[Len(w)] \notin {Sep, Slash} /\ Len(w) # 1 /\ Len(w) <= Len(n)
    BY <1>4, <2>2, <2>3
  <2>5. RemoveTrailingSlash(n) = SubSeq(n, 1, Len(w))
    <3> PICK m : m = Len(w)
      OBVIOUS
    <3>3. \A i \in (m + 1)..Len(n) : n[i] \in {Sep, Slash}
      BY <1>4, <2>3
    <3>4. m \in 0..Len(n) /\ n[m] \notin {Sep, Slash} /\ m # 1 /\ n \in Texts
      BY <2>3, <2>4
    <3>1. m \in 0..Len(n) /\ n[m] \notin {Sep, Slash} /\ m # 1 /\ n \in Texts
          /\ \A i \in (m + 1)..Len(n) : n[i] \in {Sep, Slash}
      BY <3>3, <3>4
    <3>2. RemoveTrailingSlash(n) = SubSeq(n, 1, IF m = 1 /\ Len(n) > 1 /\ n[1] \in ToSet(Drives) THEN 2 ELSE m)
      BY ONLY <3>1, RemovedTrailing
    <3> QED  BY <3>1, <3>2
  <2> PICK r : r = SubSeq(n, 1, Len(w))
    OBVIOUS
  <2>6. r \in Seq(Chars) /\ Len(r) = Len(w) /\ \A i \in 1..Len(w) : r[i] = n[i]
    BY <1>4, <2>3, <2>4, FirstOnes DEF Texts
  <2>7. r = w
    BY <1>4, <2>3, <2>6, SeqEqual DEF Texts
  <2> QED  BY <2>5, <2>7
<1> QED  BY <1>6, <1>7

------------------------------------------------------------------------------
(* Comparing places by comparing texts.                                    *)

\* A prefix is equal as far as it goes, and what it leaves out comes after it.
LEMMA PrefixIs ==
  ASSUME NEW S, NEW s \in Seq(S), NEW t \in Seq(S)
  PROVE  /\ Len(s) \in Nat /\ Len(t) \in Nat
         /\ IsPrefix(s, t) <=> Len(s) <= Len(t) /\ \A i \in 1..Len(s) : s[i] = t[i]
         /\ IsPrefix(s, t) => /\ After(t, Len(s)) \in Seq(S) /\ t = s \o After(t, Len(s))
                              /\ Len(After(t, Len(s))) = Len(t) - Len(s)
<1> PICK n : n = Len(s)
  OBVIOUS
<1>1. n \in Nat /\ Len(t) \in Nat
  BY LenProperties
<1>2. IsPrefix(s, t) <=> n <= Len(t) /\ SubSeq(s, 1, n) = SubSeq(t, 1, n)
  BY DEF IsPrefix
<1>3. ASSUME n <= Len(t)
      PROVE  SubSeq(s, 1, n) = SubSeq(t, 1, n) <=> \A i \in 1..n : s[i] = t[i]
  <2> PICK a, b : a = SubSeq(s, 1, n) /\ b = SubSeq(t, 1, n)
    OBVIOUS
  <2>1. a \in Seq(S) /\ Len(a) = n /\ \A i \in 1..n : a[i] = s[i]
    BY <1>1, FirstOnes
  <2>2. b \in Seq(S) /\ Len(b) = n /\ \A i \in 1..n : b[i] = t[i]
    BY <1>1, <1>3, FirstOnes
  <2>3. (\A i \in 1..n : a[i] = b[i]) => a = b
    BY <2>1, <2>2, SeqEqual
  <2>4. a = b <=> \A i \in 1..n : a[i] = b[i]
    BY <2>3
  <2> QED  BY <2>1, <2>2, <2>4
<1>4. IsPrefix(s, t) <=> n <= Len(t) /\ \A i \in 1..n : s[i] = t[i]
  BY <1>2, <1>3
<1>5. ASSUME IsPrefix(s, t)
      PROVE  After(t, n) \in Seq(S) /\ t = s \o After(t, n) /\ Len(After(t, n)) = Len(t) - n
  <2>1. n <= Len(t) /\ \A i \in 1..n : s[i] = t[i]
    BY <1>4, <1>5
  <2> PICK r : r = SubSeq(t, n + 1, Len(t))
    OBVIOUS
  <2>2. r \in Seq(S) /\ Len(r) = Len(t) - n /\ \A i \in 1..(Len(t) - n) : r[i] = t[n + i]
    BY <1>1, <2>1
  <2> PICK q : q = s \o r
    OBVIOUS
  <2>3. q \in Seq(S) /\ Len(q) = Len(t) /\ \A i \in 1..Len(t) : q[i] = IF i <= n THEN s[i] ELSE r[i - n]
    BY <1>1, <2>1, <2>2, ConcatProperties
  <2>4. ASSUME NEW i \in 1..Len(q) PROVE q[i] = t[i]
    <3>1. CASE i <= n
      <4>1. i \in 1..n /\ i \in 1..Len(t)
        BY <1>1, <2>3, <3>1
      <4>2. q[i] = s[i]
        BY <2>3, <3>1, <4>1
      <4> QED  BY <2>1, <4>1, <4>2
    <3>2. CASE ~(i <= n)
      <4>1. i - n \in 1..(Len(t) - n) /\ n + (i - n) = i
        BY <1>1, <2>1, <2>3, <3>2
      <4> QED  BY <2>2, <2>3, <3>2, <4>1
    <3> QED  BY <3>1, <3>2
  <2>5. q = t
    BY <2>3, <2>4, SeqEqual
  <2> QED  BY <2>2, <2>5 DEF After
<1> QED  BY <1>1, <1>4, <1>5

\* What a text begins with is a prefix of it.
LEMMA ConcatPrefix ==
  ASSUME NEW S, NEW s \in Seq(S), NEW u \in Seq(S)
  PROVE  IsPrefix(s, s \o u) /\ s \o u \in Seq(S) /\ Len(s \o u) = Len(s) + Len(u)
<1> PICK t : t = s \o u
  OBVIOUS
<1>1. Len(s) \in Nat /\ Len(u) \in Nat
  BY LenProperties
<1>2. t \in Seq(S) /\ Len(t) = Len(s) + Len(u) /\ \A i \in 1..(Len(s) + Len(u)) : t[i] = IF i <= Len(s) THEN s[i] ELSE u[i - Len(s)]
  BY ConcatProperties
<1>3. Len(s) <= Len(t) /\ \A i \in 1..Len(s) : s[i] = t[i]
  BY <1>1, <1>2
<1>4. IsPrefix(s, t)
  BY <1>2, <1>3, PrefixIs
<1> QED  BY <1>2, <1>4

\* What stands behind the same is the same.
LEMMA ConcatSame ==
  ASSUME NEW S, NEW s \in Seq(S), NEW u \in Seq(S), NEW v \in Seq(S), s \o u = s \o v
  PROVE  u = v
<1> PICK t : t = s \o u /\ t = s \o v
  OBVIOUS
<1>1. Len(s) \in Nat /\ Len(u) \in Nat /\ Len(v) \in Nat
  BY LenProperties
<1>2. Len(t) = Len(s) + Len(u) /\ \A i \in 1..(Len(s) + Len(u)) : t[i] = IF i <= Len(s) THEN s[i] ELSE u[i - Len(s)]
  BY ConcatProperties
<1>3. Len(t) = Len(s) + Len(v) /\ \A i \in 1..(Len(s) + Len(v)) : t[i] = IF i <= Len(s) THEN s[i] ELSE v[i - Len(s)]
  BY ConcatProperties
<1>4. Len(u) = Len(v)
  BY <1>1, <1>2, <1>3
<1>5. ASSUME NEW i \in 1..Len(u) PROVE u[i] = v[i]
  <2>1. Len(s) + i \in 1..(Len(s) + Len(u)) /\ ~(Len(s) + i <= Len(s)) /\ (Len(s) + i) - Len(s) = i
    BY <1>1
  <2> QED  BY <1>2, <1>3, <1>4, <2>1
<1> QED  BY <1>4, <1>5, SeqEqual

\* A sequence of what is in a set.
LEMMA Within ==
  ASSUME NEW A, NEW B, NEW z \in Seq(A), \A i \in 1..Len(z) : z[i] \in B
  PROVE  z \in Seq(B)
OBVIOUS

\* Names in lower case are names.
LEMMA FoldOfNames ==
  ASSUME NEW Q \in Seq(NameTexts)
  PROVE  Fold(Q) \in Seq(NameTexts)
<1>1. Fold(Q) \in Seq({ToLowerPath(x) : x \in NameTexts})
  BY FoldIs
<1>2. ASSUME NEW x \in NameTexts PROVE ToLowerPath(x) \in NameTexts
  <2> PICK y, X : y = ToLowerPath(x) /\ X = Chars \ {Sep, Slash}
    OBVIOUS
  <2>1. x \in Texts /\ x \in Seq(X) /\ x \notin {<<>>, <<".">>, <<"..">>}
    BY NamesArePlain DEF NameTexts, Plains
  <2>2. y \in Texts /\ Len(y) = Len(x) /\ Len(x) \in Nat /\ \A i \in 1..Len(x) : y[i] = Lc(x[i]) /\ x[i] \in Chars
    BY <2>1, LowerIs
  <2>3. \A i \in 1..Len(y) : y[i] \in X
    <3>1. \A i \in 1..Len(x) : x[i] \in X
      BY <2>1, ElementOfSeq
    <3> QED  BY <2>2, <3>1, LettersAre
  <2>4. y \in Seq(X)
    <3>1. y \in Seq(Chars) /\ Len(y) \in Nat
      BY <2>2 DEF Texts
    <3> QED  BY <2>3, <3>1, Within
  <2>5. "." \in Marks /\ ".." \in Marks
    BY DEF Marks
  <2>6. y \notin {<<>>, <<".">>, <<"..">>}
    BY <2>1, <2>5, LowerIsMark
  <2> QED  BY <2>4, <2>6 DEF NameTexts, Plains
<1>3. {ToLowerPath(x) : x \in NameTexts} \subseteq NameTexts
  BY <1>2
<1> QED  BY <1>1, <1>3, SeqMonotonic

\* A text of a drive and names, in lower case.
LEMMA LowerOfWritten ==
  ASSUME NEW d \in Chars \ Marks, NEW Q \in Seq(NameTexts)
  PROVE  ToLowerPath(Written(d, Q)) = Written(Lc(d), Fold(Q)) /\ Lc(d) \in Chars \ Marks
<1> PICK t : t = IF Q = <<>> THEN <<Sep>> ELSE Below(Q)
  OBVIOUS
<1>1. Q \in Seq(Texts) /\ d \in Chars /\ Lc(d) \in Chars \ Marks /\ Lc(Sep) = Sep /\ Sep \in Chars
  <2>1. Sep \in Marks /\ Sep \in Chars
    BY LettersAre
  <2> QED  BY <2>1, NamesArePlain, LettersAre
<1>2. ToLowerPath(Below(Q)) = Below(Fold(Q)) /\ Below(Q) \in Texts /\ (Fold(Q) = <<>> <=> Q = <<>>)
  BY <1>1, LowerOfBelow, FoldInTexts
<1>3. ASSUME NEW c \in Chars PROVE <<c>> \in Texts /\ ToLowerPath(<<c>>) = <<Lc(c)>>
  <2>1. <<c>> \in Texts
    BY DEF Texts
  <2> QED  BY <2>1 DEF ToLowerPath, Lc
<1>4. t \in Texts /\ ToLowerPath(t) = IF Fold(Q) = <<>> THEN <<Sep>> ELSE Below(Fold(Q))
  BY <1>1, <1>2, <1>3
<1>5. ToLowerPath(<<d>> \o t) = <<Lc(d)>> \o ToLowerPath(t)
  <2> PICK a : a = <<d>>
    OBVIOUS
  <2>1. a \in Texts /\ ToLowerPath(a) = <<Lc(d)>>
    BY <1>1, <1>3
  <2>2. ToLowerPath(a \o t) = ToLowerPath(a) \o ToLowerPath(t)
    BY <1>4, <2>1, LowerOfConcat
  <2> QED  BY <2>1, <2>2
<1> QED  BY <1>1, <1>4, <1>5 DEF Written

\* One text goes on below the other.
Inside(a, b) == Len(a) > Len(b) /\ IsPrefix(b, a) /\ a[Len(b) + 1] \in {Sep, Slash}

\* Some names go on after others.
GoesOn(R, P) == R # <<>> /\ \E u \in Seq(NameTexts) : u # <<>> /\ P = R \o u

\* Texts of a drive and names are the same if these are, and one goes on below
\* another one that has names if its names go on after those.
LEMMA WrittenApart ==
  ASSUME NEW e \in Chars \ Marks, NEW f \in Chars \ Marks, NEW P \in Seq(NameTexts), NEW R \in Seq(NameTexts)
  PROVE  /\ Written(e, P) = Written(f, R) <=> e = f /\ P = R
         /\ Inside(Written(e, P), Written(f, R)) <=> e = f /\ GoesOn(R, P)
<1> PICK a, b, s, t : a = Written(e, P) /\ b = Written(f, R) /\ s = Tail(a) /\ t = Tail(b)
  OBVIOUS
<1> PICK o : o = << <<>> >>
  OBVIOUS
<1>0. Sep \in Chars /\ Sep \in Marks /\ Slash \in Marks /\ e \in Chars \ {Slash} /\ f \in Chars \ {Slash}
  BY LettersAre
<1>1. /\ a \in Texts /\ a # <<>> /\ a[1] = e /\ Len(a) > 1 /\ Len(a) \in Nat
      /\ s = IF P = <<>> THEN <<Sep>> ELSE Below(P)
  BY <1>0, WrittenIs
<1>2. /\ b \in Texts /\ b # <<>> /\ b[1] = f /\ Len(b) > 1 /\ Len(b) \in Nat
      /\ t = IF R = <<>> THEN <<Sep>> ELSE Below(R)
  BY <1>0, WrittenIs
<1>3. Parts(a) = P /\ Parts(b) = R
  BY <1>0, PartsOfWritten
<1>4. a = b <=> e = f /\ P = R
  BY <1>1, <1>2, <1>3
<1>5. s \in Texts /\ Len(s) = Len(a) - 1 /\ a = <<e>> \o s /\ \A i \in 1..(Len(a) - 1) : s[i] = a[i + 1]
  BY <1>1, TailIs
<1>6. t \in Texts /\ Len(t) = Len(b) - 1 /\ b = <<f>> \o t /\ \A i \in 1..(Len(b) - 1) : t[i] = b[i + 1]
  BY <1>2, TailIs
<1>7. <<>> \in Plains /\ o \in Seq(Plains) /\ P \in Seq(Plains) /\ R \in Seq(Plains)
  <2>1. <<>> \in Plains
    BY EmptySeq DEF Plains
  <2> QED  BY <2>1, NamesArePlain
<1>8. ASSUME Inside(a, b)
      PROVE  e = f /\ R # <<>> /\ \E u \in Seq(NameTexts) : u # <<>> /\ P = R \o u
  <2>1. Len(a) > Len(b) /\ IsPrefix(b, a) /\ a[Len(b) + 1] \in {Sep, Slash}
    BY <1>8 DEF Inside
  <2>2. \A i \in 1..Len(b) : b[i] = a[i]
    <3>1. a \in Seq(Chars) /\ b \in Seq(Chars) /\ IsPrefix(b, a)
      BY <1>1, <1>2, <2>1 DEF Texts
    <3>2. IsPrefix(b, a) <=> Len(b) <= Len(a) /\ \A i \in 1..Len(b) : b[i] = a[i]
      BY ONLY <3>1, PrefixIs
    <3> QED  BY <3>1, <3>2
  <2>3. e = f
    BY <1>1, <1>2, <2>2
  <2>4. P # <<>>
    <3> SUFFICES ASSUME P = <<>> PROVE FALSE
      OBVIOUS
    <3>1. Len(<<Sep>>) = 1
      OBVIOUS
    <3>2. Len(s) = 1
      BY <1>1, <3>1
    <3> QED  BY <1>1, <1>2, <1>5, <2>1, <3>2
  <2>5. s = Below(P) /\ s[2] \notin {Sep, Slash}
    BY <1>1, <2>4, BelowBegins
  <2>6. R # <<>>
    <3> SUFFICES ASSUME R = <<>> PROVE FALSE
      OBVIOUS
    <3>1. Len(<<Sep>>) = 1
      OBVIOUS
    <3>2. Len(t) = 1
      BY <1>2, <3>1
    <3>3. Len(b) = 2
      BY <1>2, <1>6, <3>2
    <3>4. s[2] = a[2 + 1]
      <4>1. 2 \in 1..(Len(a) - 1)
        <5> PICK k : k = Len(a)
          OBVIOUS
        <5>1. k \in Nat /\ k > 2
          BY <1>1, <2>1, <3>3
        <5> QED  BY <5>1
      <4> QED  BY <1>5, <4>1
    <3> QED  BY <2>1, <2>5, <3>3, <3>4
  <2>7. t = Below(R)
    BY <1>2, <2>6
  <2>8. IsPrefix(t, s)
    <3> PICK k, m : k = Len(a) /\ m = Len(b)
      BY Zenon
    <3>1. k \in Nat /\ m \in Nat /\ k > m /\ Len(s) = k - 1 /\ Len(t) = m - 1
      BY <1>1, <1>2, <1>5, <1>6, <2>1, Zenon
    <3>2. Len(t) <= Len(s)
      BY ONLY <3>1
    <3>3. ASSUME NEW i \in 1..Len(t) PROVE t[i] = s[i]
      <4>1. i \in 1..(m - 1) /\ i \in 1..(k - 1) /\ i + 1 \in 1..m
        BY ONLY <3>1, <3>3
      <4>2. t[i] = b[i + 1] /\ s[i] = a[i + 1] /\ b[i + 1] = a[i + 1]
        BY <1>5, <1>6, <2>2, <4>1, Zenon
      <4> QED  BY ONLY <4>2
    <3>4. s \in Seq(Chars) /\ t \in Seq(Chars)
      BY <1>5, <1>6 DEF Texts
    <3> QED  BY ONLY <3>2, <3>3, <3>4, PrefixIs
  <2> PICK r : r = After(s, Len(t))
    BY Zenon
  <2>9. r \in Seq(Chars) /\ s = t \o r /\ Len(r) = Len(s) - Len(t)
    BY <1>5, <1>6, <2>8, PrefixIs, Zenon DEF Texts
  <2>10. r # <<>> /\ r[1] \in {Sep, Slash}
    <3>1. Len(r) \in Nat \ {0} /\ Len(t) \in Nat
      <4>1. Len(s) \in Nat /\ Len(t) \in Nat /\ Len(s) > Len(t)
        BY <1>1, <1>2, <1>5, <1>6, <2>1
      <4> PICK k, l, n : k = Len(s) /\ l = Len(t) /\ n = Len(r)
        OBVIOUS
      <4>2. k \in Nat /\ l \in Nat /\ k > l /\ n = k - l
        BY <2>9, <4>1
      <4>3. n \in Nat \ {0}
        BY <4>2
      <4> QED  BY <4>1, <4>3
    <3>2. s[Len(t) + 1] = r[1]
      <4> PICK q : q = t \o r
        OBVIOUS
      <4>1. \A i \in 1..(Len(t) + Len(r)) : q[i] = IF i <= Len(t) THEN t[i] ELSE r[i - Len(t)]
        BY <1>6, <2>9, ConcatProperties DEF Texts
      <4>2. Len(t) + 1 \in 1..(Len(t) + Len(r)) /\ ~(Len(t) + 1 <= Len(t)) /\ (Len(t) + 1) - Len(t) = 1
        <5> PICK k, l : k = Len(t) /\ l = Len(r)
          OBVIOUS
        <5>1. k \in Int /\ l \in Int /\ k >= 0 /\ l >= 1
          BY <3>1
        <5>2. k + 1 \in 1..(k + l) /\ ~(k + 1 <= k) /\ (k + 1) - k = 1
          BY ONLY <5>1
        <5> QED  BY <5>2
      <4>3. q[Len(t) + 1] = r[1]
        BY <4>1, <4>2
      <4> QED  BY <2>9, <4>3
    <3>3. s[Len(t) + 1] = a[Len(b) + 1]
      <4>1. Len(t) + 1 \in 1..(Len(a) - 1) /\ (Len(t) + 1) + 1 = Len(b) + 1
        BY <1>1, <1>2, <1>6, <2>1
      <4> QED  BY <1>5, <4>1
    <3> QED  BY <2>1, <3>1, <3>2, <3>3, EmptySeq
  <2> PICK c, g : c = r[1] /\ g = Tail(r)
    OBVIOUS
  <2>11. c \in Chars /\ g \in Seq(Chars) /\ r = <<c>> \o g
    BY <2>9, <2>10, TailIs DEF Texts
  <2>12. s = Append(t, c) \o g
    <3> PICK m : m = <<c>>
      OBVIOUS
    <3>1. m \in Seq(Chars) /\ t \in Seq(Chars)
      BY <1>6, <2>11 DEF Texts
    <3>2. t \o (m \o g) = (t \o m) \o g
      <4>1. t \in Seq(Chars) /\ m \in Seq(Chars) /\ g \in Seq(Chars)
        BY <2>11, <3>1
      <4> QED  BY ONLY <4>1, ConcatAssociative, SMTT(20)
    <3>3. Append(t, c) = t \o m
      BY <2>11, <3>1, AppendIsConcat
    <3> QED  BY <2>9, <2>11, <3>2, <3>3
  <2>13. Components(s) = Components(t) \o Components(g)
    <3>1. t \in Seq(Chars) /\ c \in Chars /\ c \in {Sep, Slash} /\ g \in Seq(Chars)
      BY <1>6, <2>10, <2>11 DEF Texts
    <3>2. Components(Append(t, c) \o g) = Components(t) \o Components(g)
      BY ONLY <3>1, ComponentsConcat
    <3> QED  BY <2>12, <3>2
  <2>14. Components(s) = o \o P /\ Components(t) = o \o R
    BY <1>0, <2>5, <2>7, <1>7, ComponentsOfBelow DEF Plains
  <2> PICK u : u = Components(g)
    OBVIOUS
  <2>15. u \in Seq(Plains) /\ u # <<>>
    BY <2>11, ComponentsAreTexts DEF Plains
  <2>16. P = R \o u
    <3>3. o \in Seq(Plains) /\ R \in Seq(Plains) /\ u \in Seq(Plains)
      BY <1>7, <2>15
    <3>4. (o \o R) \o u = o \o (R \o u)
      BY ONLY <3>3, ConcatAssociative, SMTT(20)
    <3>1. o \o P = o \o (R \o u)
      BY <2>13, <2>14, <3>4
    <3>2. R \o u \in Seq(Plains)
      BY <1>7, <2>15, ConcatProperties
    <3> QED  BY <1>7, <3>1, <3>2, ConcatSame
  <2>17. u \in Seq(NameTexts)
    <3> PICK q : q = R \o u
      OBVIOUS
    <3>1. Len(R) \in Nat /\ Len(u) \in Nat
      BY <1>7, <2>15, LenProperties
    <3>2. Len(q) = Len(R) + Len(u) /\ \A i \in 1..(Len(R) + Len(u)) : q[i] = IF i <= Len(R) THEN R[i] ELSE u[i - Len(R)]
      BY <1>7, <2>15, ConcatProperties
    <3>3. \A i \in 1..Len(q) : q[i] \in NameTexts
      BY <2>16, ElementOfSeq
    <3>4. ASSUME NEW i \in 1..Len(u) PROVE u[i] \in NameTexts
      <4>1. Len(R) + i \in 1..(Len(R) + Len(u)) /\ ~(Len(R) + i <= Len(R)) /\ (Len(R) + i) - Len(R) = i
        BY <3>1
      <4>2. q[Len(R) + i] = u[i]
        BY <3>2, <4>1
      <4> QED  BY <3>2, <3>3, <4>1, <4>2
    <3> QED  BY <2>15, <3>4, Within
  <2> QED  BY <2>3, <2>6, <2>15, <2>16, <2>17
<1>9. ASSUME e = f, R # <<>>, NEW u \in Seq(NameTexts), u # <<>>, P = R \o u
      PROVE  Inside(a, b)
  <2> PICK v : v = Below(u)
    OBVIOUS
  <2>1. R \in Seq(Texts) /\ u \in Seq(Texts) /\ v \in Texts
    BY NamesArePlain, LowerOfBelow
  <2>2. P # <<>>
    <3>1. Len(R) \in Nat \ {0} /\ Len(u) \in Nat
      BY <1>9, EmptySeq
    <3>2. Len(R \o u) = Len(R) + Len(u)
      BY ConcatProperties
    <3> QED  BY <1>9, <3>1, <3>2, EmptySeq
  <2>3. s = t \o v
    <3>1. Below(R \o u) = Below(R) \o Below(u)
      BY <2>1, BelowOfConcat
    <3> QED  BY <1>1, <1>2, <1>9, <2>2, <3>1
  <2>4. a = b \o v
    <3> PICK m : m = <<e>>
      OBVIOUS
    <3>1. m \in Seq(Chars) /\ t \in Seq(Chars) /\ v \in Seq(Chars)
      BY <1>6, <2>1 DEF Texts
    <3>2. m \o (t \o v) = (m \o t) \o v
      BY <3>1, ConcatAssociative, SMTT(20)
    <3> QED  BY <1>5, <1>6, <1>9, <2>3, <3>2
  <2>5. v[1] = Sep /\ Len(v) \in Nat \ {0}
    <3>1. Len(v) > 1 /\ v[1] = Sep
      BY <1>9, BelowBegins, BelowEnds
    <3> QED  BY <2>1, <3>1, LowerIs
  <2>6. IsPrefix(b, a) /\ Len(a) = Len(b) + Len(v)
    BY <1>2, <2>1, <2>4, ConcatPrefix DEF Texts
  <2>7. a[Len(b) + 1] = v[1]
    <3>1. \A i \in 1..(Len(b) + Len(v)) : (b \o v)[i] = IF i <= Len(b) THEN b[i] ELSE v[i - Len(b)]
      BY <1>2, <2>1, ConcatProperties DEF Texts
    <3>2. Len(b) + 1 \in 1..(Len(b) + Len(v)) /\ ~(Len(b) + 1 <= Len(b)) /\ (Len(b) + 1) - Len(b) = 1
      BY <1>2, <2>5
    <3>3. (b \o v)[Len(b) + 1] = v[1]
      BY <3>1, <3>2
    <3> QED  BY <2>4, <3>3
  <2> QED  BY <1>2, <2>5, <2>6, <2>7 DEF Inside
<1> QED  BY <1>4, <1>8, <1>9 DEF GoesOn

\* A place lies at or below another one; nothing lies below a drive's root.
Lies(p, q) == IsPrefix(p, q) /\ (Len(p) = 1 => q = p)

\* Two paths that begin with one component each.
LEMMA PrefixBehind ==
  ASSUME NEW D, NEW x \in D, NEW y \in D, NEW R \in Seq(D), NEW P \in Seq(D)
  PROVE  /\ IsPrefix(<<x>> \o R, <<y>> \o P) <=> x = y /\ IsPrefix(R, P)
         /\ <<x>> \o R = <<y>> \o P <=> x = y /\ R = P
         /\ Len(<<x>> \o R) = Len(R) + 1 /\ Len(R) \in Nat
<1> PICK m, n, p, q : m = <<x>> /\ n = <<y>> /\ p = m \o R /\ q = n \o P
  OBVIOUS
<1>1. m \in Seq(D) /\ Len(m) = 1 /\ m[1] = x /\ n \in Seq(D) /\ Len(n) = 1 /\ n[1] = y
  OBVIOUS
<1>2. Len(R) \in Nat /\ Len(P) \in Nat
  BY LenProperties
<1>3. p \in Seq(D) /\ Len(p) = 1 + Len(R) /\ \A i \in 1..(1 + Len(R)) : p[i] = IF i <= 1 THEN m[i] ELSE R[i - 1]
  BY <1>1, ConcatProperties
<1>4. q \in Seq(D) /\ Len(q) = 1 + Len(P) /\ \A i \in 1..(1 + Len(P)) : q[i] = IF i <= 1 THEN n[i] ELSE P[i - 1]
  BY <1>1, ConcatProperties
<1>5. p[1] = x /\ q[1] = y
  BY <1>1, <1>2, <1>3, <1>4
<1>6. \A i \in 1..Len(R) : p[i + 1] = R[i]
  <2> SUFFICES ASSUME NEW i \in 1..Len(R) PROVE p[i + 1] = R[i]
    OBVIOUS
  <2>1. i + 1 \in 1..(1 + Len(R)) /\ ~(i + 1 <= 1) /\ (i + 1) - 1 = i
    BY <1>2
  <2> QED  BY <1>3, <2>1
<1>7. \A i \in 1..Len(P) : q[i + 1] = P[i]
  <2> SUFFICES ASSUME NEW i \in 1..Len(P) PROVE q[i + 1] = P[i]
    OBVIOUS
  <2>1. i + 1 \in 1..(1 + Len(P)) /\ ~(i + 1 <= 1) /\ (i + 1) - 1 = i
    BY <1>2
  <2> QED  BY <1>4, <2>1
<1>8. IsPrefix(p, q) <=> Len(p) <= Len(q) /\ \A i \in 1..Len(p) : p[i] = q[i]
  <2>1. p \in Seq(D) /\ q \in Seq(D)
    BY <1>3, <1>4
  <2> QED  BY ONLY <2>1, PrefixIs
<1>9. IsPrefix(R, P) <=> Len(R) <= Len(P) /\ \A i \in 1..Len(R) : R[i] = P[i]
  BY PrefixIs
<1>10. ASSUME IsPrefix(p, q) PROVE x = y /\ IsPrefix(R, P)
  <2>1. 1 \in 1..Len(p)
    BY <1>2, <1>3
  <2>2. x = y
    BY <1>5, <1>8, <1>10, <2>1
  <2>3. Len(R) <= Len(P)
    <3>1. 1 + Len(R) <= 1 + Len(P)
      BY <1>3, <1>4, <1>8, <1>10
    <3> QED  BY <1>2, <3>1
  <2>4. ASSUME NEW i \in 1..Len(R) PROVE R[i] = P[i]
    <3>1. i + 1 \in 1..Len(p) /\ i \in 1..Len(P)
      BY <1>2, <1>3, <2>3
    <3> QED  BY <1>6, <1>7, <1>8, <1>10, <3>1
  <2> QED  BY <1>9, <2>2, <2>3, <2>4
<1>11. ASSUME x = y, IsPrefix(R, P) PROVE IsPrefix(p, q)
  <2>1. Len(p) <= Len(q)
    BY <1>2, <1>3, <1>4, <1>9, <1>11
  <2>2. ASSUME NEW i \in 1..Len(p) PROVE p[i] = q[i]
    <3>1. CASE i = 1
      BY <1>5, <1>11, <3>1
    <3>2. CASE i # 1
      <4>1. i - 1 \in 1..Len(R) /\ i - 1 \in 1..Len(P) /\ (i - 1) + 1 = i
        BY <1>2, <1>3, <1>9, <1>11, <3>2
      <4>2. p[(i - 1) + 1] = R[i - 1] /\ q[(i - 1) + 1] = P[i - 1] /\ R[i - 1] = P[i - 1]
        BY <1>6, <1>7, <1>9, <1>11, <4>1
      <4> QED  BY <4>1, <4>2
    <3> QED  BY <3>1, <3>2
  <2> QED  BY <1>8, <2>1, <2>2
<1>12. p = q <=> x = y /\ R = P
  <2>1. ASSUME p = q PROVE x = y /\ R = P
    <3>1. x = y
      BY <1>5, <2>1
    <3>2. m = n
      BY <3>1
    <3>3. m \o R = m \o P
      BY <2>1, <3>2
    <3> QED  BY <1>1, <3>1, <3>3, ConcatSame
  <2>2. ASSUME x = y, R = P PROVE p = q
    BY <2>2
  <2> QED  BY <2>1, <2>2
<1>13. Len(p) = Len(R) + 1
  BY <1>2, <1>3
<1> QED  BY <1>2, <1>10, <1>11, <1>12, <1>13

\* Where places of a drive and names lie.
LEMMA PlacesApart ==
  ASSUME NEW e \in Chars, NEW f \in Chars, NEW P \in Seq(NameTexts), NEW R \in Seq(NameTexts)
  PROVE  Lies(<< <<f>> >> \o R, << <<e>> >> \o P) <=>
            e = f /\ (P = R \/ GoesOn(R, P))
<1> PICK D, N, x, y : D = Texts /\ N = NameTexts /\ x = <<f>> /\ y = <<e>>
  OBVIOUS
<1>1. x \in D /\ y \in D /\ (x = y <=> e = f) /\ R \in Seq(D) /\ P \in Seq(D) /\ R \in Seq(N) /\ P \in Seq(N)
  <2>1. x \in D /\ y \in D
    BY DEF Texts
  <2>2. x = y <=> e = f
    OBVIOUS
  <2> QED  BY <2>1, <2>2, NamesArePlain
<1>2. /\ IsPrefix(<<x>> \o R, <<y>> \o P) <=> x = y /\ IsPrefix(R, P)
      /\ <<x>> \o R = <<y>> \o P <=> x = y /\ R = P
      /\ Len(<<x>> \o R) = Len(R) + 1 /\ Len(R) \in Nat
  <2>1. x \in D /\ y \in D /\ R \in Seq(D) /\ P \in Seq(D)
    BY <1>1
  <2> QED  BY ONLY <2>1, PrefixBehind
<1>3. Lies(<<x>> \o R, <<y>> \o P) <=> x = y /\ IsPrefix(R, P) /\ (R = <<>> => P = R)
  <2>1. Len(<<x>> \o R) = 1 <=> R = <<>>
    BY <1>1, <1>2, EmptySeq
  <2> PICK p, q : p = <<x>> \o R /\ q = <<y>> \o P
    OBVIOUS
  <2>2. (IsPrefix(p, q) <=> x = y /\ IsPrefix(R, P)) /\ (p = q <=> x = y /\ R = P) /\ (Len(p) = 1 <=> R = <<>>)
    BY <1>2, <2>1
  <2>3. Lies(p, q) <=> x = y /\ IsPrefix(R, P) /\ (R = <<>> => P = R)
    BY <2>2 DEF Lies
  <2> QED  BY <2>3
<1>4. ASSUME IsPrefix(R, P), P # R PROVE \E u \in Seq(N) : u # <<>> /\ P = R \o u
  <2> PICK u : u = After(P, Len(R))
    OBVIOUS
  <2>1. u \in Seq(N) /\ P = R \o u
    BY <1>1, <1>4, PrefixIs
  <2>2. u # <<>>
    BY <1>1, <1>4, <2>1, ConcatEmptySeq
  <2> QED  BY <2>1, <2>2
<1>5. ASSUME NEW u \in Seq(N), P = R \o u PROVE IsPrefix(R, P)
  BY <1>1, <1>5, ConcatPrefix
<1>6. IsPrefix(R, R)
  <2>1. R \o <<>> = R /\ <<>> \in Seq(N)
    BY <1>1, ConcatEmptySeq, EmptySeq
  <2> QED  BY <1>1, <2>1, ConcatPrefix
<1> QED  BY <1>1, <1>3, <1>4, <1>5, <1>6 DEF GoesOn

\* A folder is compared by where it lies.
LEMMA Compare ==
  ASSUME NEW dev, DevicesAre(dev), NEW a, OnDrive(a), NEW b, OnDrive(b)
  PROVE  IsSameOrInsideFolder(dev, a, b) <=> Lies(PlaceNamed(b), PlaceNamed(a))
<1> PICK P, R, e, f, v, w :
      /\ P = Fold(Parts(a)) /\ R = Fold(Parts(b)) /\ e = Lc(a[1]) /\ f = Lc(b[1])
      /\ v = ToLowerPath(RemoveTrailingSlash(NormalizeFilePath(dev, a)))
      /\ w = ToLowerPath(RemoveTrailingSlash(NormalizeFilePath(dev, b)))
  OBVIOUS
<1>1. a \in Texts /\ a # <<>> /\ a[1] \in ToSet(Drives) /\ b \in Texts /\ b # <<>> /\ b[1] \in ToSet(Drives)
  BY DEF OnDrive
<1>2. Parts(a) \in Seq(NameTexts) /\ Parts(b) \in Seq(NameTexts)
      /\ PlaceNamed(a) = << <<e>> >> \o P /\ PlaceNamed(b) = << <<f>> >> \o R
  BY <1>1, PartsIs
<1>3. P \in Seq(NameTexts) /\ R \in Seq(NameTexts)
  BY <1>2, FoldOfNames
<1>4. a[1] \in Chars \ Marks /\ b[1] \in Chars \ Marks
  BY <1>1, DrivesAre
<1>5. v = Written(e, P) /\ w = Written(f, R) /\ e \in Chars \ Marks /\ f \in Chars \ Marks
  <2>1. v = ToLowerPath(Written(a[1], Parts(a))) /\ w = ToLowerPath(Written(b[1], Parts(b)))
    BY ShortenedOnDrive
  <2> QED  BY <1>2, <1>4, <2>1, LowerOfWritten
<1>6. IsSameOrInsideFolder(dev, a, b) <=> v = w \/ Inside(v, w)
  BY <1>1 DEF IsSameOrInsideFolder, Inside
<1>7. /\ v = w <=> e = f /\ P = R
      /\ Inside(v, w) <=> e = f /\ GoesOn(R, P)
  <2>1. P \in Seq(NameTexts) /\ R \in Seq(NameTexts) /\ e \in Chars \ Marks /\ f \in Chars \ Marks
    BY <1>3, <1>5
  <2>2. /\ Written(e, P) = Written(f, R) <=> e = f /\ P = R
        /\ Inside(Written(e, P), Written(f, R)) <=>
              e = f /\ GoesOn(R, P)
    BY ONLY <2>1, WrittenApart
  <2> QED  BY <1>5, <2>2
<1>8. Lies(<< <<f>> >> \o R, << <<e>> >> \o P) <=>
            e = f /\ (P = R \/ GoesOn(R, P))
  <2>1. P \in Seq(NameTexts) /\ R \in Seq(NameTexts) /\ e \in Chars /\ f \in Chars
    BY <1>3, <1>5
  <2> QED  BY ONLY <2>1, PlacesApart
<1> QED  BY <1>2, <1>6, <1>7, <1>8

------------------------------------------------------------------------------
(* Texts that are alike, and how they are normalised.                      *)

\* What stands behind the first characters.
LEMMA AfterIs ==
  ASSUME NEW s \in Texts, NEW n \in Nat, n <= Len(s)
  PROVE  /\ After(s, n) \in Texts /\ Len(After(s, n)) = Len(s) - n /\ Len(s) \in Nat
         /\ \A i \in 1..(Len(s) - n) : After(s, n)[i] = s[n + i]
<1>1. s \in Seq(Chars) /\ Len(s) \in Nat
  BY LenProperties DEF Texts
<1> PICK r : r = SubSeq(s, n + 1, Len(s))
  OBVIOUS
<1>2. r \in Seq(Chars) /\ Len(r) = Len(s) - n /\ \A i \in 1..(Len(s) - n) : r[i] = s[n + i]
  BY <1>1
<1> QED  BY <1>1, <1>2 DEF After, Texts

\* Two texts one after the other.
LEMMA BothIs ==
  ASSUME NEW p \in Texts, NEW q \in Texts
  PROVE  /\ p \o q \in Texts /\ Len(p \o q) = Len(p) + Len(q) /\ Len(p) \in Nat /\ Len(q) \in Nat
         /\ \A i \in 1..Len(p) : (p \o q)[i] = p[i]
         /\ \A i \in 1..Len(q) : (p \o q)[Len(p) + i] = q[i]
<1> PICK t : t = p \o q
  OBVIOUS
<1>1. Len(p) \in Nat /\ Len(q) \in Nat
  BY LowerIs
<1>2. t \in Texts /\ Len(t) = Len(p) + Len(q) /\ \A i \in 1..(Len(p) + Len(q)) : t[i] = IF i <= Len(p) THEN p[i] ELSE q[i - Len(p)]
  BY ConcatProperties DEF Texts
<1>3. \A i \in 1..Len(p) : t[i] = p[i]
  BY <1>1, <1>2
<1>4. ASSUME NEW i \in 1..Len(q) PROVE t[Len(p) + i] = q[i]
  <2>1. Len(p) + i \in 1..(Len(p) + Len(q)) /\ ~(Len(p) + i <= Len(p)) /\ (Len(p) + i) - Len(p) = i
    BY <1>1
  <2> QED  BY <1>2, <2>1
<1> QED  BY <1>1, <1>2, <1>3, <1>4

\* A text is another one in other letters, those of the drives excepted, and has
\* the separators of Windows.
Like(u, s) ==
    /\ u \in Texts /\ s \in Texts /\ Len(u) = Len(s)
    /\ \A i \in 1..Len(s) : /\ Lc(u[i]) = Lc(s[i]) /\ u[i] # Slash
                            /\ s[i] \in ToSet(Drives) => u[i] = s[i]

\* Such texts have the same marks.
LEMMA LikeIs ==
  ASSUME NEW u, NEW s, Like(u, s)
  PROVE  /\ u \in Texts /\ s \in Texts /\ Len(u) = Len(s) /\ Len(s) \in Nat
         /\ ToLowerPath(u) = ToLowerPath(s)
         /\ \A i \in 1..Len(s) : \A m \in Marks : u[i] = m <=> s[i] = m
         /\ \A i \in 1..Len(s) : Lc(u[i]) = Lc(s[i]) /\ u[i] # Slash /\ u[i] \in Chars /\ s[i] \in Chars
         /\ \A i \in 1..Len(s) : s[i] \in ToSet(Drives) => u[i] = s[i]
<1>1. /\ u \in Texts /\ s \in Texts /\ Len(u) = Len(s)
      /\ \A i \in 1..Len(s) : /\ Lc(u[i]) = Lc(s[i]) /\ u[i] # Slash
                              /\ s[i] \in ToSet(Drives) => u[i] = s[i]
  BY DEF Like
<1>2. Len(s) \in Nat /\ \A i \in 1..Len(s) : u[i] \in Chars /\ s[i] \in Chars
  BY <1>1, LowerIs
<1>3. ToLowerPath(u) = ToLowerPath(s)
  BY <1>1, SameLower
<1>4. ASSUME NEW i \in 1..Len(s), NEW m \in Marks PROVE u[i] = m <=> s[i] = m
  <2>1. \A c \in Chars : Lc(c) = m <=> c = m
    BY LettersAre
  <2> QED  BY <1>1, <1>2, <2>1
<1> QED  BY <1>1, <1>2, <1>3, <1>4

\* What stands behind the same part of such texts.
LEMMA LikeBehind ==
  ASSUME NEW u, NEW p \in Texts, NEW q \in Texts, Like(u, p \o q)
  PROVE  /\ StartsWithIgnoreCase(u, p) /\ Like(After(u, Len(p)), q) /\ Len(p) <= Len(u)
         /\ \A i \in 1..Len(p) : Lc(u[i]) = Lc(p[i])
         /\ \A i \in 1..Len(q) : Lc(u[Len(p) + i]) = Lc(q[i])
<1> PICK s, r : s = p \o q /\ r = After(u, Len(p))
  OBVIOUS
<1>1. /\ u \in Texts /\ s \in Texts /\ Len(u) = Len(s) /\ Len(s) \in Nat
      /\ \A i \in 1..Len(s) : Lc(u[i]) = Lc(s[i]) /\ u[i] # Slash
      /\ \A i \in 1..Len(s) : s[i] \in ToSet(Drives) => u[i] = s[i]
  <2>1. Like(u, s)
    OBVIOUS
  <2> QED  BY ONLY <2>1, LikeIs
<1>2. /\ Len(s) = Len(p) + Len(q) /\ Len(p) \in Nat /\ Len(q) \in Nat
      /\ \A i \in 1..Len(p) : s[i] = p[i]
      /\ \A i \in 1..Len(q) : s[Len(p) + i] = q[i]
  BY BothIs
<1>3. Len(p) <= Len(u)
  BY <1>1, <1>2
<1>4. \A i \in 1..Len(p) : Lc(u[i]) = Lc(p[i])
  <2> SUFFICES ASSUME NEW i \in 1..Len(p) PROVE Lc(u[i]) = Lc(p[i])
    OBVIOUS
  <2>1. i \in 1..Len(s)
    BY <1>2
  <2> QED  BY <1>1, <1>2, <2>1
<1>5. StartsWithIgnoreCase(u, p)
  BY <1>1, <1>3, <1>4, StartsIs
<1>6. r \in Texts /\ Len(r) = Len(q) /\ \A i \in 1..Len(q) : r[i] = u[Len(p) + i]
  <2> PICK n : n = Len(p)
    OBVIOUS
  <2>1. Len(u) - n = Len(q)
    BY <1>1, <1>2
  <2>2. u \in Texts /\ n \in Nat /\ n <= Len(u)
    BY <1>1, <1>2, <1>3
  <2>3. After(u, n) \in Texts /\ Len(After(u, n)) = Len(u) - n /\ \A i \in 1..(Len(u) - n) : After(u, n)[i] = u[n + i]
    BY ONLY <2>2, AfterIs
  <2> QED  BY <2>1, <2>3
<1>7. ASSUME NEW i \in 1..Len(q)
      PROVE  /\ Lc(u[Len(p) + i]) = Lc(q[i]) /\ Lc(r[i]) = Lc(q[i]) /\ r[i] # Slash
             /\ q[i] \in ToSet(Drives) => r[i] = q[i]
  <2>1. Len(p) + i \in 1..Len(s)
    BY <1>2
  <2>2. s[Len(p) + i] = q[i] /\ r[i] = u[Len(p) + i]
    BY <1>2, <1>6
  <2> QED  BY <1>1, <2>1, <2>2
<1>8. Like(r, q)
  BY <1>6, <1>7 DEF Like
<1> QED  BY <1>3, <1>4, <1>5, <1>7, <1>8

\* Lower case decides where a text leads.
LEMMA LowerPlace ==
  ASSUME NEW u \in Texts, NEW s \in Texts, ToLowerPath(u) = ToLowerPath(s), s # <<>>
  PROVE  u # <<>> /\ PlaceNamed(u) = PlaceNamed(s)
<1>1. Len(u) = Len(s) /\ Len(s) \in Nat \ {0} /\ u # <<>>
  <2>1. Len(u) = Len(s)
    BY SameLower
  <2>2. Len(s) \in Nat \ {0}
    BY TailIs
  <2> QED  BY <2>1, <2>2, EmptySeq
<1>2. Parts(ToLowerPath(u)) = Fold(Parts(u)) /\ ToLowerPath(u)[1] = Lc(u[1])
  BY <1>1, PartsOfLower
<1>3. Parts(ToLowerPath(s)) = Fold(Parts(s)) /\ ToLowerPath(s)[1] = Lc(s[1])
  BY PartsOfLower
<1>4. PlaceNamed(u) = << <<Lc(u[1])>> >> \o Fold(Parts(u)) /\ PlaceNamed(s) = << <<Lc(s[1])>> >> \o Fold(Parts(s))
  BY <1>1, PartsIs
<1>5. Fold(Parts(u)) = Fold(Parts(s)) /\ Lc(u[1]) = Lc(s[1])
  BY <1>2, <1>3
<1> QED  BY <1>1, <1>4, <1>5

\* In what separators and letters a text may be said.
LEMMA SaidIsLike ==
  ASSUME NEW s \in Seq(Chars \ {Slash}), NEW t \in {s, Slashes(s), ToUpper(s)}
  PROVE  t \in Texts /\ Like(Turned(t), s)
<1>0. s \in Texts /\ \A i \in 1..Len(s) : s[i] # Slash
  <2>1. s \in Seq(Chars)
    BY SeqMonotonic
  <2>2. \A i \in 1..Len(s) : s[i] \in Chars \ {Slash}
    BY ElementOfSeq
  <2> QED  BY <2>1, <2>2 DEF Texts
<1>1. DOMAIN s = 1..Len(s) /\ Len(s) \in Nat /\ \A i \in 1..Len(s) : s[i] \in Chars
  BY <1>0, LowerIs
<1>2. Sep \in Chars /\ Slash \in Chars /\ Sep # Slash
  BY LettersAre
<1>3. ASSUME NEW f, f \in [1..Len(s) -> Chars] PROVE f \in Texts /\ Len(f) = Len(s)
  BY <1>1, <1>3 DEF Texts
<1> DEFINE Ok(x) == /\ x \in Texts /\ Len(x) = Len(s)
                    /\ \A i \in 1..Len(s) : /\ Lc(IF x[i] = Slash THEN Sep ELSE x[i]) = Lc(s[i])
                                            /\ s[i] \in ToSet(Drives) => x[i] = s[i]
<1>4. Ok(s)
  BY <1>0
<1>5. Ok(Slashes(s))
  <2> DEFINE f == [i \in 1..Len(s) |-> IF s[i] = Sep THEN Slash ELSE s[i]]
  <2>1. Slashes(s) = f
    BY <1>1 DEF Slashes
  <2>2. f \in [1..Len(s) -> Chars] /\ \A i \in 1..Len(s) : f[i] = IF s[i] = Sep THEN Slash ELSE s[i]
    BY <1>1, <1>2
  <2>3. f \in Texts /\ Len(f) = Len(s)
    BY <1>3, <2>2
  <2> HIDE DEF f
  <2>4. ASSUME NEW i \in 1..Len(s)
        PROVE  Lc(IF f[i] = Slash THEN Sep ELSE f[i]) = Lc(s[i]) /\ (s[i] \in ToSet(Drives) => f[i] = s[i])
    <3>1. s[i] \in ToSet(Drives) => s[i] # Sep
      BY DrivesAre, LettersAre
    <3> QED  BY <1>0, <1>2, <2>2, <3>1
  <2> QED  BY <2>1, <2>3, <2>4
<1>6. Ok(ToUpper(s))
  <2> DEFINE From(c) == {e \in DOMAIN LowerOf : LowerOf[e] = c}
             Up(c) == IF \E e \in DOMAIN LowerOf : LowerOf[e] = c
                      THEN CHOOSE e \in DOMAIN LowerOf : LowerOf[e] = c ELSE c
             f == [i \in 1..Len(s) |-> Up(s[i])]
  <2>1. ToUpper(s) = f
    BY <1>1 DEF ToUpper
  <2>2. ASSUME NEW c \in Chars
        PROVE  /\ Up(c) \in Chars /\ Lc(Up(c)) = Lc(c) /\ (c \in ToSet(Drives) => Up(c) = c)
               /\ c # Slash => Up(c) # Slash
    <3>1. CASE \E e \in DOMAIN LowerOf : LowerOf[e] = c
      <4>1. PICK e \in DOMAIN LowerOf : e = Up(c) /\ LowerOf[e] = c
        BY <3>1
      <4>2. e \in Chars \ Marks /\ LowerOf[e] \notin DOMAIN LowerOf /\ LowerOf[e] \notin ToSet(Drives)
        BY LettersAssumption
      <4>3. Lc(e) = c /\ Lc(c) = c
        BY <4>1, <4>2 DEF Lc
      <4> HIDE DEF Up
      <4> QED  BY <4>1, <4>2, <4>3, LettersAre
    <3>2. CASE ~\E e \in DOMAIN LowerOf : LowerOf[e] = c
      <4>1. Up(c) = c
        BY <3>2
      <4> HIDE DEF Up
      <4> QED  BY <4>1
    <3> QED  BY <3>1, <3>2
  <2> HIDE DEF Up
  <2>3. f \in [1..Len(s) -> Chars] /\ \A i \in 1..Len(s) : f[i] = Up(s[i])
    BY <1>1, <2>2
  <2>4. f \in Texts /\ Len(f) = Len(s)
    BY <1>3, <2>3
  <2> HIDE DEF f
  <2>5. ASSUME NEW i \in 1..Len(s)
        PROVE  Lc(IF f[i] = Slash THEN Sep ELSE f[i]) = Lc(s[i]) /\ (s[i] \in ToSet(Drives) => f[i] = s[i])
    BY <1>0, <1>1, <2>2, <2>3
  <2> QED  BY <2>1, <2>4, <2>5
<1> HIDE DEF Ok
<1>7. Ok(t)
  BY <1>4, <1>5, <1>6
<1> USE DEF Ok
<1>8. /\ Turned(t) \in Texts /\ Len(Turned(t)) = Len(t)
      /\ \A i \in 1..Len(t) : Turned(t)[i] # Slash /\ Turned(t)[i] = IF t[i] = Slash THEN Sep ELSE t[i]
  BY <1>7, TurnedIs
<1>9. ASSUME NEW i \in 1..Len(s)
      PROVE  Lc(Turned(t)[i]) = Lc(s[i]) /\ Turned(t)[i] # Slash /\ (s[i] \in ToSet(Drives) => Turned(t)[i] = s[i])
  BY <1>0, <1>7, <1>8
<1> QED  BY <1>0, <1>7, <1>8, <1>9 DEF Like

------------------------------------------------------------------------------
(* The spellings of a file.                                                *)

\* A text begins with a drive and a separator and names this place.
LeadsTo(r, place) == OnDrive(r) /\ r[2] = Sep /\ PlaceNamed(r) = place

\* A text that is like one on a drive names the same place.
LEMMA LikeLeads ==
  ASSUME NEW u, NEW s, Like(u, s), OnDrive(s), s[2] = Sep
  PROVE  LeadsTo(u, PlaceNamed(s)) /\ Len(u) > 1 /\ u \in Texts /\ u[1] \in ToSet(Drives)
<1>1. s \in Texts /\ s # <<>> /\ Len(s) > 1 /\ s[1] \in ToSet(Drives)
  BY DEF OnDrive
<1>2. /\ u \in Texts /\ s \in Texts /\ Len(u) = Len(s) /\ Len(s) \in Nat
      /\ ToLowerPath(u) = ToLowerPath(s)
      /\ \A i \in 1..Len(s) : \A m \in Marks : u[i] = m <=> s[i] = m
      /\ \A i \in 1..Len(s) : s[i] \in ToSet(Drives) => u[i] = s[i]
  <2>1. Like(u, s)
    OBVIOUS
  <2> QED  BY ONLY <2>1, LikeIs
<1>3. 1 \in 1..Len(s) /\ 2 \in 1..Len(s)
  BY <1>1, <1>2
<1>4. u[1] \in ToSet(Drives) /\ u[2] = Sep
  BY <1>1, <1>2, <1>3, LettersAre
<1>5. u # <<>> /\ PlaceNamed(u) = PlaceNamed(s)
  BY <1>1, <1>2, LowerPlace
<1> QED  BY <1>1, <1>2, <1>4, <1>5 DEF LeadsTo, OnDrive

\* A text that begins with one separator has no prefix of the object manager.
LEMMA NamespaceStays ==
  ASSUME NEW u \in Texts, Len(u) > 1, u[1] = Sep, u[2] \notin Marks
  PROVE  Unquoted(u) = u /\ WithoutNamespace(u) = u
<1>0. Sep # Quote /\ Lc(Sep) = Sep /\ Sep \in Chars /\ "?" \in Marks /\ Sep \in Marks /\ "UNC" \in Chars \ Marks
      /\ Lc("?") = "?"
  <2>1. "UNC" \notin Marks /\ Sep # Quote /\ "UNC" \in Chars
    BY DEF Marks, Sep, Quote, Slash, Chars
  <2> QED  BY <2>1, LettersAre, BeginningsAre
<1>1. Unquoted(u) = u
  <2>1. Head(u) = u[1]
    BY DEF Texts
  <2> QED  BY <1>0, <2>1 DEF Unquoted
<1>2. u[2] \in Chars
  <2>1. 2 \in 1..Len(u)
    BY LowerIs
  <2> QED  BY <2>1, LowerIs
<1>3. Lc(u[2]) \notin Marks
  BY <1>2, LettersAre
<1>4. ASSUME NEW p \in Texts, Len(p) > 1, p[2] \in Marks PROVE ~StartsWithIgnoreCase(u, p)
  <2>1. Lc(p[2]) = p[2] /\ 2 \in 1..Len(p)
    BY <1>4, LettersAre, StartsIs
  <2> QED  BY <1>3, <1>4, <2>1, StartsIs
<1>5. ~StartsWithIgnoreCase(u, <<"UNC", Sep>>)
  <2> PICK p : p = <<"UNC", Sep>>
    OBVIOUS
  <2>1. p \in Texts /\ Len(p) = 2 /\ p[1] = "UNC"
    BY BeginningsAre
  <2>2. Lc("UNC") # Sep
    BY <1>0, LettersAre
  <2>3. 1 \in 1..Len(p)
    BY <2>1
  <2>4. StartsWithIgnoreCase(u, p) => Lc(p[1]) = Lc(u[1])
    BY <2>1, <2>3, StartsIs
  <2>5. ~StartsWithIgnoreCase(u, p)
    BY <1>0, <2>1, <2>2, <2>4
  <2> QED  BY <2>5
<1>6. ~StartsWithIgnoreCase(u, <<Sep, "?", "?", Sep>>) /\ ~StartsWithIgnoreCase(u, <<Sep, Sep, "?", Sep>>)
  <2> PICK p, q : p = <<Sep, "?", "?", Sep>> /\ q = <<Sep, Sep, "?", Sep>>
    OBVIOUS
  <2>1. p \in Texts /\ Len(p) > 1 /\ p[2] \in Marks /\ q \in Texts /\ Len(q) > 1 /\ q[2] \in Marks
    BY <1>0, BeginningsAre
  <2>2. ~StartsWithIgnoreCase(u, p) /\ ~StartsWithIgnoreCase(u, q)
    BY <1>4, <2>1
  <2> QED  BY <2>2
<1> QED  BY <1>1, <1>5, <1>6 DEF WithoutNamespace, RemovePrefix

\* What a text stands for, however its letters and separators are said.
LEMMA SaidOnDrive ==
  ASSUME NEW dev, DevicesAre(dev), NEW s \in Seq(Chars \ {Slash}), OnDrive(s), s[2] = Sep,
         NEW t \in {s, Slashes(s), ToUpper(s)}
  PROVE  t # <<>> /\ LeadsTo(Stripped(dev, Turned(t)), PlaceNamed(s))
<1> PICK u : u = Turned(t)
  OBVIOUS
<1>1. t \in Texts /\ Like(u, s)
  <2>1. t \in Texts /\ Like(Turned(t), s)
    BY SaidIsLike
  <2> QED  BY <2>1
<1>2. LeadsTo(u, PlaceNamed(s)) /\ Len(u) > 1 /\ u \in Texts /\ u[1] \in ToSet(Drives)
  <2>1. Like(u, s) /\ OnDrive(s) /\ s[2] = Sep
    BY <1>1
  <2> QED  BY ONLY <2>1, LikeLeads
<1>3. Stripped(dev, u) = u
  BY <1>2, DriveStays
<1>4. t # <<>>
  <2>1. Len(Turned(t)) = Len(t)
    BY <1>1, TurnedIs
  <2> QED  BY <1>2, <2>1
<1> QED  BY <1>2, <1>3, <1>4

\* The same behind a prefix of the object manager.
LEMMA SaidWithPrefix ==
  ASSUME NEW dev, DevicesAre(dev), NEW s \in Seq(Chars \ {Slash}), OnDrive(s), s[2] = Sep,
         NEW p \in {<<Sep, "?", "?", Sep>>, <<Sep, Sep, "?", Sep>>},
         NEW t \in {p \o s, Slashes(p \o s), ToUpper(p \o s)}
  PROVE  t # <<>> /\ LeadsTo(Stripped(dev, Turned(t)), PlaceNamed(s))
<1> PICK u, r : u = Turned(t) /\ r = After(u, 4)
  OBVIOUS
<1>0. /\ Sep \in Marks /\ "?" \in Marks /\ Quote \in Marks /\ Sep # "?" /\ Sep # Quote /\ "?" # Quote
      /\ Sep \in Chars \ {Slash} /\ "?" \in Chars \ {Slash}
  <2>1. Sep # "?" /\ Sep # Quote /\ "?" # Quote /\ "?" # Slash
    BY DEF Sep, Quote, Slash
  <2> QED  BY <2>1, LettersAre, BeginningsAre
<1>1. p \in Texts /\ Len(p) = 4 /\ p[1] = Sep /\ p[2] \in {Sep, "?"} /\ p \in Seq(Chars \ {Slash})
  <2> PICK C : C = Chars \ {Slash}
    OBVIOUS
  <2>1. \A a, b, c, d \in C : <<a, b, c, d>> \in Seq(C) /\ Len(<<a, b, c, d>>) = 4
    OBVIOUS
  <2>2. p \in Seq(C) /\ Len(p) = 4 /\ p[1] = Sep /\ p[2] \in {Sep, "?"}
    <3>1. Sep \in C /\ "?" \in C
      BY <1>0
    <3>2. CASE p = <<Sep, "?", "?", Sep>>
      BY <2>1, <3>1, <3>2
    <3>3. CASE p = <<Sep, Sep, "?", Sep>>
      BY <2>1, <3>1, <3>3
    <3> QED  BY <3>2, <3>3
  <2> QED  BY <2>2, BeginningsAre
<1>2. t \in Texts /\ Like(u, p \o s)
  <2>1. p \o s \in Seq(Chars \ {Slash})
    BY <1>1, ConcatProperties
  <2> PICK q : q = p \o s
    OBVIOUS
  <2>2. q \in Seq(Chars \ {Slash}) /\ t \in {q, Slashes(q), ToUpper(q)}
    BY <2>1
  <2>3. t \in Texts /\ Like(Turned(t), q)
    BY ONLY <2>2, SaidIsLike
  <2> QED  BY <2>3
<1>3. s \in Texts
  BY DEF OnDrive
<1>4. /\ StartsWithIgnoreCase(u, p) /\ Like(r, s) /\ 4 <= Len(u)
      /\ \A i \in 1..4 : Lc(u[i]) = Lc(p[i])
  <2>1. p \in Texts /\ s \in Texts /\ Like(u, p \o s)
    BY <1>1, <1>2, <1>3
  <2>2. /\ StartsWithIgnoreCase(u, p) /\ Like(After(u, Len(p)), s) /\ Len(p) <= Len(u)
        /\ \A i \in 1..Len(p) : Lc(u[i]) = Lc(p[i])
    BY ONLY <2>1, LikeBehind
  <2> QED  BY <1>1, <2>2
<1>5. LeadsTo(r, PlaceNamed(s)) /\ Len(r) > 1 /\ r \in Texts /\ r[1] \in ToSet(Drives)
  <2>1. Like(r, s) /\ OnDrive(s) /\ s[2] = Sep
    BY <1>4
  <2> QED  BY ONLY <2>1, LikeLeads
<1>6. /\ WithoutNamespace(r) = r /\ WithWindowsDir(r) = r /\ DevicePathToDosPath(dev, r) = r
  BY <1>5, DriveStays
<1>7. u \in Texts /\ u[1] = Sep /\ u[2] = p[2]
  <2>1. u \in Texts
    BY <1>2 DEF Like
  <2>2. Len(u) \in Nat
    BY <2>1, LowerIs
  <2>3. 1 \in 1..4 /\ 2 \in 1..4 /\ 1 \in 1..Len(u) /\ 2 \in 1..Len(u)
    BY <1>4, <2>2
  <2>4. u[1] \in Chars /\ u[2] \in Chars
    BY <2>1, <2>3, LowerIs
  <2>5. \A m \in Marks : \A c \in Chars : Lc(c) = Lc(m) => c = m
    BY LettersAre
  <2> QED  BY <1>0, <1>1, <1>4, <2>1, <2>3, <2>4, <2>5
<1>8. Unquoted(u) = u
  <2>1. Head(u) = u[1]
    BY <1>7 DEF Texts
  <2> QED  BY <1>0, <1>7, <2>1 DEF Unquoted
<1>9. ~StartsWithIgnoreCase(r, <<Sep, Sep, "?", Sep>>) /\ ~StartsWithIgnoreCase(r, <<"UNC", Sep>>)
  <2> PICK q, v : q = <<Sep, Sep, "?", Sep>> /\ v = <<"UNC", Sep>>
    OBVIOUS
  <2>1. q \in Texts /\ Len(q) > 0 /\ q[1] \in Marks /\ v \in Texts /\ Len(v) > 0 /\ v[1] = "UNC"
    BY <1>0, BeginningsAre
  <2>2. ~StartsWithIgnoreCase(r, q) /\ ~StartsWithIgnoreCase(r, v)
    BY <1>5, <2>1, DriveBegins
  <2> QED  BY <2>2
<1>10. WithoutNamespace(u) = r
  <2>1. CASE p = <<Sep, "?", "?", Sep>>
    <3>1. RemovePrefix(u, <<Sep, "?", "?", Sep>>) = r
      BY <1>1, <1>4, <2>1 DEF RemovePrefix
    <3> QED  BY <1>9, <3>1 DEF WithoutNamespace, RemovePrefix
  <2>2. CASE p = <<Sep, Sep, "?", Sep>>
    <3>1. ~StartsWithIgnoreCase(u, <<Sep, "?", "?", Sep>>)
      <4> PICK q : q = <<Sep, "?", "?", Sep>>
        OBVIOUS
      <4>1. q \in Texts /\ Len(q) = 4 /\ q[2] = "?" /\ u[2] = Sep
        BY <1>7, <2>2, BeginningsAre
      <4>2. Lc("?") = "?" /\ Lc(Sep) = Sep /\ 2 \in 1..Len(q)
        BY <1>0, <4>1, LettersAre
      <4>3. StartsWithIgnoreCase(u, q) => Lc(q[2]) = Lc(u[2])
        BY <1>7, <4>1, <4>2, StartsIs
      <4> QED  BY <1>0, <4>1, <4>2, <4>3
    <3>2. RemovePrefix(u, <<Sep, "?", "?", Sep>>) = u
      BY <3>1 DEF RemovePrefix
    <3>3. RemovePrefix(u, <<Sep, Sep, "?", Sep>>) = r
      BY <1>1, <1>4, <2>2 DEF RemovePrefix
    <3> QED  BY <1>9, <3>2, <3>3 DEF WithoutNamespace
  <2> QED  BY <2>1, <2>2
<1>11. Stripped(dev, u) = r
  BY <1>6, <1>8, <1>10 DEF Stripped
<1>12. t # <<>>
  <2>1. Len(Turned(t)) = Len(t)
    BY <1>2, TurnedIs
  <2> QED  BY <1>4, <2>1
<1> QED  BY <1>5, <1>11, <1>12

\* The same in quotes.
LEMMA SaidInQuotes ==
  ASSUME NEW dev, DevicesAre(dev), NEW s \in Seq(Chars \ {Slash}), OnDrive(s), s[2] = Sep
  PROVE  LET t == <<Quote>> \o s \o <<Quote>>
         IN  t # <<>> /\ LeadsTo(Stripped(dev, Turned(t)), PlaceNamed(s))
<1> PICK t, q : q = <<Quote>> \o s /\ t = q \o <<Quote>>
  OBVIOUS
<1>0. s \in Texts /\ Len(s) > 1 /\ s[1] \in ToSet(Drives) /\ Len(s) \in Nat /\ Quote \in Chars \ {Slash}
  <2>1. Quote # Slash
    BY DEF Quote, Slash
  <2>2. s \in Texts /\ Len(s) > 1 /\ s[1] \in ToSet(Drives)
    BY DEF OnDrive
  <2> QED  BY <2>1, <2>2, LowerIs, LettersAre, BeginningsAre
<1>1. q \in Texts /\ Len(q) = Len(s) + 1 /\ q[1] = Quote /\ \A i \in 1..Len(s) : q[i + 1] = s[i]
  BY <1>0, TailOfConcat
<1>2. t = Append(q, Quote)
  BY <1>0, <1>1, AppendIsConcat DEF Texts
<1>3. t \in Texts /\ Len(t) = Len(s) + 2 /\ t[Len(s) + 2] = Quote /\ \A i \in 1..(Len(s) + 1) : t[i] = q[i]
  BY <1>0, <1>1, <1>2, AppendProperties DEF Texts
<1>4. t[1] = Quote /\ Last(t) = Quote /\ Head(t) = Quote /\ Len(t) >= 2
  BY <1>0, <1>1, <1>3 DEF Last, Texts
<1>5. \A i \in 1..Len(s) : t[i + 1] = s[i] /\ s[i] # Slash
  <2> SUFFICES ASSUME NEW i \in 1..Len(s) PROVE t[i + 1] = s[i] /\ s[i] # Slash
    OBVIOUS
  <2>1. i + 1 \in 1..(Len(s) + 1)
    BY <1>0
  <2>2. s[i] \in Chars \ {Slash}
    BY ElementOfSeq
  <2> QED  BY <1>1, <1>3, <2>1, <2>2
<1>6. \A i \in 1..Len(t) : t[i] # Slash
  <2> SUFFICES ASSUME NEW i \in 1..Len(t) PROVE t[i] # Slash
    OBVIOUS
  <2>1. CASE i = 1 \/ i = Len(s) + 2
    BY <1>0, <1>3, <1>4, <2>1
  <2>2. CASE ~(i = 1 \/ i = Len(s) + 2)
    <3>1. i - 1 \in 1..Len(s) /\ (i - 1) + 1 = i
      BY <1>0, <1>3, <2>2
    <3> QED  BY <1>5, <3>1
  <2> QED  BY <2>1, <2>2
<1>7. Turned(t) = t
  <2> PICK u : u = Turned(t)
    OBVIOUS
  <2>1. u \in Texts /\ Len(u) = Len(t) /\ \A i \in 1..Len(t) : u[i] = t[i]
    BY <1>3, <1>6, TurnedIs
  <2> QED  BY <1>3, <2>1, SeqEqual DEF Texts
<1>8. Unquoted(t) = s
  <2> PICK r : r = SubSeq(t, 2, Len(t) - 1)
    OBVIOUS
  <2>1. Len(t) - 1 = Len(s) + 1
    BY <1>0, <1>3
  <2>2. r \in Seq(Chars) /\ Len(r) = Len(s) /\ \A i \in 1..Len(s) : r[i] = t[i + 1]
    <3>1. r = SubSeq(t, 2, Len(s) + 1) /\ t \in Seq(Chars)
      BY <1>3, <2>1 DEF Texts
    <3> PICK n : n = Len(s)
      OBVIOUS
    <3>2. n \in Nat /\ n + 1 <= Len(t) /\ Len(t) \in Nat /\ Len(t) = n + 2
      BY <1>0, <1>3
    <3>3. t \in Seq(Chars) /\ r = SubSeq(t, 2, n + 1)
      BY <3>1
    <3>4. r \in Seq(Chars) /\ Len(r) = n /\ \A i \in 1..n : r[i] = t[i + 1]
      BY ONLY <3>2, <3>3
    <3> QED  BY <3>4
  <2>3. r = s
    BY <1>0, <1>5, <2>2, SeqEqual DEF Texts
  <2> QED  BY <1>4, <2>3 DEF Unquoted
<1>9. /\ WithoutNamespace(s) = s /\ WithWindowsDir(s) = s /\ DevicePathToDosPath(dev, s) = s
  BY <1>0, DriveStays
<1>10. Stripped(dev, t) = s
  BY <1>8, <1>9 DEF Stripped
<1>11. t # <<>>
  BY <1>4
<1> QED  BY <1>7, <1>10, <1>11 DEF LeadsTo

\* No two letters are given to one volume.
Distinct(dev) == \A d, e \in ToSet(Drives) : dev[d] = dev[e] /\ dev[d] # <<>> => d = e

\* A text below the folder of Windows, with SystemRoot for the folder.
LEMMA SaidBySystemRoot ==
  ASSUME NEW dev, DevicesAre(dev), NEW s \in Seq(Chars \ {Slash}), OnDrive(s), s[2] = Sep,
         StartsWithIgnoreCase(s, Append(WindowsDir, Sep)),
         NEW t, LET y == <<Sep, "SystemRoot">> \o After(s, Len(WindowsDir))
                IN  t \in {y, Slashes(y), ToUpper(y)}
  PROVE  t # <<>> /\ LeadsTo(Stripped(dev, Turned(t)), PlaceNamed(s))
<1> PICK W, n, a, p, y, u, b, r :
      /\ W = WindowsDir /\ n = Len(W) /\ a = After(s, n) /\ p = <<Sep, "SystemRoot">> /\ y = p \o a
      /\ u = Turned(t) /\ b = After(u, 2) /\ r = W \o b
  OBVIOUS
<1>1. W \in Texts /\ Len(W) > 1 /\ W[1] \in ToSet(Drives) /\ W[2] \in {Sep, Slash} /\ n \in Nat
  <2>1. OnDrive(W)
    BY FoldersAssumption, IsOnDriveIs
  <2> QED  BY <2>1, LowerIs DEF OnDrive
<1>2. s \in Texts /\ Len(s) \in Nat /\ Len(s) > 1
  BY LowerIs DEF OnDrive
<1>3. /\ Sep \in Marks /\ Sep \in Chars /\ "SystemRoot" \in Chars \ {Slash} /\ "SystemRoot" \notin Marks /\ Sep # Slash
      /\ Lc(Sep) = Sep /\ Slash \in Chars /\ Lc(Slash) = Slash
  <2>1. "SystemRoot" \notin Marks
    BY DEF Marks, Sep, Quote, Slash
  <2>2. "SystemRoot" \in Chars
    BY DEF Chars
  <2> QED  BY <2>1, <2>2, LettersAre
<1>4. n + 1 <= Len(s) /\ Lc(s[n + 1]) = Sep /\ \A i \in 1..n : Lc(W[i]) = Lc(s[i])
  <2> PICK v : v = Append(W, Sep)
    OBVIOUS
  <2>1. v \in Texts /\ Len(v) = n + 1 /\ v[n + 1] = Sep /\ \A i \in 1..n : v[i] = W[i]
    BY <1>1, <1>3, AppendProperties DEF Texts
  <2>2. s \in Texts /\ v \in Texts
    BY <1>2, <2>1
  <2>3. StartsWithIgnoreCase(s, v) <=> Len(v) <= Len(s) /\ \A i \in 1..Len(v) : Lc(v[i]) = Lc(s[i])
    BY ONLY <2>2, StartsIs
  <2>4. Len(v) <= Len(s) /\ \A i \in 1..Len(v) : Lc(v[i]) = Lc(s[i])
    BY <2>3
  <2>5. n + 1 \in 1..(n + 1) /\ \A i \in 1..n : i \in 1..(n + 1)
    BY <1>1
  <2> QED  BY <1>3, <2>1, <2>4, <2>5
<1>5. /\ a \in Texts /\ Len(a) = Len(s) - n /\ Len(a) \in Nat \ {0} /\ a[1] = Sep
      /\ \A i \in 1..(Len(s) - n) : a[i] = s[n + i]
  <2>1. s \in Texts /\ n \in Nat /\ n <= Len(s)
    BY <1>1, <1>2, <1>4
  <2>2. After(s, n) \in Texts /\ Len(After(s, n)) = Len(s) - n /\ \A i \in 1..(Len(s) - n) : After(s, n)[i] = s[n + i]
    BY ONLY <2>1, AfterIs
  <2>3. 1 \in 1..(Len(s) - n) /\ Len(s) - n \in Nat \ {0}
    BY <1>1, <1>2, <1>4
  <2>4. n + 1 \in 1..Len(s)
    BY <1>1, <1>2, <1>4
  <2>5. s[n + 1] = Sep
    BY <1>2, <1>3, <1>4, <2>4, LowerIs, LettersAre
  <2> QED  BY <2>2, <2>3, <2>5
<1>6. a \in Seq(Chars \ {Slash})
  <2>1. ASSUME NEW i \in 1..Len(a) PROVE a[i] \in Chars \ {Slash}
    <3>1. n + i \in 1..Len(s)
      BY <1>1, <1>2, <1>4, <1>5
    <3>2. s[n + i] \in Chars \ {Slash}
      BY <3>1, ElementOfSeq
    <3> QED  BY <1>5, <3>2
  <2>2. a \in Seq(Chars)
    BY <1>5 DEF Texts
  <2> QED  BY <2>1, <2>2, Within
<1>7. p \in Seq(Chars \ {Slash}) /\ p \in Texts /\ Len(p) = 2 /\ p[1] = Sep /\ p[2] = "SystemRoot"
  <2> PICK C : C = Chars \ {Slash}
    OBVIOUS
  <2>1. \A c, d \in C : <<c, d>> \in Seq(C) /\ Len(<<c, d>>) = 2
    OBVIOUS
  <2>2. Sep \in C /\ "SystemRoot" \in C
    BY <1>3
  <2>3. p \in Seq(C) /\ Len(p) = 2 /\ p[1] = Sep /\ p[2] = "SystemRoot"
    BY <2>1, <2>2
  <2>4. p \in Seq(Chars)
    BY <2>3, SeqMonotonic
  <2> QED  BY <2>3, <2>4 DEF Texts
<1>8. t \in Texts /\ Like(u, p \o a)
  <2>1. y \in Seq(Chars \ {Slash})
    BY <1>6, <1>7, ConcatProperties
  <2>2. y \in Seq(Chars \ {Slash}) /\ t \in {y, Slashes(y), ToUpper(y)}
    BY <2>1
  <2>3. t \in Texts /\ Like(Turned(t), y)
    BY ONLY <2>2, SaidIsLike
  <2> QED  BY <2>3
<1>9. /\ Like(b, a) /\ 2 <= Len(u)
      /\ \A i \in 1..2 : Lc(u[i]) = Lc(p[i])
      /\ \A i \in 1..Len(a) : Lc(u[2 + i]) = Lc(a[i])
  <2>1. p \in Texts /\ a \in Texts /\ Like(u, p \o a)
    BY <1>5, <1>7, <1>8
  <2>2. /\ StartsWithIgnoreCase(u, p) /\ Like(After(u, Len(p)), a) /\ Len(p) <= Len(u)
        /\ \A i \in 1..Len(p) : Lc(u[i]) = Lc(p[i])
        /\ \A i \in 1..Len(a) : Lc(u[Len(p) + i]) = Lc(a[i])
    BY ONLY <2>1, LikeBehind
  <2> QED  BY <1>7, <2>2
<1>10. u \in Texts /\ Len(u) = 2 + Len(a) /\ Len(u) \in Nat
  <2>1. u \in Texts /\ Len(u) = Len(p \o a)
    BY <1>8 DEF Like
  <2>2. Len(p \o a) = Len(p) + Len(a)
    BY <1>5, <1>7, BothIs
  <2> QED  BY <1>5, <1>7, <2>1, <2>2
<1>11. u[1] = Sep /\ u[2] \notin Marks
  <2>1. 1 \in 1..2 /\ 2 \in 1..2 /\ 1 \in 1..Len(u) /\ 2 \in 1..Len(u)
    BY <1>5, <1>10
  <2>2. u[1] \in Chars /\ u[2] \in Chars
    BY <1>10, <2>1, LowerIs
  <2>3. Lc(u[1]) = Sep /\ Lc(u[2]) = Lc("SystemRoot")
    BY <1>3, <1>7, <1>9, <2>1
  <2>4. Lc("SystemRoot") \notin Marks
    BY <1>3, LettersAre
  <2> QED  BY <1>3, <2>2, <2>3, <2>4, LettersAre
<1>12. Unquoted(u) = u /\ WithoutNamespace(u) = u
  <2>1. Len(u) > 1
    BY <1>5, <1>10
  <2> QED  BY <1>10, <1>11, <2>1, NamespaceStays
<1>13. WithWindowsDir(u) = r
  <2> PICK v : v = <<Sep, "SystemRoot", Sep>>
    OBVIOUS
  <2>1. v \in Texts /\ Len(v) = 3 /\ v[1] = Sep /\ v[2] = "SystemRoot" /\ v[3] = Sep
    BY BeginningsAre
  <2>2. ASSUME NEW i \in 1..3 PROVE Lc(v[i]) = Lc(u[i])
    <3>1. 1 \in 1..Len(a) /\ 2 + 1 = 3 /\ 1 \in 1..2 /\ 2 \in 1..2
      BY <1>5
    <3>2. Lc(u[3]) = Lc(a[1])
      BY <1>9, <3>1
    <3>3. i = 1 \/ i = 2 \/ i = 3
      OBVIOUS
    <3>4. Lc(v[1]) = Lc(u[1]) /\ Lc(v[2]) = Lc(u[2]) /\ Lc(v[3]) = Lc(u[3])
      BY <1>5, <1>7, <1>9, <2>1, <3>1, <3>2
    <3> QED  BY <3>3, <3>4
  <2>3. Len(v) <= Len(u)
    BY <1>5, <1>10, <2>1
  <2>4. StartsWithIgnoreCase(u, v)
    BY <1>10, <2>1, <2>2, <2>3, StartsIs
  <2> QED  BY <2>4 DEF WithWindowsDir
<1>14. b \in Texts /\ Len(b) = Len(a) /\ \A i \in 1..Len(a) : Lc(b[i]) = Lc(a[i])
  BY <1>9 DEF Like
<1>15. /\ r \in Texts /\ Len(r) = n + Len(a) /\ \A i \in 1..n : r[i] = W[i]
       /\ \A i \in 1..Len(a) : r[n + i] = b[i]
  <2>1. W \in Texts /\ b \in Texts
    BY <1>1, <1>14
  <2>2. /\ W \o b \in Texts /\ Len(W \o b) = Len(W) + Len(b)
        /\ \A i \in 1..Len(W) : (W \o b)[i] = W[i]
        /\ \A i \in 1..Len(b) : (W \o b)[Len(W) + i] = b[i]
    BY ONLY <2>1, BothIs
  <2> QED  BY <1>14, <2>2
<1>16. ToLowerPath(r) = ToLowerPath(s)
  <2>1. Len(r) = Len(s)
    <3> PICK k, l, m : k = Len(r) /\ l = Len(s) /\ m = Len(a)
      OBVIOUS
    <3>1. k = n + m /\ m = l - n /\ l \in Int /\ n \in Int
      BY <1>1, <1>2, <1>5, <1>15
    <3>2. k = l
      BY ONLY <3>1
    <3> QED  BY <3>2
  <2>2. ASSUME NEW i \in 1..Len(r) PROVE Lc(r[i]) = Lc(s[i])
    <3>1. CASE i <= n
      <4>1. i \in 1..n
        BY <1>1, <3>1
      <4> QED  BY <1>4, <1>15, <4>1
    <3>2. CASE ~(i <= n)
      <4>1. i - n \in 1..Len(a) /\ n + (i - n) = i
        <5> PICK k, m : k = Len(r) /\ m = Len(a)
          OBVIOUS
        <5>1. k = n + m /\ m \in Int /\ n \in Int /\ i \in 1..k /\ ~(i <= n)
          <6>1. Len(r) = n + Len(a)
            BY <1>15
          <6>2. Len(a) \in Int
            BY <1>5
          <6>3. i \in 1..Len(r)
            OBVIOUS
          <6> QED  BY <1>1, <3>2, <6>1, <6>2, <6>3
        <5>2. i - n \in 1..m /\ n + (i - n) = i
          BY ONLY <5>1
        <5> QED  BY <5>2
      <4> PICK j : j = i - n
        OBVIOUS
      <4>2. j \in 1..Len(a) /\ n + j = i
        BY <4>1
      <4>3. r[n + j] = b[j] /\ a[j] = s[n + j] /\ Lc(b[j]) = Lc(a[j])
        BY <1>5, <1>14, <1>15, <4>2
      <4> QED  BY <4>2, <4>3
    <3> QED  BY <3>1, <3>2
  <2> QED  BY <1>2, <1>15, <2>1, <2>2, SameLower
<1>17. r # <<>> /\ PlaceNamed(r) = PlaceNamed(s)
  <2>1. s # <<>>
    BY DEF OnDrive
  <2> QED  BY <1>2, <1>15, <1>16, <2>1, LowerPlace
<1>18. r[1] \in ToSet(Drives) /\ r[2] = Sep /\ Len(r) > 1
  <2>1. 1 \in 1..n /\ 2 \in 1..n
    BY <1>1
  <2>2. r[1] = W[1] /\ r[2] = W[2] /\ Lc(W[2]) = Lc(s[2])
    BY <1>4, <1>15, <2>1
  <2>3. W[2] = Sep
    BY <1>1, <1>3, <2>2
  <2>4. Len(r) > 1
    BY <1>1, <1>5, <1>15
  <2> QED  BY <1>1, <2>2, <2>3, <2>4
<1>19. DevicePathToDosPath(dev, r) = r
  BY <1>15, <1>18, DriveStays
<1>20. Stripped(dev, u) = r
  BY <1>12, <1>13, <1>19 DEF Stripped
<1>21. LeadsTo(r, PlaceNamed(s))
  BY <1>15, <1>17, <1>18 DEF LeadsTo, OnDrive
<1>22. t # <<>>
  <2>1. Len(Turned(t)) = Len(t)
    BY <1>8, TurnedIs
  <2> QED  BY <1>9, <2>1
<1> QED  BY <1>20, <1>21, <1>22

\* What a file's path below its volume looks like.
LEMMA BelowVolume ==
  ASSUME NEW Q \in Seq(NameTexts)
  PROVE  /\ Tail(Written("", Q)) \in Seq(Chars \ {Slash}) /\ Tail(Written("", Q)) \in Texts
         /\ Len(Tail(Written("", Q))) \in Nat \ {0} /\ Tail(Written("", Q))[1] = Sep
         /\ \A d : Written(d, Q) = <<d>> \o Tail(Written("", Q))
<1> PICK w, b : w = Written("", Q) /\ b = Tail(w)
  OBVIOUS
<1>1. "" \in Chars \ {Slash}
  <2>1. "" # Slash /\ "" \in Chars
    BY DEF Slash, Chars
  <2> QED  BY <2>1
<1>2. /\ w \in Seq(Chars \ {Slash}) /\ w \in Texts /\ w # <<>> /\ w[2] = Sep /\ Len(w) > 1
      /\ b = IF Q = <<>> THEN <<Sep>> ELSE Below(Q)
  BY <1>1, WrittenIs
<1>3. b \in Texts /\ Len(w) \in Nat \ {0} /\ Len(b) = Len(w) - 1 /\ \A i \in 1..(Len(w) - 1) : b[i] = w[i + 1]
  BY <1>2, TailIs
<1>4. Len(b) \in Nat \ {0} /\ b[1] = Sep
  <2> PICK k, l : k = Len(w) /\ l = Len(b)
    OBVIOUS
  <2>1. k \in Int /\ k > 1 /\ l = k - 1
    <3>1. Len(w) \in Nat \ {0}
      BY <1>3
    <3>2. Len(w) > 1
      BY <1>2
    <3>3. Len(b) = Len(w) - 1
      BY <1>3
    <3>4. k \in Nat /\ k > 1 /\ l = k - 1
      BY <3>1, <3>2, <3>3
    <3> QED  BY ONLY <3>4
  <2>2. 1 \in 1..(k - 1) /\ l \in Nat \ {0} /\ 1 + 1 = 2
    BY ONLY <2>1
  <2>3. b[1] = w[1 + 1]
    BY <1>3, <2>2
  <2> QED  BY <1>2, <2>2, <2>3
<1>5. b \in Seq(Chars \ {Slash})
  <2>1. ASSUME NEW i \in 1..Len(b) PROVE b[i] \in Chars \ {Slash}
    <3>1. i + 1 \in 1..Len(w) /\ i \in 1..(Len(w) - 1)
      <4> PICK k : k = Len(w)
        OBVIOUS
      <4>1. k \in Int /\ i \in 1..(k - 1)
        <5>1. Len(w) \in Nat
          BY <1>3
        <5>2. Len(b) = Len(w) - 1
          BY <1>3
        <5>3. i \in 1..Len(b)
          OBVIOUS
        <5>4. k \in Nat /\ i \in 1..(k - 1)
          BY <5>1, <5>2, <5>3
        <5> QED  BY ONLY <5>4
      <4>2. i + 1 \in 1..k
        BY ONLY <4>1
      <4> QED  BY <4>1, <4>2
    <3>2. w[i + 1] \in Chars \ {Slash}
      BY <1>2, <3>1, ElementOfSeq
    <3> QED  BY <1>3, <3>2
  <2>2. b \in Seq(Chars)
    BY <1>3 DEF Texts
  <2> QED  BY <2>1, <2>2, Within
<1>6. \A d : Written(d, Q) = <<d>> \o b
  BY <1>2 DEF Written
<1> QED  BY <1>3, <1>4, <1>5, <1>6

\* A path below a volume, up to where the letter takes the place of its name.
LEMMA SaidByDevice ==
  ASSUME NEW v \in Volumes, NEW Q \in Seq(NameTexts),
         NEW t, LET y == v \o Tail(Written("", Q)) IN t \in {y, Slashes(y), ToUpper(y)}
  PROVE  LET u == Turned(t)
         IN  /\ t # <<>> /\ Like(u, v \o Tail(Written("", Q))) /\ u \in Texts /\ u[1] = Sep
             /\ WithWindowsDir(WithoutNamespace(Unquoted(u))) = u
             /\ Len(u) > 1 /\ \A i \in 1..Len(u) : u[i] # Slash
<1> PICK q, y, u : q = Tail(Written("", Q)) /\ y = v \o q /\ u = Turned(t)
  OBVIOUS
<1>1. /\ v \in Texts /\ v \in Seq(Chars \ {Slash}) /\ Len(v) > 1 /\ Len(v) \in Nat /\ v[1] = Sep
      /\ v[2] \notin Marks /\ v[2] \in Chars /\ Lc(v[2]) # Lc("SystemRoot")
  BY VolumesAre
<1>2. q \in Seq(Chars \ {Slash}) /\ q \in Texts /\ Len(q) \in Nat \ {0}
  BY BelowVolume
<1>3. t \in Texts /\ Like(u, y)
  <2>1. y \in Seq(Chars \ {Slash})
    BY <1>1, <1>2, ConcatProperties
  <2>2. y \in Seq(Chars \ {Slash}) /\ t \in {y, Slashes(y), ToUpper(y)}
    BY <2>1
  <2>3. t \in Texts /\ Like(Turned(t), y)
    BY ONLY <2>2, SaidIsLike
  <2> QED  BY <2>3
<1>4. \A i \in 1..Len(v) : Lc(u[i]) = Lc(v[i])
  <2>1. v \in Texts /\ q \in Texts /\ Like(u, v \o q)
    BY <1>1, <1>2, <1>3
  <2> QED  BY ONLY <2>1, LikeBehind
<1>5. u \in Texts /\ Len(u) = Len(v) + Len(q) /\ Len(u) \in Nat /\ \A i \in 1..Len(u) : u[i] # Slash /\ u[i] \in Chars
  <2>1. u \in Texts /\ Len(u) = Len(y) /\ \A i \in 1..Len(y) : u[i] # Slash
    BY <1>3 DEF Like
  <2>2. Len(y) = Len(v) + Len(q)
    BY <1>1, <1>2, BothIs
  <2> QED  BY <1>1, <1>2, <2>1, <2>2, LowerIs
<1>6. Len(u) > 1 /\ 1 \in 1..Len(v) /\ 2 \in 1..Len(v) /\ 1 \in 1..Len(u) /\ 2 \in 1..Len(u)
  <2> PICK k, l, m : k = Len(u) /\ l = Len(v) /\ m = Len(q)
    OBVIOUS
  <2>1. k = l + m /\ l \in Int /\ l > 1 /\ m \in Nat \ {0}
    <3>1. Len(u) = Len(v) + Len(q)
      BY <1>5
    <3>2. Len(v) \in Nat /\ Len(v) > 1
      BY <1>1
    <3>3. Len(q) \in Nat \ {0}
      BY <1>2
    <3>4. k = l + m /\ l \in Nat /\ l > 1 /\ m \in Nat \ {0}
      BY <3>1, <3>2, <3>3
    <3> QED  BY ONLY <3>4
  <2>2. k > 1 /\ 1 \in 1..l /\ 2 \in 1..l /\ 1 \in 1..k /\ 2 \in 1..k
    BY ONLY <2>1
  <2> QED  BY <2>2
<1>7. u[1] = Sep /\ u[2] \notin Marks /\ Lc(u[2]) # Lc("SystemRoot")
  <2>1. Lc(u[1]) = Lc(Sep) /\ Lc(u[2]) = Lc(v[2]) /\ u[1] \in Chars /\ u[2] \in Chars
    BY <1>1, <1>4, <1>5, <1>6
  <2> PICK c, a, b : c = v[2] /\ a = u[1] /\ b = u[2]
    OBVIOUS
  <2>2. \A m \in Marks : \A x \in Chars : Lc(x) = m <=> x = m
    BY LettersAre
  <2>3. Lc(Sep) = Sep /\ Sep \in Marks
    BY LettersAre
  <2>4. c \in Chars /\ c \notin Marks /\ Lc(c) # Lc("SystemRoot") /\ Lc(a) = Sep /\ Lc(b) = Lc(c) /\ a \in Chars /\ b \in Chars
    BY <1>1, <2>1, <2>3
  <2>5. a = Sep /\ b \notin Marks /\ Lc(b) # Lc("SystemRoot")
    BY ONLY <2>2, <2>3, <2>4
  <2> QED  BY <2>5
<1>8. Unquoted(u) = u /\ WithoutNamespace(u) = u
  BY <1>5, <1>6, <1>7, NamespaceStays
<1>9. WithWindowsDir(u) = u
  <2> PICK p : p = <<Sep, "SystemRoot", Sep>>
    OBVIOUS
  <2>1. p \in Texts /\ p[2] = "SystemRoot" /\ Len(p) = 3
    BY BeginningsAre
  <2>2. 2 \in 1..Len(p)
    BY ONLY <2>1
  <2>3. ~StartsWithIgnoreCase(u, p)
    BY <1>5, <1>7, <2>1, <2>2, StartsIs
  <2> QED  BY <2>3 DEF WithWindowsDir
<1>10. t # <<>>
  <2>1. Len(Turned(t)) = Len(t)
    BY <1>3, TurnedIs
  <2>2. Len(t) > 1
    BY <1>6, <2>1
  <2> QED  BY ONLY <2>2
<1> QED  BY <1>3, <1>5, <1>6, <1>7, <1>8, <1>9, <1>10

\* Whose name a path below a volume begins with.
LEMMA OnOneVolume ==
  ASSUME NEW v \in Volumes, NEW w \in Volumes, NEW q \in Texts, Len(q) \in Nat \ {0}, q[1] = Sep,
         NEW u, Like(u, v \o q), StartsWithIgnoreCase(u, w), IsBoundaryAfterPrefix(u, Len(w))
  PROVE  w = v
<1> PICK k, l, m : k = Len(u) /\ l = Len(v) /\ m = Len(w)
  OBVIOUS
<1>1. v \in Texts /\ l \in Nat /\ w \in Texts /\ m \in Nat
  BY VolumesAre
<1>2. /\ \A i \in 1..l : Lc(u[i]) = Lc(v[i])
      /\ \A i \in 1..Len(q) : Lc(u[l + i]) = Lc(q[i])
  <2>1. v \in Texts /\ q \in Texts /\ Like(u, v \o q)
    BY <1>1
  <2>2. /\ \A i \in 1..Len(v) : Lc(u[i]) = Lc(v[i])
        /\ \A i \in 1..Len(q) : Lc(u[Len(v) + i]) = Lc(q[i])
    BY ONLY <2>1, LikeBehind
  <2> QED  BY <2>2
<1>3. u \in Texts /\ k = l + Len(q) /\ \A i \in 1..k : u[i] # Slash
  <2>1. u \in Texts /\ Len(u) = Len(v \o q) /\ \A i \in 1..Len(v \o q) : u[i] # Slash
    BY DEF Like
  <2>2. Len(v \o q) = Len(v) + Len(q)
    BY <1>1, BothIs
  <2> QED  BY <2>1, <2>2
<1>4. k \in Nat /\ l + 1 <= k /\ l + 1 \in 1..k
  <2> PICK j : j = Len(q)
    OBVIOUS
  <2>1. k = l + j /\ l \in Nat /\ j \in Nat \ {0}
    BY <1>1, <1>3
  <2> QED  BY ONLY <2>1
<1>5. m <= k /\ \A i \in 1..m : Lc(w[i]) = Lc(u[i])
  <2>1. u \in Texts /\ w \in Texts
    BY <1>1, <1>3
  <2>2. StartsWithIgnoreCase(u, w) <=> Len(w) <= Len(u) /\ \A i \in 1..Len(w) : Lc(w[i]) = Lc(u[i])
    BY ONLY <2>1, StartsIs
  <2> QED  BY <2>2
<1>6. Lc(Sep) = Sep /\ \A c \in Chars : Lc(c) = Sep => c = Sep
  BY LettersAre
<1>7. Lc(u[l + 1]) = Sep
  <2>1. 1 \in 1..Len(q)
    OBVIOUS
  <2> QED  BY <1>2, <1>6, <2>1
<1>8. CASE m <= l
  <2>1. ASSUME NEW i \in 1..m PROVE Lc(w[i]) = Lc(v[i])
    <3>1. i \in 1..l
      BY <1>1, <1>8
    <3> QED  BY <1>2, <1>5, <3>1
  <2>2. StartsWithIgnoreCase(v, w)
    <3>1. v \in Texts /\ w \in Texts
      BY <1>1
    <3>2. StartsWithIgnoreCase(v, w) <=> Len(w) <= Len(v) /\ \A i \in 1..Len(w) : Lc(w[i]) = Lc(v[i])
      BY ONLY <3>1, StartsIs
    <3> QED  BY <1>8, <2>1, <3>2
  <2>3. m # l => v[m + 1] = Sep
    <3> SUFFICES ASSUME m # l PROVE v[m + 1] = Sep
      OBVIOUS
    <3>1. m + 1 \in 1..l /\ m + 1 \in 1..k /\ k # m
      <4>1. m \in Nat /\ l \in Nat /\ k \in Nat /\ m <= l /\ m # l /\ l + 1 <= k
        BY <1>1, <1>4, <1>8
      <4> QED  BY ONLY <4>1
    <3>2. u[m + 1] \in {Sep, Slash} /\ u[m + 1] # Slash
      BY <1>3, <3>1 DEF IsBoundaryAfterPrefix
    <3>3. Lc(v[m + 1]) = Sep
      BY <1>2, <1>6, <3>1, <3>2
    <3>4. v[m + 1] \in Chars
      BY <1>1, <3>1, LowerIs
    <3> QED  BY <1>6, <3>3, <3>4
  <2>4. StartsWithIgnoreCase(v, w) /\ (Len(v) = Len(w) \/ v[Len(w) + 1] = Sep)
    BY <2>2, <2>3
  <2> QED  BY <2>4, VolumesAssumption
<1>9. CASE ~(m <= l)
  <2>0. l + 1 \in 1..m /\ l <= m
    BY <1>1, <1>9
  <2>1. ASSUME NEW i \in 1..l PROVE Lc(v[i]) = Lc(w[i])
    <3>1. i \in 1..m
      BY <1>1, <1>9
    <3> QED  BY <1>2, <1>5, <3>1
  <2>2. StartsWithIgnoreCase(w, v)
    <3>1. v \in Texts /\ w \in Texts
      BY <1>1
    <3>2. StartsWithIgnoreCase(w, v) <=> Len(v) <= Len(w) /\ \A i \in 1..Len(v) : Lc(v[i]) = Lc(w[i])
      BY ONLY <3>1, StartsIs
    <3> QED  BY <2>0, <2>1, <3>2
  <2>3. w[l + 1] = Sep
    <3>1. Lc(w[l + 1]) = Sep
      BY <1>5, <1>7, <2>0
    <3>2. w[l + 1] \in Chars
      BY <1>1, <2>0, LowerIs
    <3> QED  BY <1>6, <3>1, <3>2
  <2>4. StartsWithIgnoreCase(w, v) /\ (Len(w) = Len(v) \/ w[Len(v) + 1] = Sep)
    BY <2>2, <2>3
  <2> QED  BY <2>4, VolumesAssumption
<1> QED  BY <1>8, <1>9

\* A path below a volume that has a letter leads where the letter and the rest lead.
LEMMA DeviceHasLetter ==
  ASSUME NEW dev, DevicesAre(dev), Distinct(dev), NEW d \in ToSet(Drives), NEW Q \in Seq(NameTexts),
         dev[d] \in Volumes,
         NEW t, LET y == dev[d] \o Tail(Written("", Q)) IN t \in {y, Slashes(y), ToUpper(y)}
  PROVE  t # <<>> /\ LeadsTo(Stripped(dev, Turned(t)), PlaceNamed(Written(d, Q)))
<1> PICK v, q, u : v = dev[d] /\ q = Tail(Written("", Q)) /\ u = Turned(t)
  OBVIOUS
<1>1. v \in Volumes /\ v \in Texts /\ v # <<>> /\ Len(v) \in Nat
  BY VolumesAre
<1>2. q \in Texts /\ Len(q) \in Nat \ {0} /\ q[1] = Sep /\ Written(d, Q) = <<d>> \o q
  BY BelowVolume
<1>3. /\ t # <<>> /\ Like(u, v \o q) /\ u \in Texts
      /\ WithWindowsDir(WithoutNamespace(Unquoted(u))) = u /\ \A i \in 1..Len(u) : u[i] # Slash
  <2>1. v \in Volumes /\ Q \in Seq(NameTexts) /\ LET y == v \o Tail(Written("", Q)) IN t \in {y, Slashes(y), ToUpper(y)}
    BY <1>1
  <2>2. LET x == Turned(t)
         IN  /\ t # <<>> /\ Like(x, v \o Tail(Written("", Q))) /\ x \in Texts /\ x[1] = Sep
             /\ WithWindowsDir(WithoutNamespace(Unquoted(x))) = x
             /\ Len(x) > 1 /\ \A i \in 1..Len(x) : x[i] # Slash
    BY ONLY <2>1, SaidByDevice
  <2> QED  BY <2>2
<1>4. /\ StartsWithIgnoreCase(u, v) /\ Like(After(u, Len(v)), q) /\ Len(v) <= Len(u)
      /\ \A i \in 1..Len(q) : Lc(u[Len(v) + i]) = Lc(q[i])
  <2>1. v \in Texts /\ q \in Texts /\ Like(u, v \o q)
    BY <1>1, <1>2, <1>3
  <2> QED  BY ONLY <2>1, LikeBehind
<1>5. LiesOn(dev, u, d)
  <2>1. 1 \in 1..Len(q)
    <3>1. Len(q) \in Nat \ {0}
      BY <1>2
    <3> QED  BY ONLY <3>1
  <2>2. Lc(u[Len(v) + 1]) = Lc(Sep)
    BY <1>2, <1>4, <2>1
  <2>3. Len(v) + 1 \in 1..Len(u)
    <3>1. Len(u) = Len(v \o q)
      BY <1>3 DEF Like
    <3>2. Len(v \o q) = Len(v) + Len(q)
      BY <1>1, <1>2, BothIs
    <3> PICK k, l, m : k = Len(u) /\ l = Len(v) /\ m = Len(q)
      OBVIOUS
    <3>3. k = l + m /\ l \in Nat /\ m \in Nat \ {0}
      BY <1>1, <1>2, <3>1, <3>2
    <3>4. l + 1 \in 1..k
      BY ONLY <3>3
    <3> QED  BY <3>4
  <2>4. u[Len(v) + 1] = Sep
    BY <1>3, <2>2, <2>3, LowerIs, LettersAre
  <2> QED  BY <1>1, <1>4, <2>4 DEF LiesOn, IsBoundaryAfterPrefix
<1>6. PICK e \in ToSet(Drives) :
        /\ LiesOn(dev, u, e)
        /\ DevicePathToDosPath(dev, u) =
             LET rest == After(u, Len(dev[e]))
             IN  IF rest # <<>> THEN <<e>> \o rest ELSE <<e, Sep>>
  BY <1>5, DeviceIs
<1>7. e = d
  <2>1. dev[e] \in Volumes /\ StartsWithIgnoreCase(u, dev[e]) /\ IsBoundaryAfterPrefix(u, Len(dev[e]))
    BY <1>6 DEF DevicesAre, LiesOn
  <2> PICK w : w = dev[e]
    OBVIOUS
  <2>2. /\ v \in Volumes /\ w \in Volumes /\ q \in Texts /\ Len(q) \in Nat \ {0} /\ q[1] = Sep
        /\ Like(u, v \o q) /\ StartsWithIgnoreCase(u, w) /\ IsBoundaryAfterPrefix(u, Len(w))
    BY <1>1, <1>2, <1>3, <2>1
  <2>3. w = v
    BY ONLY <2>2, OnOneVolume
  <2> QED  BY <1>1, <2>3 DEF Distinct
<1> PICK b, r, s : b = After(u, Len(v)) /\ r = <<d>> \o b /\ s = <<d>> \o q
  OBVIOUS
<1>8. b \in Texts /\ Len(b) = Len(q) /\ b # <<>>
      /\ \A i \in 1..Len(q) : Lc(b[i]) = Lc(q[i]) /\ b[i] # Slash /\ (q[i] \in ToSet(Drives) => b[i] = q[i])
  <2>1. b \in Texts /\ Len(b) = Len(q)
        /\ \A i \in 1..Len(q) : Lc(b[i]) = Lc(q[i]) /\ b[i] # Slash /\ (q[i] \in ToSet(Drives) => b[i] = q[i])
    BY <1>4 DEF Like
  <2>2. b # <<>>
    BY <1>2, <2>1
  <2> QED  BY <2>1, <2>2
<1>9. DevicePathToDosPath(dev, u) = r
  BY <1>6, <1>7, <1>8
<1>10. Stripped(dev, u) = r
  BY <1>3, <1>9 DEF Stripped
<1>11. d \in Chars /\ d # Slash
  BY DrivesAre
<1>12. r \in Texts /\ r[1] = d /\ Len(r) = Len(b) + 1 /\ \A i \in 1..Len(b) : r[i + 1] = b[i]
  <2>1. b \in Texts /\ d \in Chars
    BY <1>8, <1>11
  <2>2. /\ <<d>> \o b \in Texts /\ (<<d>> \o b)[1] = d /\ Len(<<d>> \o b) = Len(b) + 1
        /\ \A i \in 1..Len(b) : (<<d>> \o b)[i + 1] = b[i]
    BY ONLY <2>1, TailOfConcat
  <2> QED  BY <2>2
<1>13. s \in Texts /\ s[1] = d /\ Len(s) = Len(q) + 1 /\ \A i \in 1..Len(q) : s[i + 1] = q[i]
  <2>1. q \in Texts /\ d \in Chars
    BY <1>2, <1>11
  <2>2. /\ <<d>> \o q \in Texts /\ (<<d>> \o q)[1] = d /\ Len(<<d>> \o q) = Len(q) + 1
        /\ \A i \in 1..Len(q) : (<<d>> \o q)[i + 1] = q[i]
    BY ONLY <2>1, TailOfConcat
  <2> QED  BY <2>2
<1>14. Like(r, s)
  <2>1. ASSUME NEW i \in 1..Len(s)
        PROVE  Lc(r[i]) = Lc(s[i]) /\ r[i] # Slash /\ (s[i] \in ToSet(Drives) => r[i] = s[i])
    <3>1. CASE i = 1
      BY <1>11, <1>12, <1>13, <3>1
    <3>2. CASE i # 1
      <4> PICK j : j = i - 1
        OBVIOUS
      <4>1. j \in 1..Len(q) /\ j + 1 = i
        <5> PICK m, k : m = Len(q) /\ k = Len(s)
          OBVIOUS
        <5>1. m \in Nat /\ k = m + 1 /\ i \in 1..k
          BY <1>2, <1>13
        <5>2. i - 1 \in 1..m /\ (i - 1) + 1 = i
          BY ONLY <3>2, <5>1
        <5> QED  BY <5>2
      <4>2. r[j + 1] = b[j] /\ s[j + 1] = q[j]
        <5>1. j \in 1..Len(b)
          BY <1>8, <4>1
        <5> QED  BY <1>12, <1>13, <4>1, <5>1
      <4>3. Lc(b[j]) = Lc(q[j]) /\ b[j] # Slash /\ (q[j] \in ToSet(Drives) => b[j] = q[j])
        BY <1>8, <4>1
      <4>4. Lc(r[j + 1]) = Lc(s[j + 1]) /\ r[j + 1] # Slash /\ (s[j + 1] \in ToSet(Drives) => r[j + 1] = s[j + 1])
        BY ONLY <4>2, <4>3
      <4> QED  BY <4>1, <4>4
    <3> QED  BY <3>1, <3>2
  <2>2. Len(r) = Len(s)
    BY <1>8, <1>12, <1>13
  <2> QED  BY <1>12, <1>13, <2>1, <2>2 DEF Like
<1>15. OnDrive(s) /\ s[2] = Sep
  <2>1. OnDrive(Written(d, Q)) /\ Written(d, Q)[2] = Sep
    BY WrittenOnDrive
  <2> QED  BY <1>2, <2>1
<1>16. LeadsTo(r, PlaceNamed(s))
  <2>1. Like(r, s) /\ OnDrive(s) /\ s[2] = Sep
    BY <1>14, <1>15
  <2> QED  BY ONLY <2>1, LikeLeads
<1> QED  BY <1>2, <1>3, <1>10, <1>16

\* A volume has no letter.
Letterless(dev, v) == \A d \in ToSet(Drives) : dev[d] # v

\* A normalised path that begins with no drive, and is not normalised further.
StaysBare(dev, n) == n \in Texts /\ n # <<>> /\ n[1] = Sep /\ NormalizeFilePath(dev, n) = n

\* A path below a volume that has none stays as it is.
LEMMA DeviceHasNone ==
  ASSUME NEW dev, DevicesAre(dev), NEW v \in Volumes, Letterless(dev, v),
         NEW Q \in Seq(NameTexts),
         NEW t, LET y == v \o Tail(Written("", Q)) IN t \in {y, Slashes(y), ToUpper(y)}
  PROVE  StaysBare(dev, NormalizeFilePath(dev, t))
<1> PICK q, u : q = Tail(Written("", Q)) /\ u = Turned(t)
  OBVIOUS
<1>1. q \in Texts /\ Len(q) \in Nat \ {0} /\ q[1] = Sep
  BY BelowVolume
<1>2. /\ t # <<>> /\ Like(u, v \o q) /\ u \in Texts /\ u[1] = Sep /\ Len(u) > 1
      /\ WithWindowsDir(WithoutNamespace(Unquoted(u))) = u /\ \A i \in 1..Len(u) : u[i] # Slash
  BY SaidByDevice
<1>3. DevicePathToDosPath(dev, u) = u
  <2>1. \A d \in ToSet(Drives) : ~LiesOn(dev, u, d)
    <3> SUFFICES ASSUME NEW d \in ToSet(Drives), LiesOn(dev, u, d) PROVE FALSE
      OBVIOUS
    <3> PICK w : w = dev[d]
      OBVIOUS
    <3>1. w \in Volumes /\ StartsWithIgnoreCase(u, w) /\ IsBoundaryAfterPrefix(u, Len(w))
      BY DEF DevicesAre, LiesOn
    <3>2. /\ v \in Volumes /\ w \in Volumes /\ q \in Texts /\ Len(q) \in Nat \ {0} /\ q[1] = Sep
          /\ Like(u, v \o q) /\ StartsWithIgnoreCase(u, w) /\ IsBoundaryAfterPrefix(u, Len(w))
      BY <1>1, <1>2, <3>1
    <3>3. w = v
      BY ONLY <3>2, OnOneVolume
    <3> QED  BY <3>3 DEF Letterless
  <2> QED  BY <2>1, DeviceIs
<1>4. Stripped(dev, u) = u
  BY <1>2, <1>3 DEF Stripped
<1>5. NormalizedFrom(u) = u
  <2>1. u[1] \notin ToSet(Drives)
    BY <1>2, DrivesAre, BeginningsAre
  <2> QED  BY <2>1 DEF NormalizedFrom
<1>6. Turned(u) = u
  <2> PICK x : x = Turned(u)
    OBVIOUS
  <2>1. x \in Texts /\ Len(x) = Len(u) /\ \A i \in 1..Len(u) : x[i] = u[i]
    BY <1>2, TurnedIs
  <2> QED  BY <1>2, <2>1, SeqEqual DEF Texts
<1>7. NormalizeFilePath(dev, t) = u /\ NormalizeFilePath(dev, u) = u
  BY <1>4, <1>5, <1>6, NormalizeIs
<1>8. u # <<>>
  <2>1. Len(u) > 1
    BY <1>2
  <2> QED  BY ONLY <2>1
<1> QED  BY <1>2, <1>7, <1>8 DEF StaysBare

\* Such a path lies in no folder of a drive.
LEMMA NotOnDrive ==
  ASSUME NEW dev, DevicesAre(dev), NEW n \in Texts, n # <<>>, n[1] = Sep, NormalizeFilePath(dev, n) = n,
         NEW f, OnDrive(f)
  PROVE  ~IsSameOrInsideFolder(dev, n, f)
<1> PICK r, w, x, y :
      /\ r = RemoveTrailingSlash(n) /\ x = ToLowerPath(r)
      /\ w = Written(f[1], Parts(f)) /\ y = ToLowerPath(w)
  OBVIOUS
<1>1. f \in Texts /\ f # <<>> /\ f[1] \in ToSet(Drives)
  BY DEF OnDrive
<1>2. RemoveTrailingSlash(NormalizeFilePath(dev, f)) = w
  BY ShortenedOnDrive
<1>3. w \in Texts /\ w # <<>> /\ w[1] = f[1] /\ Len(w) \in Nat /\ Len(w) > 1
  <2>1. f[1] \in Chars \ {Slash} /\ Parts(f) \in Seq(NameTexts)
    BY <1>1, DrivesAre, PartsIs
  <2> QED  BY <2>1, WrittenIs
<1>4. y \in Texts /\ Len(y) > 1 /\ Len(y) \in Nat /\ y[1] = Lc(f[1])
  <2>1. 1 \in 1..Len(w)
    BY <1>3
  <2> QED  BY <1>3, <2>1, LowerIs
<1>5. r \in Texts /\ (Len(r) > 0 => r[1] = n[1])
  <2>1. PICK m \in 0..Len(n) : (m = 0 \/ n[m] \notin {Sep, Slash}) /\ \A i \in (m + 1)..Len(n) : n[i] \in {Sep, Slash}
    BY LastName
  <2> PICK k : k = IF m = 1 /\ Len(n) > 1 /\ n[1] \in ToSet(Drives) THEN 2 ELSE m
    OBVIOUS
  <2>2. r = SubSeq(n, 1, k)
    BY <2>1, RemovedTrailing
  <2>3. n \in Seq(Chars) /\ Len(n) \in Nat
    BY LowerIs DEF Texts
  <2>4. k \in 0..Len(n)
    BY <2>3
  <2>5. r \in Seq(Chars) /\ Len(r) = k /\ \A i \in 1..k : r[i] = n[i]
    BY <2>2, <2>3, <2>4, FirstOnes
  <2>6. k > 0 => 1 \in 1..k
    BY <2>3, <2>4
  <2> QED  BY <2>5, <2>6 DEF Texts
<1>6. x \in Texts /\ Len(x) = Len(r) /\ (Len(x) > 0 => x[1] = Sep)
  <2>1. x \in Texts /\ Len(x) = Len(r) /\ Len(r) \in Nat /\ \A i \in 1..Len(r) : x[i] = Lc(r[i])
    BY <1>5, LowerIs
  <2>2. Lc(Sep) = Sep
    BY LettersAre
  <2>3. Len(r) > 0 => 1 \in 1..Len(r)
    BY <2>1
  <2> QED  BY <1>5, <2>1, <2>2, <2>3
<1>7. Lc(f[1]) # Sep
  BY <1>1, DrivesAre, BeginningsAre
<1>8. x # y
  BY <1>4, <1>6, <1>7
<1>9. ~IsPrefix(y, x)
  <2> SUFFICES ASSUME IsPrefix(y, x) PROVE FALSE
    OBVIOUS
  <2>1. y \in Seq(Chars) /\ x \in Seq(Chars)
    BY <1>4, <1>6 DEF Texts
  <2>2. IsPrefix(y, x) <=> Len(y) <= Len(x) /\ \A i \in 1..Len(y) : y[i] = x[i]
    BY ONLY <2>1, PrefixIs
  <2>3. Len(y) <= Len(x) /\ 1 \in 1..Len(y) /\ Len(x) > 0
    <3> PICK a, b : a = Len(y) /\ b = Len(x)
      OBVIOUS
    <3>1. a \in Nat /\ a > 1 /\ b \in Nat /\ a <= b
      BY <1>4, <1>6, <2>2, LowerIs
    <3>2. 1 \in 1..a /\ b > 0
      BY ONLY <3>1
    <3> QED  BY <3>1, <3>2
  <2> QED  BY <1>4, <1>6, <1>7, <2>2, <2>3
<1> QED  BY <1>2, <1>8, <1>9 DEF IsSameOrInsideFolder

\* What stands before the last element, and the last element.
LEMMA FrontOfAppend ==
  ASSUME NEW D, NEW q \in Seq(D), NEW x \in D
  PROVE  Append(q, x) \in Seq(D) /\ Front(Append(q, x)) = q /\ Last(Append(q, x)) = x
BY DEF Front, Last

\* A detour goes through one component more.
LEMMA DetourParts ==
  ASSUME NEW a \in Texts, NEW k \in Seq(Texts), Components(a) = k, NEW c \in Chars \ {Sep, Slash}
  PROVE  LET b == Append(Append(a, Sep), c)
         IN  b \in Texts /\ Components(b) = Append(k, <<c>>) /\ Append(k, <<c>>) \in Seq(Texts)
<1> PICK s, b, t : s = Append(a, Sep) /\ b = Append(s, c) /\ t = <<c>>
  OBVIOUS
<1>1. a \in Seq(Chars) /\ Sep \in Chars /\ c \in Chars /\ Sep # Slash
  BY LettersAre DEF Texts
<1>2. s \in Seq(Chars) /\ b \in Seq(Chars)
  BY <1>1, FrontOfAppend
<1>3. Components(s) = Split(k, Sep) /\ Components(b) = Split(Components(s), c)
  BY <1>1, <1>2, ComponentsAppend
<1>4. Split(k, Sep) = Append(k, <<>>)
  BY DEF Split
<1>5. Split(Append(k, <<>>), c) = Append(Front(Append(k, <<>>)), Append(Last(Append(k, <<>>)), c))
  BY DEF Split
<1>6. <<>> \in Texts /\ t \in Texts /\ Append(<<>>, c) = t
  BY <1>1 DEF Texts
<1>7. Front(Append(k, <<>>)) = k /\ Last(Append(k, <<>>)) = <<>> /\ Append(k, t) \in Seq(Texts)
  BY <1>6, FrontOfAppend
<1>8. Components(b) = Append(k, t)
  BY <1>3, <1>4, <1>5, <1>6, <1>7
<1> QED  BY <1>2, <1>7, <1>8 DEF Texts

\* On a detour a text leads where it leads without.
LEMMA DetourIs ==
  ASSUME NEW s \in Seq(Chars \ {Slash}), OnDrive(s)
  PROVE  LET y == <<s[1], Sep, "x", Sep, "..", Sep, ".", Sep, Sep>> \o Tail(s)
         IN  /\ y \in Seq(Chars \ {Slash}) /\ OnDrive(y) /\ y[2] = Sep
             /\ PlaceNamed(y) = PlaceNamed(s)
<1> PICK C, h, t, y, d :
      /\ C = Chars \ {Slash} /\ d = s[1] /\ h = <<Sep, "x", Sep, "..", Sep, ".", Sep, Sep>> /\ t = Tail(s)
      /\ y = <<d, Sep, "x", Sep, "..", Sep, ".", Sep, Sep>> \o t
  OBVIOUS
<1>1. /\ Sep \in C /\ "x" \in C /\ ".." \in C /\ "." \in C
      /\ "x" # Sep /\ ".." # Sep /\ "." # Sep /\ Sep # Slash
  BY DEF Chars, Marks, Sep, Slash
<1>2. s \in Texts /\ s # <<>> /\ d \in ToSet(Drives) /\ d \in C /\ Len(s) > 1
  BY DrivesAre DEF OnDrive
<1>3. t \in Texts /\ t \in Seq(C) /\ Len(t) \in Nat
  <2>1. s \in Seq(C) /\ s # <<>>
    BY <1>2
  <2>2. Tail(s) \in Seq(C)
    BY ONLY <2>1
  <2>3. t \in Texts
    BY <1>2, TailIs
  <2> QED  BY <2>2, <2>3, LowerIs
<1>4. h \in Seq(C) /\ y = <<d>> \o (h \o t) /\ Len(h) = 8 /\ h[1] = Sep
  <2>1. Sep \in C /\ "x" \in C /\ ".." \in C /\ "." \in C /\ d \in C
    BY <1>1, <1>2
  <2>2. h \in Seq(C) /\ Len(h) = 8 /\ h[1] = Sep /\ <<d, Sep, "x", Sep, "..", Sep, ".", Sep, Sep>> = <<d>> \o h
    <3> PICK a, b, e, f : a = Sep /\ b = "x" /\ e = ".." /\ f = "."
      OBVIOUS
    <3>1. a \in C /\ b \in C /\ e \in C /\ f \in C /\ d \in C
      BY <2>1
    <3>2. LET g == <<a, b, a, e, a, f, a, a>>
          IN  g \in Seq(C) /\ Len(g) = 8 /\ g[1] = a /\ <<d, a, b, a, e, a, f, a, a>> = <<d>> \o g
      BY ONLY <3>1
    <3>3. h = <<a, b, a, e, a, f, a, a>>
      OBVIOUS
    <3> QED  BY <3>2, <3>3
  <2> PICK m : m = <<d>>
    OBVIOUS
  <2>3. m \in Seq(C)
    BY <1>2
  <2>4. m \in Seq(C) /\ h \in Seq(C) /\ t \in Seq(C)
    BY <1>3, <2>2, <2>3
  <2>5. (m \o h) \o t = m \o (h \o t)
    BY ONLY <2>4, ConcatAssociative, SMTT(20)
  <2> QED  BY <2>2, <2>5
<1> PICK z : z = h \o t
  OBVIOUS
<1>5. z \in Seq(C) /\ z[1] = Sep /\ Len(z) \in Nat \ {0} /\ z \in Texts
  <2>1. \A i \in 1..(Len(h) + Len(t)) : z[i] = IF i <= Len(h) THEN h[i] ELSE t[i - Len(h)]
    BY <1>3, <1>4, ConcatProperties
  <2>2. z \in Seq(C) /\ Len(z) = Len(h) + Len(t)
    BY <1>3, <1>4, ConcatProperties
  <2>3. 1 \in 1..(Len(h) + Len(t)) /\ 1 <= Len(h) /\ Len(h) + Len(t) \in Nat \ {0}
    BY <1>3, <1>4
  <2>4. z \in Seq(Chars)
    BY <2>2, SeqMonotonic
  <2> QED  BY <1>4, <2>1, <2>2, <2>3, <2>4 DEF Texts
<1>6. y \in Texts /\ y[1] = d /\ Tail(y) = z /\ Len(y) = Len(z) + 1 /\ y[2] = Sep /\ y # <<>> /\ Len(y) > 1
  <2>1. d \in Chars /\ z \in Texts
    BY <1>2, <1>5
  <2>2. <<d>> \o z \in Texts /\ (<<d>> \o z)[1] = d /\ Tail(<<d>> \o z) = z /\ Len(<<d>> \o z) = Len(z) + 1
         /\ \A i \in 1..Len(z) : (<<d>> \o z)[i + 1] = z[i]
    BY ONLY <2>1, TailOfConcat
  <2>3. y = <<d>> \o z
    BY <1>4
  <2>4. 1 \in 1..Len(z) /\ Len(z) + 1 > 1 /\ 1 + 1 = 2
    BY <1>5
  <2>5. y[1 + 1] = z[1] /\ Len(y) > 1
    BY <2>2, <2>3, <2>4
  <2>6. y # <<>>
    BY ONLY <2>5
  <2> QED  BY <1>5, <2>2, <2>3, <2>4, <2>5, <2>6
<1>7. y \in Seq(C)
  <2>1. <<d>> \in Seq(C)
    BY <1>2
  <2> QED  BY <1>4, <1>5, <2>1, ConcatProperties
<1> DEFINE a2 == Append(Append(<<>>, Sep), "x")
           a4 == Append(Append(a2, Sep), "..")
           a6 == Append(Append(a4, Sep), ".")
           a7 == Append(a6, Sep)
           k0 == << <<>> >>
           k2 == Append(k0, <<"x">>)
           k4 == Append(k2, <<"..">>)
           k6 == Append(k4, <<".">>)
           k7 == Append(k6, <<>>)
<1>8. <<>> \in Texts /\ k0 \in Seq(Texts) /\ Components(<<>>) = k0
  <2>1. <<>> \in Texts
    BY EmptySeq DEF Texts
  <2>2. k0 \in Seq(Texts)
    BY <2>1
  <2> QED  BY <2>1, <2>2, ComponentsOfNothing
<1>9. a2 \in Texts /\ Components(a2) = k2 /\ k2 \in Seq(Texts)
  <2>1. "x" \in Chars \ {Sep, Slash}
    BY <1>1
  <2> HIDE DEF k0
  <2> QED  BY <1>8, <2>1, DetourParts
<1>10. a4 \in Texts /\ Components(a4) = k4 /\ k4 \in Seq(Texts)
  <2>1. ".." \in Chars \ {Sep, Slash}
    BY <1>1
  <2> HIDE DEF a2, k2
  <2> QED  BY <1>9, <2>1, DetourParts
<1>11. a6 \in Texts /\ Components(a6) = k6 /\ k6 \in Seq(Texts)
  <2>1. "." \in Chars \ {Sep, Slash}
    BY <1>1
  <2> HIDE DEF a4, k4
  <2> QED  BY <1>10, <2>1, DetourParts
<1>12. a7 \in Texts /\ Components(a7) = k7 /\ k7 \in Seq(Texts)
  <2> HIDE DEF a6, k6
  <2>1. a6 \in Seq(Chars) /\ Sep \in Chars
    BY <1>1, <1>11 DEF Texts
  <2>2. Components(a7) = Split(k6, Sep)
    BY <1>11, <2>1, ComponentsAppend
  <2>3. Split(k6, Sep) = k7
    BY DEF Split
  <2>4. k7 \in Seq(Texts)
    BY <1>8, <1>11, FrontOfAppend
  <2>5. a7 \in Texts
    BY <2>1, FrontOfAppend DEF Texts
  <2> QED  BY <2>2, <2>3, <2>4, <2>5
<1>13. Walk(k7) = <<>>
  <2>0. /\ <<"x">> \in Texts /\ <<"..">> \in Texts /\ <<".">> \in Texts
        /\ <<"x">> # <<"..">> /\ <<"x">> # <<".">> /\ <<"..">> # <<".">>
        /\ <<"x">> # <<>> /\ <<"..">> # <<>> /\ <<".">> # <<>>
    BY <1>1 DEF Texts
  <2>1. Walk(k0) = <<>>
    <3>1. k0 = Append(<<>>, <<>>) /\ <<>> \in Seq(Texts)
      BY EmptySeq
    <3>2. Walk(Append(<<>>, <<>>)) = Onwards(Walk(<<>>), <<>>)
      BY <1>8, <3>1, WalkAppend
    <3> QED  BY <3>1, <3>2, WalkOfNothing DEF Onwards
  <2>2. Walk(k2) = Append(<<>>, <<"x">>)
    <3> HIDE DEF k0
    <3>1. Walk(k2) = Onwards(<<>>, <<"x">>)
      BY <1>8, <2>0, <2>1, WalkAppend
    <3> QED  BY <2>0, <3>1 DEF Onwards
  <2>3. Walk(k4) = <<>>
    <3> HIDE DEF k2
    <3>1. Walk(k4) = Onwards(Append(<<>>, <<"x">>), <<"..">>)
      BY <1>9, <2>0, <2>2, WalkAppend
    <3>2. <<>> \in Seq(Texts)
      BY EmptySeq
    <3>3. Front(Append(<<>>, <<"x">>)) = <<>>
      BY <2>0, <3>2, FrontOfAppend
    <3> QED  BY <2>0, <3>1, <3>3 DEF Onwards
  <2>4. Walk(k6) = <<>>
    <3> HIDE DEF k4
    <3>1. Walk(k6) = Onwards(<<>>, <<".">>)
      BY <1>10, <2>0, <2>3, WalkAppend
    <3> QED  BY <2>0, <3>1 DEF Onwards
  <2> HIDE DEF k6
  <2>5. Walk(k7) = Onwards(<<>>, <<>>)
    BY <1>8, <1>11, <2>4, WalkAppend
  <2> QED  BY <2>5 DEF Onwards
<1>14. h = Append(a7, Sep)
  OBVIOUS
<1> HIDE DEF a7, k7
<1>15. Components(z) = k7 \o Components(t)
  <2>1. a7 \in Seq(Chars) /\ Sep \in Chars /\ Sep \in {Sep, Slash} /\ t \in Seq(Chars)
    BY <1>1, <1>3, <1>12 DEF Texts
  <2>2. Components(Append(a7, Sep) \o t) = Components(a7) \o Components(t)
    BY ONLY <2>1, ComponentsConcat
  <2> QED  BY <1>12, <1>14, <2>2
<1>16. Parts(y) = Parts(s)
  <2>1. Components(t) \in Seq(Plains)
    BY <1>2, PartsIs
  <2>2. Components(t) \in Seq(Texts)
    BY <2>1, NamesArePlain
  <2>3. Walk(k7 \o Components(t)) = Walk(Components(t))
    BY <1>12, <1>13, <2>2, WalkOfConcat
  <2> QED  BY <1>6, <1>15, <2>3 DEF Parts
<1>17. PlaceNamed(y) = PlaceNamed(s)
  BY <1>2, <1>6, <1>16, PartsIs
<1> QED  BY <1>2, <1>6, <1>7, <1>17 DEF OnDrive

\* The text y as it is, with other separators, or in capitals.
Said(y) == {y, Slashes(y), ToUpper(y)}

\* A file has a volume and names.
LEMMA FileIs ==
  ASSUME NEW file \in Files
  PROVE  file.volume \in Volumes /\ file.volume # <<>> /\ file.parts \in Seq(NameTexts)
<1>1. file.volume \in Volumes /\ file.parts \in Seq({p \in ToSet(file.parts) : IsName(p)})
  BY VolumesAssumption
<1>2. {p \in ToSet(file.parts) : IsName(p)} \subseteq NameTexts
  BY DEF IsName, NameTexts, Plains
<1> PICK A : A = {p \in ToSet(file.parts) : IsName(p)}
  OBVIOUS
<1>3. file.parts \in Seq(A) /\ A \subseteq NameTexts
  BY <1>1, <1>2
<1>4. file.parts \in Seq(NameTexts)
  BY <1>3, SeqMonotonic
<1>5. file.volume # <<>>
  BY <1>1, VolumesAre
<1> QED  BY <1>1, <1>4, <1>5

\* Where a drive and names lie.
LEMMA PlaceIs ==
  ASSUME NEW d \in ToSet(Drives), NEW Q \in Seq(NameTexts)
  PROVE  PlaceNamed(Written(d, Q)) = Fold(<< <<d>> >> \o Q)
<1> PICK w, D : w = Written(d, Q) /\ D = << <<d>> >>
  OBVIOUS
<1>1. d \in Chars /\ w \in Texts /\ w # <<>> /\ Parts(w) = Q /\ w[1] = d
  BY DrivesAre, WrittenOnDrive DEF OnDrive
<1>2. PlaceNamed(w) = << <<Lc(d)>> >> \o Fold(Q)
  BY <1>1, PartsIs
<1>3. <<d>> \in Texts
  BY <1>1 DEF Texts
<1>4. D \in Seq(Texts) /\ Q \in Seq(Texts)
  BY <1>3, NamesArePlain
<1>5. Fold(D \o Q) = Fold(D) \o Fold(Q)
  BY <1>4, FoldOfConcat, Zenon
<1>6. Fold(D) = << <<Lc(d)>> >>
  <2>1. ToLowerPath(<<d>>) = <<Lc(d)>>
    BY ONLY DEF ToLowerPath, Lc
  <2>2. Fold(<< <<d>> >>) = << ToLowerPath(<<d>>) >>
    BY ONLY DEF Fold
  <2> QED  BY <2>1, <2>2, Zenon
<1> QED  BY <1>2, <1>5, <1>6

\* By which texts a file with a letter is named.
LEMMA LetterSpellings ==
  ASSUME Distinct(device), NEW file \in Files, NEW d \in LettersOf(file), NEW t \in Spellings(file)
  PROVE  LET s == Written(d, file.parts)
             x == <<s[1], Sep, "x", Sep, "..", Sep, ".", Sep, Sep>> \o Tail(s)
         IN  \/ t \in Said(s) \/ t \in Said(x) \/ t \in Said(Append(s, Sep))
             \/ \E p \in {<<Sep, "?", "?", Sep>>, <<Sep, Sep, "?", Sep>>} : t \in Said(p \o s)
             \/ /\ StartsWithIgnoreCase(s, Append(WindowsDir, Sep))
                /\ t \in Said(<<Sep, "SystemRoot">> \o After(s, Len(WindowsDir)))
             \/ t \in Said(file.volume \o Tail(Written("", file.parts)))
             \/ t = <<Quote>> \o s \o <<Quote>>
<1> DEFINE s == Written(d, file.parts)
           x == <<s[1], Sep, "x", Sep, "..", Sep, ".", Sep, Sep>> \o Tail(s)
           below == Tail(Written("", file.parts))
           dos == {Written(e, file.parts) : e \in LettersOf(file)}
           detour == {<<r[1], Sep, "x", Sep, "..", Sep, ".", Sep, Sep>> \o Tail(r) : r \in dos}
           system == {<<Sep, "SystemRoot">> \o After(r, Len(WindowsDir)) :
                         r \in {q \in dos : StartsWithIgnoreCase(q, Append(WindowsDir, Sep))}}
           plain == dos \cup detour \cup {Append(r, Sep) : r \in dos}
           prefixed == {<<Sep, "?", "?", Sep>> \o r : r \in dos} \cup {<<Sep, Sep, "?", Sep>> \o r : r \in dos}
           said == plain \cup prefixed \cup system \cup {file.volume \o below}
<1>1. dos = {s}
  <2>1. device[d] = file.volume /\ file.volume # <<>> /\ d \in ToSet(Drives)
    BY FileIs DEF LettersOf
  <2>2. ASSUME NEW e \in ToSet(Drives), device[e] = file.volume PROVE e = d
    BY <2>1, <2>2, Zenon DEF Distinct
  <2>3. LettersOf(file) = {d}
    BY ONLY <2>1, <2>2 DEF LettersOf
  <2> QED  BY <2>3
<1>2. t \in said \cup {Slashes(y) : y \in said} \cup {ToUpper(y) : y \in said}
             \cup {<<Quote>> \o r \o <<Quote>> : r \in dos}
  BY Zenon DEF Spellings
<1>3. CASE t \in {<<Quote>> \o r \o <<Quote>> : r \in dos}
  <2> HIDE DEF dos, s, x
  <2>1. t = <<Quote>> \o s \o <<Quote>>
    BY <1>1, <1>3
  <2> QED  BY <2>1 DEF s, x
<1>4. CASE t \in said \cup {Slashes(y) : y \in said} \cup {ToUpper(y) : y \in said}
  <2>1. PICK y \in said : t \in Said(y)
    <3> HIDE DEF said
    <3> QED  BY <1>4 DEF Said
  <2> HIDE DEF dos, s
  <2>2. CASE y \in plain
    <3>1. y = s \/ y = x \/ y = Append(s, Sep)
      BY <1>1, <2>2
    <3> QED  BY <2>1, <3>1 DEF s, x
  <2>3. CASE y \in prefixed
    <3>1. \E p \in {<<Sep, "?", "?", Sep>>, <<Sep, Sep, "?", Sep>>} : y = p \o s
      BY <1>1, <2>3
    <3> QED  BY <2>1, <3>1 DEF s, x
  <2>4. CASE y \in system
    <3>1. StartsWithIgnoreCase(s, Append(WindowsDir, Sep)) /\ y = <<Sep, "SystemRoot">> \o After(s, Len(WindowsDir))
      BY <1>1, <2>4
    <3> QED  BY <2>1, <3>1 DEF s, x
  <2>5. CASE y = file.volume \o below
    BY <2>1, <2>5 DEF s, x
  <2>6. y \in plain \/ y \in prefixed \/ y \in system \/ y = file.volume \o below
    <3> HIDE DEF plain, prefixed, system, below
    <3> QED  BY <2>1
  <2> QED  BY <2>2, <2>3, <2>4, <2>5, <2>6
<1> QED  BY <1>2, <1>3, <1>4, Zenon

\* All of them lead to the file.
LEMMA SpelledWithLetter ==
  ASSUME DevicesAre(device), Distinct(device), NEW file \in Files, NEW d \in LettersOf(file),
         NEW t \in Spellings(file)
  PROVE  t # <<>> /\ LeadsTo(Stripped(device, Turned(t)), PlaceOf(file, d))
<1> PICK Q, s, dev, P, x :
      /\ Q = file.parts /\ s = Written(d, Q) /\ dev = device /\ P = PlaceNamed(s)
      /\ x = <<s[1], Sep, "x", Sep, "..", Sep, ".", Sep, Sep>> \o Tail(s)
  OBVIOUS
<1>1. d \in ToSet(Drives) /\ dev[d] = file.volume /\ dev[d] \in Volumes /\ Q \in Seq(NameTexts)
  BY FileIs DEF LettersOf
<1>2. s \in Seq(Chars \ {Slash}) /\ OnDrive(s) /\ s[2] = Sep
  <2>1. d \in Chars \ {Slash}
    BY <1>1, DrivesAre
  <2> QED  BY <1>1, <2>1, WrittenIs, WrittenOnDrive
<1>3. P = PlaceOf(file, d)
  BY <1>1, PlaceIs DEF PlaceOf
<1> DEFINE Ok == t # <<>> /\ LeadsTo(Stripped(dev, Turned(t)), P)
<1> SUFFICES Ok
  BY <1>3
<1>4. CASE t \in Said(s)
  <2>1. /\ DevicesAre(dev) /\ s \in Seq(Chars \ {Slash}) /\ OnDrive(s) /\ s[2] = Sep
        /\ t \in {s, Slashes(s), ToUpper(s)}
    BY <1>2, <1>4 DEF Said
  <2>2. t # <<>> /\ LeadsTo(Stripped(dev, Turned(t)), PlaceNamed(s))
    BY ONLY <2>1, SaidOnDrive
  <2> QED  BY <2>2
<1>5. CASE t \in Said(x)
  <2>1. x \in Seq(Chars \ {Slash}) /\ OnDrive(x) /\ x[2] = Sep /\ PlaceNamed(x) = PlaceNamed(s)
    BY <1>2, DetourIs
  <2>2. /\ DevicesAre(dev) /\ x \in Seq(Chars \ {Slash}) /\ OnDrive(x) /\ x[2] = Sep
        /\ t \in {x, Slashes(x), ToUpper(x)}
    BY <2>1, <1>5 DEF Said
  <2>3. t # <<>> /\ LeadsTo(Stripped(dev, Turned(t)), PlaceNamed(x))
    BY ONLY <2>2, SaidOnDrive
  <2> QED  BY <2>1, <2>3
<1>6. CASE t \in Said(Append(s, Sep))
  <2> PICK y : y = Append(s, Sep)
    OBVIOUS
  <2>1. y \in Seq(Chars \ {Slash})
    <3>1. Sep \in Chars \ {Slash}
      BY LettersAre
    <3> QED  BY <1>2, <3>1, AppendProperties
  <2>2. OnDrive(y) /\ y[2] = Sep /\ PlaceNamed(y) = PlaceNamed(s)
    <3>1. /\ OnDrive(s) /\ Parts(s) = Q /\ s[1] = d /\ OnDrive(y) /\ Parts(y) = Q /\ y[1] = d /\ y[2] = Sep
      BY <1>1, WrittenOnDrive
    <3>2. s \in Texts /\ s # <<>> /\ y \in Texts /\ y # <<>>
      BY <3>1 DEF OnDrive
    <3>3. PlaceNamed(s) = << <<Lc(d)>> >> \o Fold(Q)
      BY <3>1, <3>2, PartsIs
    <3>4. PlaceNamed(y) = << <<Lc(d)>> >> \o Fold(Q)
      BY <3>1, <3>2, PartsIs
    <3> QED  BY <3>1, <3>3, <3>4
  <2>3. /\ DevicesAre(dev) /\ y \in Seq(Chars \ {Slash}) /\ OnDrive(y) /\ y[2] = Sep
        /\ t \in {y, Slashes(y), ToUpper(y)}
    BY <2>1, <2>2, <1>6 DEF Said
  <2>4. t # <<>> /\ LeadsTo(Stripped(dev, Turned(t)), PlaceNamed(y))
    BY ONLY <2>3, SaidOnDrive
  <2> QED  BY <2>2, <2>4
<1>7. ASSUME NEW p \in {<<Sep, "?", "?", Sep>>, <<Sep, Sep, "?", Sep>>}, t \in Said(p \o s) PROVE Ok
  <2>1. /\ DevicesAre(dev) /\ s \in Seq(Chars \ {Slash}) /\ OnDrive(s) /\ s[2] = Sep
        /\ p \in {<<Sep, "?", "?", Sep>>, <<Sep, Sep, "?", Sep>>}
        /\ t \in {p \o s, Slashes(p \o s), ToUpper(p \o s)}
    BY <1>2, <1>7 DEF Said
  <2>2. t # <<>> /\ LeadsTo(Stripped(dev, Turned(t)), PlaceNamed(s))
    BY ONLY <2>1, SaidWithPrefix
  <2> QED  BY <2>2
<1>8. CASE /\ StartsWithIgnoreCase(s, Append(WindowsDir, Sep))
           /\ t \in Said(<<Sep, "SystemRoot">> \o After(s, Len(WindowsDir)))
  <2>1. /\ DevicesAre(dev) /\ s \in Seq(Chars \ {Slash}) /\ OnDrive(s) /\ s[2] = Sep
        /\ StartsWithIgnoreCase(s, Append(WindowsDir, Sep))
        /\ LET y == <<Sep, "SystemRoot">> \o After(s, Len(WindowsDir))
           IN  t \in {y, Slashes(y), ToUpper(y)}
    BY <1>2, <1>8 DEF Said
  <2>2. t # <<>> /\ LeadsTo(Stripped(dev, Turned(t)), PlaceNamed(s))
    BY ONLY <2>1, SaidBySystemRoot
  <2> QED  BY <2>2
<1>9. CASE t \in Said(file.volume \o Tail(Written("", file.parts)))
  <2>1. /\ DevicesAre(dev) /\ Distinct(dev) /\ d \in ToSet(Drives) /\ Q \in Seq(NameTexts) /\ dev[d] \in Volumes
        /\ LET y == dev[d] \o Tail(Written("", Q)) IN t \in {y, Slashes(y), ToUpper(y)}
    BY <1>1, <1>9 DEF Said
  <2>2. t # <<>> /\ LeadsTo(Stripped(dev, Turned(t)), PlaceNamed(Written(d, Q)))
    BY ONLY <2>1, DeviceHasLetter
  <2> QED  BY <2>2
<1>10. CASE t = <<Quote>> \o s \o <<Quote>>
  <2>1. DevicesAre(dev) /\ s \in Seq(Chars \ {Slash}) /\ OnDrive(s) /\ s[2] = Sep
    BY <1>2
  <2>2. LET y == <<Quote>> \o s \o <<Quote>>
        IN  y # <<>> /\ LeadsTo(Stripped(dev, Turned(y)), PlaceNamed(s))
    BY ONLY <2>1, SaidInQuotes
  <2> QED  BY <1>10, <2>2
<1>11. \/ t \in Said(s) \/ t \in Said(x) \/ t \in Said(Append(s, Sep))
       \/ \E p \in {<<Sep, "?", "?", Sep>>, <<Sep, Sep, "?", Sep>>} : t \in Said(p \o s)
       \/ /\ StartsWithIgnoreCase(s, Append(WindowsDir, Sep))
          /\ t \in Said(<<Sep, "SystemRoot">> \o After(s, Len(WindowsDir)))
       \/ t \in Said(file.volume \o Tail(Written("", file.parts)))
       \/ t = <<Quote>> \o s \o <<Quote>>
  BY LetterSpellings
<1>12. Ok
  <2> HIDE DEF Ok
  <2> QED  BY <1>4, <1>5, <1>6, <1>7, <1>8, <1>9, <1>10, <1>11
<1> QED  BY <1>12

\* However such a file is named, its path is normalised to where it lies.
LEMMA NormalizedWithLetter ==
  ASSUME DevicesAre(device), Distinct(device), NEW file \in Files, NEW d \in LettersOf(file),
         NEW t \in Spellings(file)
  PROVE  LET n == NormalizeFilePath(device, t)
         IN  t # <<>> /\ OnDrive(n) /\ PlaceNamed(n) = PlaceOf(file, d)
<1> PICK r, n : r = Stripped(device, Turned(t)) /\ n = NormalizedFrom(r)
  OBVIOUS
<1>1. t # <<>> /\ OnDrive(r) /\ r[2] = Sep /\ PlaceNamed(r) = PlaceOf(file, d)
  BY SpelledWithLetter DEF LeadsTo
<1>2. OnDrive(n) /\ n[1] = r[1] /\ Parts(n) = Parts(r)
  BY <1>1, FullPathIs
<1>3. n \in Texts /\ n # <<>> /\ r \in Texts /\ r # <<>>
  BY <1>1, <1>2 DEF OnDrive
<1>4. PlaceNamed(n) = << <<Lc(n[1])>> >> \o Fold(Parts(n))
  BY <1>3, PartsIs
<1>5. PlaceNamed(r) = << <<Lc(r[1])>> >> \o Fold(Parts(r))
  BY <1>3, PartsIs
<1> QED  BY <1>1, <1>2, <1>4, <1>5, NormalizeIs

\* A file of a volume without a letter is named by its device only.
LEMMA SpelledWithout ==
  ASSUME DevicesAre(device), NEW file \in Files, LettersOf(file) = {}, NEW t \in Spellings(file)
  PROVE  StaysBare(device, NormalizeFilePath(device, t))
<1> DEFINE y == file.volume \o Tail(Written("", file.parts))
<1>1. t \in Said(y)
  <2> DEFINE dos == {Written(e, file.parts) : e \in LettersOf(file)}
  <2>1. dos = {}
    OBVIOUS
  <2> HIDE DEF y
  <2>2. Spellings(file) = {y} \cup {Slashes(x) : x \in {y}} \cup {ToUpper(x) : x \in {y}}
    <3>1. \A f, g, h : {f : r \in dos} = {} 
      BY <2>1
    <3> QED  BY <2>1 DEF Spellings, y
  <2> QED  BY <2>2 DEF Said
<1>2. file.volume \in Volumes /\ file.parts \in Seq(NameTexts) /\ Letterless(device, file.volume)
  BY FileIs DEF LettersOf, Letterless
<1> PICK v, Q, dev : v = file.volume /\ Q = file.parts /\ dev = device
  OBVIOUS
<1>3. /\ DevicesAre(dev) /\ v \in Volumes /\ Q \in Seq(NameTexts) /\ Letterless(dev, v)
      /\ LET z == v \o Tail(Written("", Q)) IN t \in {z, Slashes(z), ToUpper(z)}
  BY <1>1, <1>2 DEF Said
<1>4. StaysBare(dev, NormalizeFilePath(dev, t))
  BY ONLY <1>3, DeviceHasNone
<1> QED  BY <1>4

------------------------------------------------------------------------------
(* The list of protected folders.                                          *)

\* The texts of folders, and no text.
Given == {s \in Texts : s = <<>> \/ OnDrive(s)}

\* A list has each folder once, by its text without separators at its end, and
\* its folders are those in these places.
ListIs(list, places) ==
    /\ list \in Seq(Texts)
    /\ \A i, j \in DOMAIN list : ToLowerPath(list[i]) = ToLowerPath(list[j]) => i = j
    /\ \A i \in DOMAIN list :
         /\ OnDrive(list[i]) /\ PlaceNamed(list[i]) \in places
         /\ Len(list[i]) > 2 => Last(list[i]) # Sep
    /\ \A p \in places : \E i \in DOMAIN list : PlaceNamed(list[i]) = p

\* A folder is listed by the drive and the names.
LEMMA ListedIs ==
  ASSUME NEW dev, DevicesAre(dev), NEW x, OnDrive(x)
  PROVE  LET n == RemoveTrailingSlash(NormalizeFilePath(dev, x))
         IN  n \in Texts /\ OnDrive(n) /\ PlaceNamed(n) = PlaceNamed(x) /\ (Len(n) > 2 => Last(n) # Sep)
<1> PICK m, n, d, Q : m = NormalizeFilePath(dev, x) /\ n = RemoveTrailingSlash(m) /\ d = x[1] /\ Q = Parts(x)
  OBVIOUS
<1>1. x \in Texts /\ x # <<>> /\ d \in ToSet(Drives)
  BY DEF OnDrive
<1>2. n = Written(d, Q)
  BY ShortenedOnDrive
<1>3. Q \in Seq(NameTexts) /\ PlaceNamed(x) = << <<Lc(d)>> >> \o Fold(Q)
  BY <1>1, PartsIs
<1>4. OnDrive(n) /\ Parts(n) = Q /\ n[1] = d
  BY <1>1, <1>2, <1>3, WrittenOnDrive
<1>5. n \in Texts /\ n # <<>>
  BY <1>4 DEF OnDrive
<1>6. PlaceNamed(n) = << <<Lc(d)>> >> \o Fold(Q)
  BY <1>4, <1>5, PartsIs
<1>7. m \in Texts
  <2>1. OnDrive(m)
    BY NormalizedOnDrive
  <2> QED  BY <2>1 DEF OnDrive
<1>8. Len(n) > 2 => Last(n) # Sep
  BY <1>7, ListedEnds
<1> QED  BY <1>3, <1>4, <1>5, <1>6, <1>8

\* A list stays one of texts.
LEMMA AddedIn ==
  ASSUME NEW dev, DevicesAre(dev), NEW x \in Given, NEW q \in Seq(Texts)
  PROVE  AddUniqueFolder(dev, q, x) \in Seq(Texts)
<1> PICK n : n = RemoveTrailingSlash(NormalizeFilePath(dev, x))
  OBVIOUS
<1>1. x # <<>> => n \in Texts
  BY ListedIs DEF Given
<1>2. x # <<>> => Append(q, n) \in Seq(Texts)
  BY <1>1, AppendProperties
<1> QED  BY <1>2 DEF AddUniqueFolder

\* One more folder is one more place, if it is not in the list already.
LEMMA AddedIs ==
  ASSUME NEW dev, DevicesAre(dev), NEW x, OnDrive(x), NEW q, NEW places, ListIs(q, places)
  PROVE  ListIs(AddUniqueFolder(dev, q, x), places \cup {PlaceNamed(x)})
<1> PICK n, p : n = RemoveTrailingSlash(NormalizeFilePath(dev, x)) /\ p = PlaceNamed(x)
  OBVIOUS
<1>1. n \in Texts /\ OnDrive(n) /\ PlaceNamed(n) = p /\ (Len(n) > 2 => Last(n) # Sep)
  BY ListedIs
<1>2. /\ q \in Seq(Texts)
      /\ \A i, j \in DOMAIN q : ToLowerPath(q[i]) = ToLowerPath(q[j]) => i = j
      /\ \A i \in DOMAIN q :
           /\ OnDrive(q[i]) /\ PlaceNamed(q[i]) \in places
           /\ Len(q[i]) > 2 => Last(q[i]) # Sep
      /\ \A r \in places : \E i \in DOMAIN q : PlaceNamed(q[i]) = r
  BY DEF ListIs
<1>3. x # <<>>
  BY DEF OnDrive
<1>4. CASE \E f \in ToSet(q) : ToLowerPath(f) = ToLowerPath(n)
  <2>1. AddUniqueFolder(dev, q, x) = q
    BY <1>4 DEF AddUniqueFolder
  <2>2. PICK i \in DOMAIN q : ToLowerPath(q[i]) = ToLowerPath(n)
    BY <1>4 DEF ToSet
  <2>3. q[i] \in Texts /\ n # <<>>
    BY <1>1, <1>2 DEF OnDrive
  <2> PICK f : f = q[i]
    OBVIOUS
  <2>4. f \in Texts /\ n \in Texts /\ ToLowerPath(f) = ToLowerPath(n) /\ n # <<>>
    BY <1>1, <2>2, <2>3
  <2>5. PlaceNamed(f) = PlaceNamed(n)
    BY ONLY <2>4, LowerPlace
  <2>6. PlaceNamed(q[i]) = p /\ p \in places
    BY <1>1, <1>2, <2>5
  <2>7. places \cup {p} = places
    BY <2>6
  <2> QED  BY <2>1, <2>7
<1>5. CASE ~\E f \in ToSet(q) : ToLowerPath(f) = ToLowerPath(n)
  <2> PICK r, N, P : r = Append(q, n) /\ N = Len(q) /\ P = places \cup {p}
    OBVIOUS
  <2>1. AddUniqueFolder(dev, q, x) = r
    BY <1>3, <1>5 DEF AddUniqueFolder
  <2>2. /\ r \in Seq(Texts) /\ N \in Nat /\ DOMAIN q = 1..N /\ DOMAIN r = 1..(N + 1)
        /\ r[N + 1] = n /\ \A i \in 1..N : r[i] = q[i]
    <3>1. q \in Seq(Texts) /\ n \in Texts
      BY <1>1, <1>2
    <3>2. N \in Nat /\ DOMAIN q = 1..N
      BY <3>1, LenProperties
    <3>3. Append(q, n) \in Seq(Texts) /\ Len(Append(q, n)) = Len(q) + 1
          /\ Append(q, n)[Len(q) + 1] = n /\ \A i \in 1..Len(q) : Append(q, n)[i] = q[i]
      BY ONLY <3>1, AppendProperties
    <3>4. DOMAIN r = 1..(N + 1)
      BY <3>3, LenProperties
    <3> QED  BY <3>2, <3>3, <3>4
  <2>3. \A i \in 1..N : ToLowerPath(q[i]) # ToLowerPath(n)
    BY <1>5, <2>2 DEF ToSet
  <2>4. ASSUME NEW i \in 1..(N + 1) PROVE i \in 1..N \/ i = N + 1
    BY <2>2
  <2>5. ASSUME NEW i \in 1..(N + 1), NEW j \in 1..(N + 1), ToLowerPath(r[i]) = ToLowerPath(r[j])
        PROVE  i = j
    BY <1>2, <2>2, <2>3, <2>4, <2>5
  <2>6. ASSUME NEW i \in 1..(N + 1)
        PROVE  /\ OnDrive(r[i]) /\ PlaceNamed(r[i]) \in P
               /\ Len(r[i]) > 2 => Last(r[i]) # Sep
    <3>1. CASE i = N + 1
      BY <1>1, <2>2, <3>1
    <3>2. CASE i \in 1..N
      <4>1. r[i] = q[i] /\ i \in DOMAIN q
        BY <2>2, <3>2
      <4> QED  BY <1>2, <4>1
    <3> QED  BY <2>4, <3>1, <3>2
  <2>7. ASSUME NEW o \in P PROVE \E i \in 1..(N + 1) : PlaceNamed(r[i]) = o
    <3>1. CASE o = p
      <4>1. N + 1 \in 1..(N + 1)
        BY <2>2
      <4> QED  BY <1>1, <2>2, <3>1, <4>1
    <3>2. CASE o \in places
      <4>1. PICK i \in 1..N : PlaceNamed(q[i]) = o
        BY <1>2, <2>2, <3>2
      <4>2. i \in 1..(N + 1)
        BY <2>2
      <4> QED  BY <2>2, <4>1, <4>2
    <3> QED  BY <3>1, <3>2
  <2>8. ListIs(r, P)
    <3>1. r \in Seq(Texts) /\ DOMAIN r = 1..(N + 1)
      BY <2>2
    <3>2. \A i, j \in DOMAIN r : ToLowerPath(r[i]) = ToLowerPath(r[j]) => i = j
      BY ONLY <2>5, <3>1
    <3>3. \A i \in DOMAIN r : /\ OnDrive(r[i]) /\ PlaceNamed(r[i]) \in P
                              /\ Len(r[i]) > 2 => Last(r[i]) # Sep
      BY ONLY <2>6, <3>1
    <3>4. \A o \in P : \E i \in DOMAIN r : PlaceNamed(r[i]) = o
      BY ONLY <2>7, <3>1
    <3> QED  BY ONLY <3>1, <3>2, <3>3, <3>4 DEF ListIs
  <2> QED  BY <2>1, <2>8
<1> QED  BY <1>4, <1>5

\* A list grows by one text after the other.
Adds(f, dev, texts) ==
    /\ f \in [0..Len(texts) -> Seq(Texts)] /\ f[0] = <<>> /\ f[Len(texts)] = AddAll(dev, texts)
    /\ \A n \in 1..Len(texts) : f[n] = AddUniqueFolder(dev, f[n - 1], texts[n])

\* AddAll goes through the texts one by one.
LEMMA AddAllClimbs ==
  ASSUME NEW dev, DevicesAre(dev), NEW texts \in Seq(Given)
  PROVE  \E f : Adds(f, dev, texts)
<1> DEFINE N == Len(texts)
           X == Seq(Texts)
           One(q, n) == AddUniqueFolder(dev, q, texts[n])
           Whole(f) == [n \in 0..N |-> IF n = 0 THEN <<>> ELSE One(f[n - 1], n)]
           step == [n \in 1..N |-> [q \in X |-> One(q, n)]]
<1>1. N \in Nat /\ <<>> \in X
  BY LenProperties, EmptySeq
<1>2. \A n \in 1..N : \A q \in X : One(q, n) \in X
  <2> SUFFICES ASSUME NEW n \in 1..N, NEW q \in X PROVE One(q, n) \in X
    OBVIOUS
  <2>1. texts[n] \in Given
    BY ElementOfSeq
  <2> QED  BY <2>1, AddedIn
<1>3. PICK f \in [0..N -> X] : f[0] = <<>> /\ \A n \in 1..N : f[n] = One(f[n - 1], n)
  <2> HIDE DEF N, X, One
  <2>1. step \in [1..N -> [X -> X]]
    BY <1>2
  <2> HIDE DEF step
  <2>2. Steps(X, <<>>, N, step)
    BY <1>1, <2>1 DEF Steps
  <2>3. PICK f : Climbs(f, X, <<>>, N, step)
    BY <2>2, StepsClimb
  <2>4. f \in [0..N -> X] /\ f[0] = <<>> /\ \A n \in 1..N : f[n] = step[n][f[n - 1]]
    BY <2>3 DEF Climbs
  <2>5. \A n \in 1..N : f[n] = One(f[n - 1], n)
    <3> SUFFICES ASSUME NEW n \in 1..N PROVE f[n] = One(f[n - 1], n)
      OBVIOUS
    <3>1. f[n - 1] \in X
      BY <1>1, <2>4
    <3> QED  BY <2>4, <3>1 DEF step
  <2> QED  BY <2>4, <2>5
<1>4. f = Whole(f)
  <2>1. \A n \in 1..N : f[n] = One(f[n - 1], n)
    BY <1>3 DEF One
  <2> HIDE DEF N, X, One
  <2> QED  BY <1>1, <1>3, <2>1
<1> DEFINE h == CHOOSE g : g = Whole(g)
<1>5. h = Whole(h)
  <2> HIDE DEF Whole
  <2> QED  BY <1>4
<1>6. AddAll(dev, texts) = h[N]
  BY DEF AddAll
<1> HIDE DEF h, X
<1>7. 0..N \subseteq {n \in 0..N : h[n] = f[n]}
  <2> DEFINE T == {n \in 0..N : h[n] = f[n]}
  <2>1. 0 \in T
    BY <1>1, <1>3, <1>5
  <2>2. ASSUME NEW n \in 0..(N - 1), n \in T PROVE n + 1 \in T
    <3>1. n + 1 \in 1..N /\ (n + 1) - 1 = n /\ n + 1 # 0 /\ n + 1 \in 0..N
      BY <1>1
    <3>2. h[n + 1] = One(h[n], n + 1)
      BY <1>5, <3>1
    <3>3. f[n + 1] = One(f[n], n + 1)
      BY <1>3, <3>1
    <3> HIDE DEF One, N
    <3> QED  BY <2>2, <3>1, <3>2, <3>3
  <2> HIDE DEF T, N
  <2>3. 0..N \subseteq T
    BY <1>1, <2>1, <2>2, Upwards
  <2> QED  BY <2>3 DEF T
<1> HIDE DEF N
<1>8. f[N] = AddAll(dev, texts)
  BY <1>1, <1>6, <1>7
<1> QED  BY <1>3, <1>8 DEF X, N, Adds

\* The places of the first n texts.
PlacesUpTo(texts, n) == {PlaceNamed(texts[i]) : i \in {k \in 1..n : texts[k] # <<>>}}

\* The list of the folders in these texts.
LEMMA AddAllIs ==
  ASSUME NEW dev, DevicesAre(dev), NEW texts \in Seq(Given)
  PROVE  ListIs(AddAll(dev, texts), PlacesUpTo(texts, Len(texts)))
<1> PICK N : N = Len(texts)
  OBVIOUS
<1>1. N \in Nat
  BY LenProperties
<1>2. PICK f : Adds(f, dev, texts)
  BY AddAllClimbs
<1>3. f[0] = <<>> /\ f[N] = AddAll(dev, texts) /\ \A n \in 1..N : f[n] = AddUniqueFolder(dev, f[n - 1], texts[n])
  BY <1>2 DEF Adds
<1> DEFINE T == {n \in 0..N : ListIs(f[n], PlacesUpTo(texts, n))}
<1>4. 0 \in T
  <2>1. PlacesUpTo(texts, 0) = {}
    BY DEF PlacesUpTo
  <2>2. <<>> \in Seq(Texts) /\ DOMAIN <<>> = {}
    BY EmptySeq
  <2>3. ListIs(<<>>, {})
    BY <2>2 DEF ListIs
  <2> QED  BY <1>1, <1>3, <2>1, <2>3
<1>5. ASSUME NEW n \in 0..(N - 1), n \in T PROVE n + 1 \in T
  <2> PICK m : m = n + 1
    OBVIOUS
  <2>1. m \in 1..N /\ m - 1 = n /\ m \in 0..N /\ ListIs(f[n], PlacesUpTo(texts, n))
    BY <1>1, <1>5
  <2>2. f[m] = AddUniqueFolder(dev, f[n], texts[m])
    BY <1>3, <2>1
  <2>3. texts[m] \in Given
    BY <2>1, ElementOfSeq
  <2>4. \A k : k \in 1..m <=> k \in 1..n \/ k = m
    BY <1>1, <2>1
  <2>5. CASE texts[m] = <<>>
    <3>1. f[m] = f[n]
      BY <2>2, <2>5 DEF AddUniqueFolder
    <3>2. PlacesUpTo(texts, m) = PlacesUpTo(texts, n)
      BY <2>4, <2>5 DEF PlacesUpTo
    <3> QED  BY <2>1, <3>1, <3>2
  <2>6. CASE texts[m] # <<>>
    <3>1. OnDrive(texts[m])
      BY <2>3, <2>6 DEF Given
    <3>2. PlacesUpTo(texts, m) = PlacesUpTo(texts, n) \cup {PlaceNamed(texts[m])}
      BY <2>4, <2>6 DEF PlacesUpTo
    <3>3. ListIs(f[m], PlacesUpTo(texts, n) \cup {PlaceNamed(texts[m])})
      BY <2>1, <2>2, <3>1, AddedIs
    <3> QED  BY <2>1, <3>2, <3>3
  <2> QED  BY <2>5, <2>6
<1> HIDE DEF T
<1>6. 0..N \subseteq T
  BY <1>1, <1>4, <1>5, Upwards
<1> QED  BY <1>1, <1>3, <1>6 DEF T

\* The folders of a profile have names.
LEMMA ProfileFoldersAre ==
  /\ ProfileFolders \in Seq(NameTexts) /\ DOMAIN ProfileFolders = 1..Len(ProfileFolders)
  /\ Len(ProfileFolders) \in Nat /\ ToSet(ProfileFolders) = {ProfileFolders[i] : i \in 1..Len(ProfileFolders)}
<1> PICK A : A = {name \in ToSet(ProfileFolders) : IsName(name)}
  OBVIOUS
<1>1. ProfileFolders \in Seq(A)
  BY FoldersAssumption
<1>2. A \subseteq NameTexts
  BY DEF IsName, NameTexts, Plains
<1>3. ProfileFolders \in Seq(NameTexts)
  BY <1>1, <1>2, SeqMonotonic
<1>4. DOMAIN ProfileFolders = 1..Len(ProfileFolders) /\ Len(ProfileFolders) \in Nat
  BY <1>1, LenProperties
<1> QED  BY <1>3, <1>4 DEF ToSet

\* The known folders are on drives, and so is the profile.
LEMMA KnownFoldersAre ==
  /\ DOMAIN KnownFolders = 1..Len(KnownFolders) /\ Len(KnownFolders) \in Nat
  /\ \A i \in DOMAIN KnownFolders : OnDrive(KnownFolders[i]) /\ KnownFolders[i] \in ToSet(KnownFolders)
  /\ OnDrive(UserProfile)
<1> PICK A : A = {f \in ToSet(KnownFolders) : IsOnDrive(f)}
  OBVIOUS
<1>1. KnownFolders \in Seq(A) /\ IsOnDrive(UserProfile)
  BY VolumesAssumption
<1>2. DOMAIN KnownFolders = 1..Len(KnownFolders) /\ Len(KnownFolders) \in Nat
  BY <1>1, LenProperties
<1>3. ASSUME NEW i \in DOMAIN KnownFolders PROVE OnDrive(KnownFolders[i]) /\ KnownFolders[i] \in ToSet(KnownFolders)
  <2>1. KnownFolders[i] \in A
    BY <1>1, <1>2, ElementOfSeq
  <2> QED  BY <2>1, IsOnDriveIs
<1>4. OnDrive(UserProfile)
  BY <1>1, IsOnDriveIs
<1> QED  BY <1>2, <1>3, <1>4

\* A folder one name further down.
LEMMA JoinIs ==
  ASSUME NEW s, OnDrive(s), NEW name \in NameTexts
  PROVE  LET y == s \o <<Sep>> \o name
         IN  OnDrive(y) /\ y \in Texts /\ y # <<>> /\ y[1] = s[1] /\ Parts(y) = Append(Parts(s), name)
<1> PICK d, T, m, y : d = s[1] /\ T = Tail(s) /\ m = <<Sep>> /\ y = s \o m \o name
  OBVIOUS
<1>1. s \in Texts /\ s # <<>> /\ Len(s) > 1 /\ s[1] \in ToSet(Drives) /\ s[2] \in {Sep, Slash} /\ Len(s) \in Nat
  BY LowerIs DEF OnDrive
<1>2. T \in Texts /\ s = <<d>> \o T /\ d \in Chars
  BY <1>1, TailIs
<1>3. name \in Texts /\ m \in Texts /\ Sep \in Chars
  BY NameBegins, BeginningsAre, LettersAre
<1> PICK z, r : z = m \o name /\ r = T \o z
  OBVIOUS
<1>4. z \in Texts /\ r \in Texts
  BY <1>2, <1>3, ConcatProperties DEF Texts
<1>5. y = s \o z /\ y = <<d>> \o r
  <2> PICK e : e = <<d>>
    OBVIOUS
  <2>1. e \in Seq(Chars) /\ T \in Seq(Chars) /\ z \in Seq(Chars) /\ s \in Seq(Chars) /\ m \in Seq(Chars) /\ name \in Seq(Chars)
    BY <1>1, <1>2, <1>3, <1>4 DEF Texts
  <2>2. (s \o m) \o name = s \o (m \o name)
    <3>1. s \in Seq(Chars) /\ m \in Seq(Chars) /\ name \in Seq(Chars)
      BY <2>1
    <3> QED  BY ONLY <3>1, ConcatAssociative, SMTT(20)
  <2>3. (e \o T) \o z = e \o (T \o z)
    <3>1. e \in Seq(Chars) /\ T \in Seq(Chars) /\ z \in Seq(Chars)
      BY <2>1
    <3> QED  BY ONLY <3>1, ConcatAssociative, SMTT(20)
  <2> QED  BY <1>2, <2>2, <2>3
<1>6. y \in Texts /\ y[1] = d /\ Tail(y) = r
  <2>1. d \in Chars /\ r \in Texts
    BY <1>2, <1>4
  <2>2. <<d>> \o r \in Texts /\ (<<d>> \o r)[1] = d /\ Tail(<<d>> \o r) = r
    BY ONLY <2>1, TailOfConcat
  <2> QED  BY <1>5, <2>2
<1>7. Len(y) > 1 /\ y[2] = s[2] /\ y # <<>>
  <2>1. s \in Texts /\ z \in Texts
    BY <1>1, <1>4
  <2>2. Len(s \o z) = Len(s) + Len(z) /\ Len(s) \in Nat /\ Len(z) \in Nat /\ \A i \in 1..Len(s) : (s \o z)[i] = s[i]
    BY ONLY <2>1, BothIs
  <2>3. Len(s) > 1
    BY <1>1
  <2>4. 2 \in 1..Len(s) /\ Len(s) + Len(z) > 1
    BY ONLY <2>2, <2>3
  <2>5. Len(y) > 1 /\ y[2] = s[2]
    BY <1>5, <2>2, <2>4
  <2>6. y # <<>>
    BY ONLY <2>5
  <2> QED  BY <2>5, <2>6
<1>8. r = Append(T, Sep) \o name
  <2>1. T \in Seq(Chars) /\ m \in Seq(Chars) /\ name \in Seq(Chars)
    BY <1>2, <1>3 DEF Texts
  <2>2. (T \o m) \o name = T \o (m \o name)
    BY ONLY <2>1, ConcatAssociative, SMTT(20)
  <2>3. Append(T, Sep) = T \o m
    BY <1>3, <2>1, AppendIsConcat
  <2> QED  BY <2>2, <2>3
<1>9. Components(r) = Components(T) \o Components(name)
  <2>1. T \in Seq(Chars) /\ Sep \in Chars /\ Sep \in {Sep, Slash} /\ name \in Seq(Chars)
    BY <1>2, <1>3 DEF Texts
  <2>2. Components(Append(T, Sep) \o name) = Components(T) \o Components(name)
    BY ONLY <2>1, ComponentsConcat
  <2> QED  BY <1>8, <2>2
<1>10. Components(name) = <<name>>
  <2> PICK B : B = Chars \ {Sep, Slash}
    OBVIOUS
  <2>1. Sep \notin B /\ Slash \notin B /\ name \in Seq(B)
    BY DEF NameTexts, Plains
  <2> QED  BY ONLY <2>1, ComponentsOfName
<1>11. Components(T) \in Seq(Texts)
  <2>1. Components(T) \in Seq(Plains)
    BY <1>1, PartsIs
  <2> QED  BY <2>1, NamesArePlain
<1>12. Components(r) = Append(Components(T), name)
  BY <1>3, <1>9, <1>10, <1>11, AppendIsConcat
<1>13. Walk(Append(Components(T), name)) = Append(Walk(Components(T)), name)
  <2>1. Walk(Append(Components(T), name)) = Onwards(Walk(Components(T)), name)
    BY <1>3, <1>11, WalkAppend
  <2>2. name # <<>> /\ name # <<".">> /\ name # <<"..">>
    BY DEF NameTexts
  <2> QED  BY <2>1, <2>2 DEF Onwards
<1>14. Parts(y) = Append(Parts(s), name)
  BY <1>6, <1>12, <1>13 DEF Parts
<1> QED  BY <1>1, <1>6, <1>7, <1>14 DEF OnDrive

\* A folder below the normalised profile lies where it lies below the profile.
LEMMA JoinsAlike ==
  ASSUME NEW dev, DevicesAre(dev), NEW s, OnDrive(s), NEW name \in NameTexts
  PROVE  LET n == NormalizeFilePath(dev, s)
         IN  /\ n # <<>> /\ OnDrive(n) /\ PlaceNamed(n) = PlaceNamed(s)
             /\ OnDrive(n \o <<Sep>> \o name)
             /\ PlaceNamed(n \o <<Sep>> \o name) = PlaceNamed(s \o <<Sep>> \o name)
<1> PICK n, x, y : n = NormalizeFilePath(dev, s) /\ x = n \o <<Sep>> \o name /\ y = s \o <<Sep>> \o name
  OBVIOUS
<1>1. OnDrive(n) /\ n[1] = s[1] /\ Parts(n) = Parts(s)
  BY NormalizedOnDrive
<1>2. OnDrive(x) /\ x \in Texts /\ x # <<>> /\ x[1] = n[1] /\ Parts(x) = Append(Parts(n), name)
  BY <1>1, JoinIs
<1>3. OnDrive(y) /\ y \in Texts /\ y # <<>> /\ y[1] = s[1] /\ Parts(y) = Append(Parts(s), name)
  BY JoinIs
<1>4. n \in Texts /\ n # <<>> /\ s \in Texts /\ s # <<>>
  BY <1>1 DEF OnDrive
<1>5. PlaceNamed(x) = << <<Lc(x[1])>> >> \o Fold(Parts(x))
  BY <1>2, PartsIs
<1>6. PlaceNamed(y) = << <<Lc(y[1])>> >> \o Fold(Parts(y))
  BY <1>3, PartsIs
<1>7. PlaceNamed(n) = << <<Lc(n[1])>> >> \o Fold(Parts(n))
  BY <1>4, PartsIs
<1>8. PlaceNamed(s) = << <<Lc(s[1])>> >> \o Fold(Parts(s))
  BY <1>4, PartsIs
<1> QED  BY <1>1, <1>2, <1>3, <1>4, <1>5, <1>6, <1>7, <1>8

\* No text stays no text.
LEMMA NormalizeOfNothing ==
  ASSUME NEW dev, DevicesAre(dev)
  PROVE  NormalizeFilePath(dev, <<>>) = <<>>
<1> PICK e : e = <<>>
  OBVIOUS
<1>1. e \in Texts /\ Len(e) = 0
  BY EmptySeq DEF Texts
<1>2. Turned(e) = e
  <2> PICK x : x = Turned(e)
    OBVIOUS
  <2>1. x \in Seq(Chars) /\ Len(x) = 0
    BY <1>1, TurnedIs DEF Texts
  <2> QED  BY <2>1, EmptySeq
<1>3. ASSUME NEW p \in Texts, Len(p) > 0 PROVE ~StartsWithIgnoreCase(e, p)
  <2>1. StartsWithIgnoreCase(e, p) => Len(p) <= Len(e)
    BY <1>1, StartsIs
  <2> QED  BY <1>1, <1>3, <2>1
<1>4. Unquoted(e) = e
  BY <1>1 DEF Unquoted
<1>5. WithoutNamespace(e) = e
  <2>1. ~StartsWithIgnoreCase(e, <<Sep, "?", "?", Sep>>)
    BY <1>3, BeginningsAre
  <2>2. ~StartsWithIgnoreCase(e, <<Sep, Sep, "?", Sep>>)
    BY <1>3, BeginningsAre
  <2>3. ~StartsWithIgnoreCase(e, <<"UNC", Sep>>)
    <3> PICK p : p = <<"UNC", Sep>>
      OBVIOUS
    <3>1. p \in Texts /\ Len(p) > 0
      BY BeginningsAre
    <3> QED  BY <1>3, <3>1
  <2> QED  BY <2>1, <2>2, <2>3 DEF WithoutNamespace, RemovePrefix
<1>6. WithWindowsDir(e) = e
  <2>1. ~StartsWithIgnoreCase(e, <<Sep, "SystemRoot", Sep>>)
    BY <1>3, BeginningsAre
  <2> QED  BY <2>1 DEF WithWindowsDir
<1>7. DevicePathToDosPath(dev, e) = e
  <2>1. \A d \in ToSet(Drives) : ~LiesOn(dev, e, d)
    <3> SUFFICES ASSUME NEW d \in ToSet(Drives), LiesOn(dev, e, d) PROVE FALSE
      OBVIOUS
    <3>1. dev[d] \in Volumes
      BY DEF DevicesAre, LiesOn
    <3>2. dev[d] \in Texts /\ Len(dev[d]) > 0
      BY <3>1, VolumesAre
    <3> QED  BY <1>3, <3>2 DEF LiesOn
  <2> QED  BY <2>1, DeviceIs
<1>8. Stripped(dev, e) = e
  BY <1>4, <1>5, <1>6, <1>7 DEF Stripped
<1>9. NormalizedFrom(e) = e
  BY <1>1 DEF NormalizedFrom
<1> QED  BY <1>2, <1>8, <1>9, NormalizeIs

\* The places of texts one after the other.
LEMMA PlacesOfBoth ==
  ASSUME NEW K \in Seq(Given), NEW D \in Seq(Given)
  PROVE  /\ K \o D \in Seq(Given)
         /\ PlacesUpTo(K \o D, Len(K \o D)) = PlacesUpTo(K, Len(K)) \cup PlacesUpTo(D, Len(D))
<1> PICK t, k, d : t = K \o D /\ k = Len(K) /\ d = Len(D)
  OBVIOUS
<1>1. /\ t \in Seq(Given) /\ k \in Nat /\ d \in Nat /\ Len(t) = k + d
      /\ \A i \in 1..(k + d) : t[i] = IF i <= k THEN K[i] ELSE D[i - k]
  BY LenProperties, ConcatProperties
<1>2. ASSUME NEW i \in 1..k PROVE t[i] = K[i] /\ i \in 1..(k + d)
  BY <1>1
<1>3. ASSUME NEW i \in 1..d PROVE t[k + i] = D[i] /\ k + i \in 1..(k + d)
  <2>1. k + i \in 1..(k + d) /\ ~(k + i <= k) /\ (k + i) - k = i
    BY <1>1
  <2> QED  BY <1>1, <2>1
<1>4. ASSUME NEW i \in 1..(k + d)
      PROVE  (i \in 1..k /\ t[i] = K[i]) \/ (\E j \in 1..d : i = k + j /\ t[i] = D[j])
  <2>1. CASE i <= k
    BY <1>1, <2>1
  <2>2. CASE ~(i <= k)
    <3>1. i - k \in 1..d /\ i = k + (i - k)
      BY <1>1, <2>2
    <3>2. t[i] = D[i - k]
      BY <1>1, <2>2
    <3> QED  BY <3>1, <3>2
  <2> QED  BY <2>1, <2>2
<1>5. PlacesUpTo(t, k + d) \subseteq PlacesUpTo(K, k) \cup PlacesUpTo(D, d)
  BY <1>4 DEF PlacesUpTo
<1>6. PlacesUpTo(K, k) \subseteq PlacesUpTo(t, k + d)
  BY <1>2 DEF PlacesUpTo
<1>7. PlacesUpTo(D, d) \subseteq PlacesUpTo(t, k + d)
  BY <1>3 DEF PlacesUpTo
<1> QED  BY <1>1, <1>5, <1>6, <1>7

\* The list of the first judgement, the lookups known and profile having succeeded.
ListOf(dev, known, profile) ==
    [folders |-> BuildProtectedPersonalFolders(dev, known, profile),
     sources |-> (ToSet(known) \cup (IF profile = <<>> THEN {} ELSE
                   {profile \o <<Sep>> \o name : name \in ToSet(ProfileFolders)})) \ {<<>>}]

\* A lookup gives the folder or nothing.
Lookups(known) ==
    /\ known \in [DOMAIN KnownFolders -> ToSet(KnownFolders) \cup {<<>>}]
    /\ \A n \in DOMAIN known : known[n] \in {KnownFolders[n], <<>>}

\* The normalised known folders lie where the known folders lie.
LEMMA KnownAre ==
  ASSUME NEW dev, DevicesAre(dev), NEW known, Lookups(known)
  PROVE  LET K == [n \in DOMAIN known |-> NormalizeFilePath(dev, known[n])]
         IN  /\ K \in Seq(Given)
             /\ PlacesUpTo(K, Len(K)) = {PlaceNamed(s) : s \in ToSet(known) \ {<<>>}}
<1> PICK K, N : K = [n \in DOMAIN known |-> NormalizeFilePath(dev, known[n])] /\ N = Len(KnownFolders)
  OBVIOUS
<1>1. N \in Nat /\ DOMAIN known = 1..N /\ \A n \in 1..N : known[n] = <<>> \/ OnDrive(known[n])
  BY KnownFoldersAre DEF Lookups
<1>2. \A n \in 1..N : K[n] = NormalizeFilePath(dev, known[n])
  BY <1>1
<1>3. ASSUME NEW n \in 1..N
      PROVE  /\ K[n] \in Given /\ (K[n] = <<>> <=> known[n] = <<>>)
             /\ known[n] # <<>> => PlaceNamed(K[n]) = PlaceNamed(known[n])
  <2>1. CASE known[n] = <<>>
    <3>1. K[n] = <<>>
      BY <1>2, <2>1, NormalizeOfNothing
    <3>2. <<>> \in Texts
      BY EmptySeq DEF Texts
    <3> QED  BY <2>1, <3>1, <3>2 DEF Given
  <2>2. CASE known[n] # <<>>
    <3> PICK s, m : s = known[n] /\ m = NormalizeFilePath(dev, s)
      OBVIOUS
    <3>1. OnDrive(s)
      BY <1>1, <2>2
    <3>2. OnDrive(m) /\ m[1] = s[1] /\ Parts(m) = Parts(s)
      BY <3>1, NormalizedOnDrive
    <3>3. m \in Texts /\ m # <<>> /\ s \in Texts /\ s # <<>>
      BY <3>1, <3>2 DEF OnDrive
    <3>4. PlaceNamed(m) = << <<Lc(m[1])>> >> \o Fold(Parts(m))
      BY <3>3, PartsIs
    <3>5. PlaceNamed(s) = << <<Lc(s[1])>> >> \o Fold(Parts(s))
      BY <3>3, PartsIs
    <3> QED  BY <1>2, <2>2, <3>2, <3>3, <3>4, <3>5 DEF Given
  <2> QED  BY <2>1, <2>2
<1>4. K \in Seq(Given) /\ Len(K) = N
  <2>1. K \in [1..N -> Given]
    BY <1>1, <1>3
  <2> QED  BY <1>1, <2>1
<1>5. ToSet(known) = {known[n] : n \in 1..N}
  BY <1>1 DEF ToSet
<1>6. PlacesUpTo(K, N) = {PlaceNamed(s) : s \in ToSet(known) \ {<<>>}}
  <2>1. ASSUME NEW n \in 1..N, K[n] # <<>> PROVE PlaceNamed(K[n]) \in {PlaceNamed(s) : s \in ToSet(known) \ {<<>>}}
    BY <1>3, <1>5, <2>1
  <2>2. ASSUME NEW s \in ToSet(known) \ {<<>>} PROVE PlaceNamed(s) \in PlacesUpTo(K, N)
    <3>1. PICK n \in 1..N : s = known[n]
      BY <1>5
    <3> QED  BY <1>3, <3>1 DEF PlacesUpTo
  <2> QED  BY <2>1, <2>2 DEF PlacesUpTo
<1> QED  BY <1>4, <1>6

\* The folders protected below a normalised profile, and the texts they come from.
DefaultTexts(n) ==
    IF n = <<>> THEN <<>> ELSE [i \in DOMAIN ProfileFolders |-> n \o <<Sep>> \o ProfileFolders[i]]

DefaultSources(profile) ==
    IF profile = <<>> THEN {} ELSE {profile \o <<Sep>> \o name : name \in ToSet(ProfileFolders)}

\* The folders below the normalised profile lie where they lie below the profile.
LEMMA DefaultsAre ==
  ASSUME NEW dev, DevicesAre(dev), NEW profile \in {UserProfile, <<>>},
         NEW D, D = DefaultTexts(NormalizeFilePath(dev, profile))
  PROVE  /\ D \in Seq(Given)
         /\ PlacesUpTo(D, Len(D)) = {PlaceNamed(s) : s \in DefaultSources(profile) \ {<<>>}}
<1> PICK n, S, F, L :
      /\ n = NormalizeFilePath(dev, profile) /\ F = ProfileFolders /\ L = Len(ProfileFolders)
      /\ S = DefaultSources(profile) \ {<<>>}
  BY Zenon
<1>0. /\ D = IF n = <<>> THEN <<>> ELSE [i \in DOMAIN F |-> n \o <<Sep>> \o F[i]]
      /\ S = (IF profile = <<>> THEN {} ELSE {profile \o <<Sep>> \o name : name \in ToSet(F)}) \ {<<>>}
  BY DEF DefaultTexts, DefaultSources
<1>1. /\ L \in Nat /\ DOMAIN F = 1..L /\ ToSet(F) = {F[i] : i \in 1..L} /\ \A i \in 1..L : F[i] \in NameTexts
  BY ProfileFoldersAre, ElementOfSeq
<1>2. OnDrive(UserProfile) /\ UserProfile # <<>>
  BY KnownFoldersAre DEF OnDrive
<1>3. CASE profile = <<>>
  <2>1. n = <<>> /\ S = {}
    BY <1>0, <1>3, NormalizeOfNothing
  <2>2. D = <<>>
    BY <1>0, <2>1
  <2>3. <<>> \in Seq(Given) /\ Len(<<>>) = 0
    BY EmptySeq
  <2>4. PlacesUpTo(<<>>, 0) = {}
    BY DEF PlacesUpTo
  <2>5. {PlaceNamed(s) : s \in S} = {}
    BY <2>1
  <2>6. D \in Seq(Given) /\ PlacesUpTo(D, Len(D)) = {PlaceNamed(s) : s \in S}
    BY <2>2, <2>3, <2>4, <2>5
  <2> QED  BY <2>6
<1>4. CASE profile = UserProfile
  <2>1. ASSUME NEW i \in 1..L
        PROVE  /\ n # <<>> /\ OnDrive(n \o <<Sep>> \o F[i])
               /\ PlaceNamed(n \o <<Sep>> \o F[i]) = PlaceNamed(profile \o <<Sep>> \o F[i])
    BY <1>1, <1>2, <1>4, JoinsAlike
  <2>2. n # <<>>
    <3>1. OnDrive(n)
      BY <1>2, <1>4, NormalizedOnDrive
    <3> QED  BY <3>1 DEF OnDrive
  <2>3. \A i \in 1..L : D[i] = n \o <<Sep>> \o F[i]
    BY <1>0, <1>1, <2>2
  <2>4. ASSUME NEW i \in 1..L
        PROVE  D[i] \in Given /\ D[i] # <<>> /\ PlaceNamed(D[i]) = PlaceNamed(profile \o <<Sep>> \o F[i])
    <3>1. OnDrive(D[i]) /\ PlaceNamed(D[i]) = PlaceNamed(profile \o <<Sep>> \o F[i])
      BY <2>1, <2>3
    <3> QED  BY <3>1 DEF OnDrive, Given
  <2>5. D \in Seq(Given) /\ Len(D) = L
    <3>1. DOMAIN D = 1..L /\ D = [i \in 1..L |-> D[i]]
      BY <1>0, <1>1, <2>2
    <3>2. D \in [1..L -> Given]
      BY <2>4, <3>1
    <3> QED  BY <1>1, <3>2
  <2>6. ASSUME NEW i \in 1..L PROVE profile \o <<Sep>> \o F[i] # <<>>
    <3>1. OnDrive(profile) /\ F[i] \in NameTexts
      BY <1>1, <1>2, <1>4
    <3> QED  BY <3>1, JoinIs
  <2>7. S = {profile \o <<Sep>> \o F[i] : i \in 1..L}
    <3>1. S = {profile \o <<Sep>> \o name : name \in ToSet(F)} \ {<<>>}
      BY <1>0, <1>2, <1>4
    <3>2. ASSUME NEW s \in S PROVE \E i \in 1..L : s = profile \o <<Sep>> \o F[i]
      <4>1. PICK name \in ToSet(F) : s = profile \o <<Sep>> \o name
        BY <3>1
      <4>2. PICK i \in 1..L : name = F[i]
        BY <1>1
      <4> QED  BY <4>1, <4>2
    <3>3. ASSUME NEW i \in 1..L PROVE profile \o <<Sep>> \o F[i] \in S
      <4>1. F[i] \in ToSet(F)
        BY <1>1
      <4> QED  BY <2>6, <3>1, <4>1
    <3> PICK R : R = {profile \o <<Sep>> \o F[i] : i \in 1..L}
      OBVIOUS
    <3>4. \A s \in S : s \in R
      BY <3>2
    <3>5. ASSUME NEW s \in R PROVE s \in S
      <4>1. PICK i \in 1..L : s = profile \o <<Sep>> \o F[i]
        OBVIOUS
      <4> QED  BY <3>3, <4>1
    <3>6. S = R
      BY ONLY <3>4, <3>5
    <3> QED  BY <3>6
  <2>8. PlacesUpTo(D, L) = {PlaceNamed(s) : s \in S}
    <3>1. ASSUME NEW i \in 1..L PROVE PlaceNamed(D[i]) \in {PlaceNamed(s) : s \in S}
      BY <2>4, <2>7
    <3>2. ASSUME NEW s \in S PROVE PlaceNamed(s) \in PlacesUpTo(D, L)
      <4>1. PICK i \in 1..L : s = profile \o <<Sep>> \o F[i]
        BY <2>7
      <4> QED  BY <2>4, <4>1 DEF PlacesUpTo
    <3>3. ASSUME NEW p \in PlacesUpTo(D, L) PROVE p \in {PlaceNamed(s) : s \in S}
      <4>1. PICK i \in 1..L : p = PlaceNamed(D[i])
        BY DEF PlacesUpTo
      <4> QED  BY <3>1, <4>1
    <3>4. \A p \in {PlaceNamed(s) : s \in S} : p \in PlacesUpTo(D, L)
      BY <3>2
    <3> QED  BY <3>3, <3>4
  <2> QED  BY <2>5, <2>8
<1> QED  BY <1>3, <1>4

\* The list that is built first has the folders of the lookups that succeeded.
LEMMA ListOfIs ==
  ASSUME NEW dev, DevicesAre(dev), NEW known, Lookups(known), NEW profile \in {UserProfile, <<>>}
  PROVE  LET list == ListOf(dev, known, profile)
         IN  ListIs(list.folders, {PlaceNamed(s) : s \in list.sources})
<1> PICK K, n, D, t, S, R :
      /\ K = [i \in DOMAIN known |-> NormalizeFilePath(dev, known[i])]
      /\ n = NormalizeFilePath(dev, profile)
      /\ D = DefaultTexts(n)
      /\ t = K \o D
      /\ S = DefaultSources(profile)
      /\ R = (ToSet(known) \cup S) \ {<<>>}
  OBVIOUS
<1>1. K \in Seq(Given) /\ PlacesUpTo(K, Len(K)) = {PlaceNamed(s) : s \in ToSet(known) \ {<<>>}}
  BY KnownAre
<1>2. D \in Seq(Given) /\ PlacesUpTo(D, Len(D)) = {PlaceNamed(s) : s \in S \ {<<>>}}
  BY DefaultsAre
<1>3. t \in Seq(Given) /\ PlacesUpTo(t, Len(t)) = PlacesUpTo(K, Len(K)) \cup PlacesUpTo(D, Len(D))
  BY <1>1, <1>2, PlacesOfBoth
<1>4. ListIs(AddAll(dev, t), PlacesUpTo(t, Len(t)))
  BY <1>3, AddAllIs
<1>5. PlacesUpTo(t, Len(t)) = {PlaceNamed(s) : s \in R}
  BY <1>1, <1>2, <1>3
<1>6. BuildProtectedPersonalFolders(dev, known, profile) = AddAll(dev, t)
  BY DEF BuildProtectedPersonalFolders, DefaultTexts
<1>7. ListOf(dev, known, profile).folders = AddAll(dev, t) /\ ListOf(dev, known, profile).sources = R
  BY <1>6 DEF ListOf, DefaultSources
<1> QED  BY <1>4, <1>5, <1>7

\* No list is taken for none.
LEMMA FirstListsAre ==
  ASSUME DevicesAre(device), NEW list \in FirstLists
  PROVE  /\ ListIs(list.folders, {PlaceNamed(s) : s \in list.sources})
         /\ list.folders # Nil /\ list.sources # Nil
<1>1. PICK known, profile :
        /\ Lookups(known) /\ profile \in {UserProfile, <<>>}
        /\ list = ListOf(device, known, profile)
  <2>1. FirstLists = {ListOf(device, known, profile) :
          known \in {k \in [DOMAIN KnownFolders -> ToSet(KnownFolders) \cup {<<>>}] :
                        \A n \in DOMAIN k : k[n] \in {KnownFolders[n], <<>>}},
          profile \in {UserProfile, <<>>}}
    BY DEF FirstLists, ListOf
  <2>2. PICK known \in {k \in [DOMAIN KnownFolders -> ToSet(KnownFolders) \cup {<<>>}] :
                           \A n \in DOMAIN k : k[n] \in {KnownFolders[n], <<>>}},
             profile \in {UserProfile, <<>>} :
          list = ListOf(device, known, profile)
    BY <2>1
  <2>3. Lookups(known)
    BY <2>2 DEF Lookups
  <2> QED  BY <2>2, <2>3
<1>2. ListIs(list.folders, {PlaceNamed(s) : s \in list.sources})
  BY <1>1, ListOfIs
<1>3. list.folders # Nil
  BY <1>2, NilAssumption DEF ListIs, Texts
<1>4. list.sources \in SUBSET FolderTexts
  <2>1. ToSet(known) \subseteq ToSet(KnownFolders) \cup {<<>>}
    BY <1>1 DEF Lookups, ToSet
  <2>2. list.sources = (ToSet(known) \cup (IF profile = <<>> THEN {} ELSE
                   {profile \o <<Sep>> \o name : name \in ToSet(ProfileFolders)})) \ {<<>>}
    BY <1>1 DEF ListOf
  <2> QED  BY <1>1, <2>1, <2>2 DEF FolderTexts
<1> QED  BY <1>2, <1>3, <1>4, NilAssumption

------------------------------------------------------------------------------
(* What is judged.                                                         *)

\* A verdict is right about its file when the letters are these and the list was
\* built from these texts.
Truly(dev, v, texts) ==
    LET letters == {d \in ToSet(Drives) : dev[d] = v.file.volume}
        n == NormalizeFilePath(dev, v.text)
    IN  /\ \A d \in letters :
             /\ OnDrive(n) /\ PlaceNamed(n) = PlaceOf(v.file, d)
             /\ v.protected <=> /\ ~Lies(PlaceNamed(WorkingDir), PlaceOf(v.file, d))
                                /\ \E s \in texts : Lies(PlaceNamed(s), PlaceOf(v.file, d))
        /\ letters = {} => ~v.protected

\* Such a verdict is what is asked of the verdicts.
LEMMA TrulyIs ==
  ASSUME verdict # Nil => Truly(device, verdict, sources)
  PROVE  VerdictIsTrue
BY DEF VerdictIsTrue, Truly, LettersOf, OnDrive, Lies

\* The working directory is on a drive.
LEMMA WorkingDirIs == OnDrive(WorkingDir)
BY FoldersAssumption, IsOnDriveIs

\* A list is right about every file and every text that names it.
LEMMA JudgedTruly ==
  ASSUME DevicesAre(device), Distinct(device), NEW file \in Files, NEW text \in Spellings(file),
         NEW list,
         \/ ListIs(list.folders, {PlaceNamed(s) : s \in list.sources})
         \/ IsSameOrInsideFolder(device, NormalizeFilePath(device, text), WorkingDir)
  PROVE  Truly(device, [file |-> file, text |-> text,
                        protected |-> IsProtectedOutsideWorkingDir(device, list.folders, text)],
               list.sources)
<1> PICK n, dev, F, S, W :
      n = NormalizeFilePath(device, text) /\ dev = device /\ F = list.folders /\ S = list.sources /\ W = WorkingDir
  OBVIOUS
<1> DEFINE listed == ListIs(F, {PlaceNamed(s) : s \in S})
           protected == IsProtectedOutsideWorkingDir(dev, F, text)
<1>1. OnDrive(W) /\ DevicesAre(dev)
  BY WorkingDirIs
<1>2. listed \/ IsSameOrInsideFolder(dev, n, W)
  OBVIOUS
<1>3. listed => \A f \in ToSet(F) : OnDrive(f)
  BY DEF ListIs, ToSet
<1>4. protected <=> /\ text # <<>> /\ ~IsSameOrInsideFolder(dev, n, W)
                    /\ \E f \in ToSet(F) : IsSameOrInsideFolder(dev, n, f)
  BY DEF IsProtectedOutsideWorkingDir
<1>5. ASSUME NEW d \in LettersOf(file)
      PROVE  /\ OnDrive(n) /\ PlaceNamed(n) = PlaceOf(file, d)
             /\ protected <=> /\ ~Lies(PlaceNamed(W), PlaceOf(file, d))
                              /\ \E s \in S : Lies(PlaceNamed(s), PlaceOf(file, d))
  <2> PICK p : p = PlaceOf(file, d)
    OBVIOUS
  <2>1. text # <<>> /\ OnDrive(n) /\ PlaceNamed(n) = p
    BY NormalizedWithLetter
  <2>2. ASSUME NEW f, OnDrive(f) PROVE IsSameOrInsideFolder(dev, n, f) <=> Lies(PlaceNamed(f), p)
    <3>1. DevicesAre(dev) /\ OnDrive(n) /\ OnDrive(f)
      BY <1>1, <2>1, <2>2
    <3>2. IsSameOrInsideFolder(dev, n, f) <=> Lies(PlaceNamed(f), PlaceNamed(n))
      BY ONLY <3>1, Compare
    <3> QED  BY <2>1, <3>2
  <2>3. IsSameOrInsideFolder(dev, n, W) <=> Lies(PlaceNamed(W), p)
    BY <1>1, <2>2
  <2>4. listed => ((\E f \in ToSet(F) : IsSameOrInsideFolder(dev, n, f)) <=> \E s \in S : Lies(PlaceNamed(s), p))
    <3> SUFFICES ASSUME listed
                 PROVE  (\E f \in ToSet(F) : IsSameOrInsideFolder(dev, n, f)) <=> \E s \in S : Lies(PlaceNamed(s), p)
      OBVIOUS
    <3> PICK P : P = {PlaceNamed(s) : s \in S}
      OBVIOUS
    <3>a. /\ \A i \in DOMAIN F : PlaceNamed(F[i]) \in P
          /\ \A q \in P : \E i \in DOMAIN F : PlaceNamed(F[i]) = q
      BY DEF ListIs
    <3>b. ASSUME NEW i \in DOMAIN F PROVE \E s \in S : PlaceNamed(F[i]) = PlaceNamed(s)
      BY <3>a
    <3>c. ASSUME NEW s \in S PROVE \E i \in DOMAIN F : PlaceNamed(F[i]) = PlaceNamed(s)
      <4>1. PlaceNamed(s) \in P
        OBVIOUS
      <4> QED  BY <3>a, <4>1
    <3>1. /\ \A i \in DOMAIN F : \E s \in S : PlaceNamed(F[i]) = PlaceNamed(s)
          /\ \A s \in S : \E i \in DOMAIN F : PlaceNamed(F[i]) = PlaceNamed(s)
      BY <3>b, <3>c
    <3>2. /\ \A f \in ToSet(F) : \E s \in S : PlaceNamed(f) = PlaceNamed(s)
          /\ \A s \in S : \E f \in ToSet(F) : PlaceNamed(f) = PlaceNamed(s)
      BY <3>1 DEF ToSet
    <3>3. \A f \in ToSet(F) : IsSameOrInsideFolder(dev, n, f) <=> Lies(PlaceNamed(f), p)
      BY <1>3, <2>2
    <3> HIDE DEF listed
    <3> QED  BY <3>2, <3>3
  <2> HIDE DEF listed, protected
  <2> QED  BY <1>2, <1>4, <2>1, <2>3, <2>4
<1>6. ASSUME LettersOf(file) = {} PROVE ~protected
  <2>1. n \in Texts /\ n # <<>> /\ n[1] = Sep /\ NormalizeFilePath(dev, n) = n
    BY <1>6, SpelledWithout DEF StaysBare
  <2>2. ASSUME NEW f, OnDrive(f) PROVE ~IsSameOrInsideFolder(dev, n, f)
    <3>1. DevicesAre(dev) /\ n \in Texts /\ n # <<>> /\ n[1] = Sep /\ NormalizeFilePath(dev, n) = n /\ OnDrive(f)
      BY <1>1, <2>1, <2>2
    <3> QED  BY ONLY <3>1, NotOnDrive
  <2> HIDE DEF listed, protected
  <2> QED  BY <1>1, <1>2, <1>3, <1>4, <2>2
<1> PICK b : b = protected
  OBVIOUS
<1> PICK v : v = [file |-> file, text |-> text, protected |-> b]
  OBVIOUS
<1>7. v.file = file /\ v.text = text /\ v.protected = b
  OBVIOUS
<1>8. {d \in ToSet(Drives) : dev[d] = v.file.volume} = LettersOf(file)
  BY <1>7 DEF LettersOf
<1>9. (b <=> protected) /\ NormalizeFilePath(dev, v.text) = n
  BY <1>7
<1> HIDE DEF protected
<1>10. Truly(dev, v, S)
  BY <1>5, <1>6, <1>7, <1>8, <1>9 DEF Truly
<1> QED  BY <1>10 DEF protected

\* The list and the lookups it was built from, or neither.
ListKept ==
    \/ folders = Nil /\ sources = Nil
    \/ folders # Nil /\ sources # Nil /\ ListIs(folders, {PlaceNamed(s) : s \in sources})

VerdictTrue == verdict # Nil => Truly(device, verdict, sources)

MonitorInv == DevicesAre(device) /\ Distinct(device) /\ ListKept /\ VerdictTrue

\* At the beginning there is no list and no verdict.
LEMMA MonitorInit == Init => MonitorInv
BY DEF Init, MonitorInv, ListKept, VerdictTrue, DevicesAre, Distinct

\* The list by which a file is judged is the one that is kept or the first.
LEMMA Judged ==
  ASSUME MonitorInv, NEW file \in Files, NEW text \in Spellings(file), Judge(file, text)
  PROVE  MonitorInv'
<1>1. DevicesAre(device) /\ Distinct(device) /\ device' = device
  BY DEF MonitorInv, Judge
<1>2. DevicesAre(device)' /\ Distinct(device)'
  BY <1>1 DEF DevicesAre, Distinct
<1>3. PICK list :
        /\ list \in IF folders # Nil
                         \/ IsSameOrInsideFolder(device, NormalizeFilePath(device, text), WorkingDir)
                      THEN {[folders |-> folders, sources |-> sources]}
                      ELSE FirstLists
        /\ folders' = list.folders /\ sources' = list.sources
        /\ verdict' = [file |-> file, text |-> text, protected |->
                         IsProtectedOutsideWorkingDir(device, list.folders, text)]
  BY DEF Judge
<1>4. CASE folders # Nil \/ IsSameOrInsideFolder(device, NormalizeFilePath(device, text), WorkingDir)
  <2>1. list.folders = folders /\ list.sources = sources
    BY <1>3, <1>4
  <2>2. \/ ListIs(list.folders, {PlaceNamed(s) : s \in list.sources})
        \/ IsSameOrInsideFolder(device, NormalizeFilePath(device, text), WorkingDir)
    BY <1>4, <2>1 DEF MonitorInv, ListKept
  <2>3. Truly(device, verdict', list.sources)
    BY <1>1, <1>3, <2>2, JudgedTruly
  <2>4. ListKept'
    BY <1>3, <2>1 DEF MonitorInv, ListKept
  <2>5. VerdictTrue'
    BY <1>1, <1>3, <2>3 DEF VerdictTrue
  <2> QED  BY <1>2, <2>4, <2>5 DEF MonitorInv
<1>5. CASE ~(folders # Nil \/ IsSameOrInsideFolder(device, NormalizeFilePath(device, text), WorkingDir))
  <2>1. list \in FirstLists
    BY <1>3, <1>5
  <2>2. ListIs(list.folders, {PlaceNamed(s) : s \in list.sources}) /\ list.folders # Nil /\ list.sources # Nil
    BY <1>1, <2>1, FirstListsAre
  <2>3. Truly(device, verdict', list.sources)
    BY <1>1, <1>3, <2>2, JudgedTruly
  <2>4. ListKept'
    BY <1>3, <2>2 DEF ListKept
  <2>5. VerdictTrue'
    BY <1>1, <1>3, <2>3 DEF VerdictTrue
  <2> QED  BY <1>2, <2>4, <2>5 DEF MonitorInv
<1> QED  BY <1>4, <1>5

\* No step takes a volume's only letter to another, touches the list once it is
\* there, or changes the letters while a verdict is pending.
LEMMA MonitorStep == MonitorInv /\ [Next]_vars => MonitorInv'
<1> SUFFICES ASSUME MonitorInv, [Next]_vars PROVE MonitorInv'
  OBVIOUS
<1>1. CASE UNCHANGED monitorVars
  BY <1>1 DEF monitorVars, MonitorInv, ListKept, VerdictTrue, DevicesAre, Distinct
<1>2. ASSUME NEW d \in ToSet(Drives), NEW v \in Volumes \cup {<<>>}, Remount(d, v) PROVE MonitorInv'
  <2>1. /\ v = <<>> \/ \A e \in ToSet(Drives) : device[e] # v
        /\ device' = [device EXCEPT ![d] = v] /\ DevicesAre(device) /\ Distinct(device)
    BY <1>2 DEF Remount, MonitorInv
  <2>2. DevicesAre(device)'
    BY <2>1 DEF DevicesAre
  <2>3. \A e \in ToSet(Drives) : device'[e] = IF e = d THEN v ELSE device[e]
    BY <2>1 DEF DevicesAre
  <2>4. Distinct(device)'
    BY <2>1, <2>3 DEF Distinct
  <2>5. ListKept' /\ VerdictTrue'
    BY <1>2 DEF Remount, MonitorInv, ListKept, VerdictTrue
  <2> QED  BY <2>2, <2>4, <2>5 DEF MonitorInv
<1>3. CASE Handled
  BY <1>3 DEF Handled, MonitorInv, ListKept, VerdictTrue, DevicesAre, Distinct
<1>4. CASE \E file \in Files : \E text \in Spellings(file) : Judge(file, text)
  BY <1>4, Judged
<1> QED  BY <1>1, <1>2, <1>3, <1>4
         DEF Next, vars, monitorVars, NormalizeAndValidate, Change, DeleteFile, RejectSymlinkParents,
             InspectTarget, RemoveFile

\* However a file is named, it is judged by where it lies: in one of the folders
\* the system or the profile named when the list was built, and not in the
\* working directory (IsProtectedOutsideWorkingDir, NormalizePath, FilterFiles).
THEOREM VerdictsTrue == Spec => []VerdictIsTrue
<1>1. MonitorInv => VerdictIsTrue
  BY TrulyIs DEF MonitorInv, VerdictTrue
<1> QED  BY <1>1, MonitorInit, MonitorStep, PTL DEF Spec

------------------------------------------------------------------------------
(* Types.                                                                  *)

\* Places are of their kinds, and no more parents are seen than there are.
HostTyped ==
    /\ program \in {"monitor", "runner", "delete"}
    /\ \A p \in DOMAIN tree : tree[p] \in Places[p] \cup {"none"}
    /\ deletion.pc = "parents" => deletion.seen \in 0..ParentParts(deletion.target)

\* The first tree has places of their kinds.
LEMMA HostInit == Init => HostTyped
<1>1. ASSUME NEW t \in Trees, NEW p \in DOMAIN t PROVE t[p] \in Places[p]
  <2> DEFINE mixed == {q \in DOMAIN Places : Cardinality(Places[q]) > 1}
  <2>1. PICK k : /\ k \in {f \in [mixed -> {"file", "dir", "link", "none"}] : \A q \in mixed : f[q] \in Places[q]}
                 /\ t = [q \in DOMAIN Places |-> IF q \in mixed THEN k[q] ELSE CHOOSE kind \in Places[q] : TRUE]
    BY DEF Trees
  <2>2. p \in DOMAIN Places /\ Places[p] # {}
    BY <2>1, PathAssumption
  <2> HIDE DEF mixed
  <2>3. p \in mixed => t[p] \in Places[p]
    BY <2>1, <2>2
  <2>4. p \notin mixed => t[p] \in Places[p]
    BY <2>1, <2>2
  <2> QED  BY <2>3, <2>4
<1>2. Init => \A p \in DOMAIN tree : tree[p] \in Places[p]
  BY <1>1 DEF Init
<1>3. Init => program \in {"monitor", "runner", "delete"} /\ deletion.pc = "idle"
  BY DEF Init
<1> QED  BY <1>2, <1>3 DEF HostTyped

\* A place becomes one of its kinds or goes, and seen stops at the last parent.
LEMMA HostStep == DeletionInv /\ HostTyped /\ [Next]_vars => HostTyped'
<1> SUFFICES ASSUME DeletionInv, HostTyped, [Next]_vars PROVE HostTyped'
  OBVIOUS
<1> DEFINE kinds == \A p \in DOMAIN tree : tree[p] \in Places[p] \cup {"none"}
           bound == deletion.pc = "parents" => deletion.seen \in 0..ParentParts(deletion.target)
<1>1. program' = program
  BY DEF Next, vars, Remount, Judge, Handled, NormalizeAndValidate, Change, DeleteFile,
         RejectSymlinkParents, InspectTarget, RemoveFile
<1>2. ASSUME kinds', bound' PROVE HostTyped'
  BY <1>1, <1>2 DEF HostTyped
<1>3. kinds /\ bound
  BY DEF HostTyped
<1>4. CASE UNCHANGED <<tree, deletion>>
  BY <1>2, <1>3, <1>4
<1>5. ASSUME NEW place \in DOMAIN Places, NEW kind \in Places[place], Change(place, kind) PROVE HostTyped'
  <2>1. deletion \in Attempts
    BY <1>5 DEF DeletionInv, Change
  <2>2. deletion'.pc = deletion.pc /\ deletion'.target = deletion.target /\ deletion'.seen = deletion.seen
    BY <1>5, <2>1 DEF Change, Attempts
  <2>3. kinds'
    BY <1>3, <1>5 DEF Change
  <2> QED  BY <1>2, <1>3, <2>2, <2>3
<1>6. ASSUME NEW text \in Targets, DeleteFile(text) PROVE HostTyped'
  <2>1. Clean(text) \in Asked /\ tree' = tree
    BY <1>6 DEF Asked, DeleteFile
  <2> PICK t : t = Clean(text)
    OBVIOUS
  <2>2. deletion' = [pc |-> "parents", target |-> t, seen |-> 0, disturbed |-> FALSE]
    BY <1>6 DEF DeleteFile
  <2>3. Len(t) \in Nat /\ Len(Root) \in Nat /\ Len(Root) < Len(t)
    BY <2>1, AskedLiesBelow
  <2>4. 0 \in 0..ParentParts(t)
    BY <2>3 DEF ParentParts
  <2> QED  BY <1>2, <1>3, <2>1, <2>2, <2>4
<1>7. CASE RejectSymlinkParents
  <2>1. deletion \in Attempts /\ tree' = tree /\ deletion.pc = "parents"
    BY <1>7 DEF DeletionInv, RejectSymlinkParents
  <2> PICK t, n : t = deletion.target /\ n = deletion.seen
    OBVIOUS
  <2>2. t \in Asked /\ n \in Nat
    BY <2>1 DEF Attempts
  <2>3. CASE deletion' = [deletion EXCEPT !.pc = "target"] \/ deletion' = [deletion EXCEPT !.pc = "refused"]
    BY <1>2, <1>3, <2>1, <2>3 DEF Attempts
  <2>4. CASE ~(n >= ParentParts(t)) /\ deletion' = [deletion EXCEPT !.seen = @ + 1]
    <3>1. deletion'.seen = n + 1 /\ deletion'.target = t
      BY <2>1, <2>4 DEF Attempts
    <3>2. ParentParts(t) \in Int
      BY <2>2, AskedLiesBelow DEF ParentParts
    <3>3. n + 1 \in 0..ParentParts(t)
      BY <2>2, <2>4, <3>2
    <3> QED  BY <1>2, <1>3, <2>1, <3>1, <3>3
  <2> QED  BY <1>7, <2>3, <2>4 DEF RejectSymlinkParents
<1>8. CASE InspectTarget
  <2>1. deletion \in Attempts /\ tree' = tree
    BY <1>8 DEF DeletionInv, InspectTarget
  <2>2. deletion'.pc # "parents"
    BY <1>8, <2>1 DEF InspectTarget, Attempts
  <2> QED  BY <1>2, <1>3, <2>1, <2>2
<1>9. CASE RemoveFile
  <2>1. deletion \in Attempts
    BY <1>9 DEF DeletionInv, RemoveFile
  <2>2. tree' = tree \/ \E place : tree' = [tree EXCEPT ![place] = "none"]
    BY <1>9 DEF RemoveFile
  <2>3. kinds'
    BY <1>3, <2>2
  <2>4. deletion'.pc # "parents"
    BY <1>9, <2>1 DEF RemoveFile, Attempts
  <2> QED  BY <1>2, <2>3, <2>4
<1> QED  BY <1>4, <1>5, <1>6, <1>7, <1>8, <1>9
         DEF Next, vars, hostVars, Remount, Judge, Handled, NormalizeAndValidate

\* The list has each folder once and without a separator at its end, it comes
\* with the lookups it was built from, places are of their kinds and a deletion
\* looks at no more parents than there are (AddUniqueFolder, rejectSymlinkParents).
THEOREM PathsTyped == Spec => []TypeOK
<1>1. MonitorInv /\ DeletionInv /\ HostTyped => TypeOK
  <2> SUFFICES ASSUME MonitorInv, DeletionInv, HostTyped PROVE TypeOK
    OBVIOUS
  <2>1. device \in [ToSet(Drives) -> Volumes \cup {<<>>}]
    BY DEF MonitorInv, DevicesAre
  <2>2. (folders = Nil) = (sources = Nil)
    BY DEF MonitorInv, ListKept
  <2>3. ASSUME folders # Nil
        PROVE  /\ \A i, j \in DOMAIN folders : ToLowerPath(folders[i]) = ToLowerPath(folders[j]) => i = j
               /\ \A f \in ToSet(folders) : Len(f) > 2 => Last(f) # Sep
    <3>1. PICK places : ListIs(folders, places)
      BY <2>3 DEF MonitorInv, ListKept
    <3> QED  BY <3>1 DEF ListIs, ToSet
  <2>4. deletion.pc \in {"idle", "parents", "target", "remove", "refused", "failed", "removed"}
    BY DEF DeletionInv, Attempts
  <2> QED  BY <2>1, <2>2, <2>3, <2>4 DEF TypeOK, HostTyped
<1> QED  BY <1>1, MonitorInit, MonitorStep, DeletionInit, DeletionStep, HostInit, HostStep, PTL DEF Spec
=============================================================================
