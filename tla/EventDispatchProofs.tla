-------------------------- MODULE EventDispatchProofs --------------------------
(***************************************************************************)
(* What holds of the dispatch for every set of providers, filters and      *)
(* events, and for every predicate: the parser knows the places of a       *)
(* beginning of the properties and no more, whatever it was asked for; a   *)
(* callback reads what was written; requests reach their owner; a missing  *)
(* schema stays where it was met; and an event is always treated alike.    *)
(*                                                                         *)
(* The walk of the parser, the filters of a provider and the ends of what  *)
(* was written are recursive functions over numbers; the first two lemmas  *)
(* are the induction they need.                                            *)
(***************************************************************************)
EXTENDS EventDispatch, SequenceTheorems, WellFoundedInduction, TLAPS

------------------------------------------------------------------------------

Less == {ss \in Nat \X Nat : ss[1] < ss[2]}

\* A set that has 0, and with each number the next one up to N, has them all.
LEMMA Upwards ==
  ASSUME NEW N \in Nat, NEW T, 0 \in T, \A n \in 0..(N - 1) : n \in T => n + 1 \in T
  PROVE  0..N \subseteq T
<1> DEFINE U == {n \in 0..N : n \notin T}
<1> SUFFICES ASSUME U # {} PROVE FALSE
  OBVIOUS
<1>1. IsWellFoundedOn(Less, Nat)
  BY NatLessThanWellFounded DEF OpToRel, Less
<1>2. U \subseteq Nat
  OBVIOUS
<1>3. PICK m \in U : \A n \in U : ~(<<n, m>> \in Less)
  <2> HIDE DEF U
  <2> QED  BY <1>1, <1>2, WFMin
<1>4. m \in Nat /\ m # 0 /\ m - 1 \in 0..(N - 1) /\ <<m - 1, m>> \in Less
  BY DEF Less
<1>5. m - 1 \in T /\ (m - 1) + 1 = m
  BY <1>3, <1>4
<1> QED  BY <1>4, <1>5

\* The function that begins with base and goes on with step.
LEMMA Recursion ==
  ASSUME NEW S, NEW base \in S, NEW N \in Nat, NEW step \in [1..N -> [S -> S]]
  PROVE  \E f \in [0..N -> S] : f[0] = base /\ \A n \in 1..N : f[n] = step[n][f[n - 1]]
<1> DEFINE Up(k, f) == f[0] = base /\ \A n \in 1..k : f[n] = step[n][f[n - 1]]
           T == {k \in 0..N : \E f \in [0..k -> S] : Up(k, f)}
<1>1. 0 \in T
  <2> DEFINE g == [n \in 0..0 |-> base]
  <2>1. g \in [0..0 -> S] /\ g[0] = base /\ 1..0 = {}
    OBVIOUS
  <2>2. Up(0, g)
    BY <2>1
  <2>3. \E f \in [0..0 -> S] : Up(0, f)
    <3> HIDE DEF g, Up
    <3> QED  BY <2>1, <2>2
  <2> QED  BY <2>3
<1>2. ASSUME NEW k \in 0..(N - 1), k \in T PROVE k + 1 \in T
  <2>1. PICK f \in [0..k -> S] : Up(k, f)
    BY <1>2
  <2> DEFINE g == [n \in 0..(k + 1) |-> IF n = k + 1 THEN step[k + 1][f[k]] ELSE f[n]]
  <2>2. f[k] \in S /\ step[k + 1][f[k]] \in S
    BY <2>1
  <2>3. g \in [0..(k + 1) -> S]
    BY <2>1, <2>2
  <2>4. Up(k + 1, g)
    <3>1. g[0] = base
      BY <2>1
    <3>2. ASSUME NEW n \in 1..(k + 1) PROVE g[n] = step[n][g[n - 1]]
      <4>1. CASE n = k + 1
        BY <4>1
      <4>2. CASE n # k + 1
        BY <4>2, <2>1
      <4> QED  BY <4>1, <4>2
    <3> HIDE DEF g
    <3> QED  BY <3>1, <3>2
  <2> HIDE DEF g
  <2> QED  BY <2>3, <2>4
<1>3. 0..N \subseteq T
  <2> HIDE DEF T
  <2> QED  BY <1>1, <1>2, Upwards
<1>4. N \in T
  BY <1>3
<1> QED  BY <1>4


\* A set of numbers that is not empty has a least one.
LEMMA Least ==
  ASSUME NEW S \in SUBSET Nat, S # {}
  PROVE  Min(S) \in S /\ \A k \in S : Min(S) <= k
<1>1. IsWellFoundedOn(Less, Nat)
  BY NatLessThanWellFounded DEF OpToRel, Less
<1>2. PICK m \in S : \A k \in S : ~(<<k, m>> \in Less)
  BY <1>1, WFMin
<1>3. ASSUME NEW k \in S PROVE m <= k
  <2>1. m \in Nat /\ k \in Nat
    OBVIOUS
  <2>2. k < m => <<k, m>> \in Less
    BY <2>1 DEF Less
  <2> QED  BY <1>2, <2>1, <2>2
<1> QED  BY <1>3 DEF Min

------------------------------------------------------------------------------
(* The walk of the parser.                                                 *)

Description == [name : STRING, in : {"fixed", "pointer", "string", "sid", "wbemsid"},
                length : Nat, tdh : Nat]
Entry == [at : Nat, length : Nat]
Parsers == [at : Nat, hint : Nat, cache : Seq(Entry)]

Described(event) == event.props \in Seq(Description) /\ event.data \in Seq(Nat)

\* Where the walk was after i properties.
Place(p, i) == IF i = 0 THEN 0 ELSE p.cache[i].at + p.cache[i].length

\* A parser that knows the first properties of the event: each begins where the
\* one before ends and has the size the code finds there, inside the data.
IsWalk(event, p) ==
  /\ p \in Parsers
  /\ Len(p.cache) <= PropertyCount(event)
  /\ p.hint <= PropertyCount(event)
  /\ p.at = Place(p, Len(p.cache)) /\ p.at <= Len(event.data)
  /\ \A i \in 1..Len(p.cache) :
       /\ p.cache[i].at = Place(p, i - 1)
       /\ p.cache[i].length = GetPropertySize(event, i - 1, Place(p, i - 1))
       /\ Place(p, i) <= Len(event.data)

\* The next property would end behind the data.
Stuck(event, p) ==
  p.at + GetPropertySize(event, Len(p.cache), p.at) > Len(event.data)

LEMMA HeuristicSizeIs ==
  ASSUME NEW event, Described(event), NEW at \in 0..Len(event.data)
  PROVE  /\ HeuristicSize(event, at) \in Nat
         /\ HeuristicSize(event, at) = 0 => at = Len(event.data)
<1> DEFINE nulls == {i \in DOMAIN event.data : i > at /\ event.data[i] = 0}
<1>1. Len(event.data) \in Nat /\ DOMAIN event.data = 1..Len(event.data)
  BY LenProperties DEF Described
<1>2. nulls \in SUBSET Nat /\ \A i \in nulls : i > at
  BY <1>1
<1>3. nulls # {} => Min(nulls) \in nulls
  <2> HIDE DEF nulls
  <2> QED  BY <1>2, Least
<1>4. HeuristicSize(event, at) = (IF nulls = {} THEN Len(event.data) ELSE Min(nulls)) - at
  BY DEF HeuristicSize
<1> HIDE DEF nulls
<1>5. CASE nulls = {}
  BY <1>1, <1>4, <1>5
<1>6. CASE nulls # {}
  <2>1. Min(nulls) \in Nat /\ Min(nulls) > at /\ HeuristicSize(event, at) = Min(nulls) - at
    BY <1>2, <1>3, <1>4, <1>6
  <2> QED  BY <2>1
<1> QED  BY <1>5, <1>6

LEMMA SizeIsNat ==
  ASSUME NEW event, Described(event), NEW index \in 0..(PropertyCount(event) - 1),
         NEW at \in 0..Len(event.data)
  PROVE  GetPropertySize(event, index, at) \in Nat
<1>1. PropertyCount(event) \in Nat /\ event.props[index + 1] \in Description
  BY LenProperties, ElementOfSeq DEF Described, PropertyCount
<1>2. HeuristicSize(event, at) \in Nat
  BY HeuristicSizeIs
<1> QED  BY <1>1, <1>2 DEF GetPropertySize, PointerSize, PointerCells, HalfPointerCells, Description

\* A new parser knows nothing.
LEMMA NewParserIsWalk ==
  ASSUME NEW event, Described(event)
  PROVE  IsWalk(event, NewParser) /\ Len(NewParser.cache) = 0
<1>1. PropertyCount(event) \in Nat /\ Len(event.data) \in Nat
  BY LenProperties DEF Described, PropertyCount
<1>2. <<>> \in Seq(Entry) /\ Len(<<>>) = 0
  OBVIOUS
<1> QED  BY <1>1, <1>2 DEF IsWalk, NewParser, Parsers, Place

LEMMA AdvanceIsWalk ==
  ASSUME NEW event, Described(event), NEW p, IsWalk(event, p),
         Len(p.cache) < PropertyCount(event)
  PROVE  LET q == Advance(event, p)
         IN  /\ IsWalk(event, q) /\ q.hint = p.hint
             /\ (q = p /\ Stuck(event, p)) \/ Len(q.cache) = Len(p.cache) + 1
<1> DEFINE N == Len(p.cache)
           size == GetPropertySize(event, N, p.at)
           entry == [at |-> p.at, length |-> size]
           q == CacheProperty(event, p, size)
<1>1. /\ N \in Nat /\ PropertyCount(event) \in Nat /\ Len(event.data) \in Nat
      /\ p \in Parsers /\ p.at \in 0..Len(event.data) /\ p.cache \in Seq(Entry)
  BY LenProperties DEF Described, PropertyCount, IsWalk, Parsers
<1>2. size \in Nat
  BY <1>1, SizeIsNat
<1>3. CASE p.at + size > Len(event.data)
  <2>1. Advance(event, p) = p /\ Stuck(event, p)
    BY <1>3 DEF Advance, Stuck
  <2> QED  BY <2>1
<1>4. CASE ~(p.at + size > Len(event.data))
  <2>1. Advance(event, p) = q
    BY <1>4 DEF Advance
  <2>2. q = [at |-> p.at + size, hint |-> p.hint, cache |-> Append(p.cache, entry)]
    BY DEF CacheProperty
  <2>3. entry \in Entry
    BY <1>1, <1>2 DEF Entry
  <2>4. /\ Append(p.cache, entry) \in Seq(Entry) /\ Len(Append(p.cache, entry)) = N + 1
        /\ Append(p.cache, entry)[N + 1] = entry
        /\ \A i \in 1..N : Append(p.cache, entry)[i] = p.cache[i]
    BY <1>1, <2>3, AppendProperties
  <2> HIDE DEF entry, size
  <2>5. /\ q \in Parsers /\ q.hint = p.hint /\ q.at = p.at + size /\ Len(q.cache) = N + 1
        /\ q.cache[N + 1] = entry /\ \A i \in 1..N : q.cache[i] = p.cache[i]
    BY <1>1, <1>2, <2>2, <2>4 DEF Parsers
  <2>6. entry.at = p.at /\ entry.length = size
    BY DEF entry
  <2> HIDE DEF q
  <2>7. \A i \in 0..N : Place(q, i) = Place(p, i)
    BY <1>1, <2>5 DEF Place
  <2>8. Place(p, N) = p.at /\ Place(q, N) = p.at /\ Place(q, N + 1) = p.at + size
    BY <1>1, <2>5, <2>6, <2>7 DEF Place, IsWalk
  <2>9. ASSUME NEW i \in 1..(N + 1)
        PROVE  /\ q.cache[i].at = Place(q, i - 1)
               /\ q.cache[i].length = GetPropertySize(event, i - 1, Place(q, i - 1))
               /\ Place(q, i) <= Len(event.data)
    <3>1. CASE i = N + 1
      <4>1. i - 1 = N
        BY <1>1, <3>1
      <4> QED  BY <1>1, <1>2, <1>4, <2>5, <2>6, <2>8, <3>1, <4>1 DEF size
    <3>2. CASE i # N + 1
      <4>1. i \in 1..N /\ i - 1 \in 0..N
        BY <1>1, <3>2
      <4> QED  BY <2>5, <2>7, <4>1 DEF IsWalk
    <3> QED  BY <3>1, <3>2
  <2>10. IsWalk(event, q)
    BY <1>1, <1>2, <1>4, <2>5, <2>8, <2>9 DEF IsWalk
  <2> QED  BY <2>1, <2>5, <2>10
<1> QED  BY <1>3, <1>4

\* The walk to a property ends with that property known or with one it cannot
\* pass; a property that is known already is not walked to.
LEMMA WalkToIs ==
  ASSUME NEW event, Described(event), NEW p, IsWalk(event, p),
         NEW index \in 0..(PropertyCount(event) - 1)
  PROVE  LET q == WalkTo(event, p, index)
         IN  /\ IsWalk(event, q) /\ q.hint = p.hint
             /\ index < Len(p.cache) => q = p
             /\ index < Len(q.cache) \/ (Len(q.cache) < PropertyCount(event) /\ Stuck(event, q))
<1> DEFINE K == Len(p.cache)
           M == PropertyCount(event)
           N == index + 1
           S == {q \in Parsers : IsWalk(event, q)}
           Whole(f) == [n \in 0..N |-> IF n <= K THEN p ELSE Advance(event, f[n - 1])]
           One(q, n) == IF n <= K THEN p
                        ELSE IF Len(q.cache) < M THEN Advance(event, q) ELSE q
           step == [n \in 1..N |-> [q \in S |-> One(q, n)]]
           Known(q, n) == /\ n <= K => q = p
                          /\ n > K => (Len(q.cache) = n \/ (Len(q.cache) < M /\ Stuck(event, q)))
                          /\ q.hint = p.hint
<1>1. /\ K \in Nat /\ M \in Nat /\ N \in Nat /\ N \in 1..M /\ p \in S
      /\ \A q \in S : Len(q.cache) \in Nat /\ Len(q.cache) <= M
  BY LenProperties DEF Described, PropertyCount, IsWalk, Parsers
<1>2. ASSUME NEW q \in S, Len(q.cache) < M
      PROVE  /\ Advance(event, q) \in S /\ Advance(event, q).hint = q.hint
             /\ (Advance(event, q) = q /\ Stuck(event, q)) \/ Len(Advance(event, q).cache) = Len(q.cache) + 1
  <2>1. IsWalk(event, q)
    OBVIOUS
  <2>2. IsWalk(event, Advance(event, q)) => Advance(event, q) \in S
    BY DEF IsWalk
  <2> QED  BY <1>2, <2>1, <2>2, AdvanceIsWalk
<1> HIDE DEF S
<1>3. PICK f \in [0..N -> S] : f[0] = p /\ \A n \in 1..N : f[n] = One(f[n - 1], n)
  <2> HIDE DEF N
  <2>1. step \in [1..N -> [S -> S]]
    BY <1>1, <1>2
  <2> HIDE DEF step
  <2>2. PICK Q, e, g, m : Q = S /\ e = p /\ g = step /\ m = N
    OBVIOUS
  <2>3. e \in Q /\ m \in Nat /\ g \in [1..m -> [Q -> Q]]
    BY <1>1, <2>1, <2>2
  <2>4. PICK f \in [0..m -> Q] : f[0] = e /\ \A n \in 1..m : f[n] = g[n][f[n - 1]]
    BY ONLY <2>3, Recursion, Z3
  <2>5. \A n \in 1..N : f[n] = One(f[n - 1], n)
    <3> HIDE DEF One
    <3> SUFFICES ASSUME NEW n \in 1..N PROVE f[n] = One(f[n - 1], n)
      OBVIOUS
    <3>1. n - 1 \in 0..m /\ f[n - 1] \in S /\ n \in 1..m
      BY <1>1, <2>2, <2>4
    <3>2. step[n] = [q \in S |-> One(q, n)]
      BY DEF step
    <3> QED  BY <2>2, <2>4, <3>1, <3>2
  <2> QED  BY <2>2, <2>4, <2>5
<1>4. \A n \in 0..N : Known(f[n], n)
  <2> DEFINE T == {n \in 0..N : Known(f[n], n)}
  <2>1. 0 \in T
    BY <1>1, <1>3
  <2>2. ASSUME NEW n \in 0..(N - 1), n \in T PROVE n + 1 \in T
    <3>1. /\ n + 1 \in 1..N /\ (n + 1) - 1 = n /\ f[n] \in S /\ Known(f[n], n)
          /\ f[n + 1] = One(f[n], n + 1)
      BY <1>1, <1>3, <2>2
    <3>2. CASE n + 1 <= K
      BY <1>1, <3>1, <3>2
    <3>3. CASE n + 1 > K
      <4>1. Len(f[n].cache) = n \/ (Len(f[n].cache) < M /\ Stuck(event, f[n]))
        BY <1>1, <3>1, <3>3
      <4>2. Len(f[n].cache) < M /\ f[n + 1] = Advance(event, f[n])
        BY <1>1, <3>1, <3>3, <4>1
      <4>3. Stuck(event, f[n]) => f[n + 1] = f[n]
        BY <4>2 DEF Advance, Stuck
      <4>4. /\ f[n + 1].hint = f[n].hint
            /\ (f[n + 1] = f[n] /\ Stuck(event, f[n])) \/ Len(f[n + 1].cache) = Len(f[n].cache) + 1
        BY <1>2, <3>1, <4>2
      <4>5. Known(f[n + 1], n + 1)
        BY <1>1, <3>1, <3>3, <4>1, <4>2, <4>3, <4>4
      <4> QED  BY <3>1, <4>5
    <3> QED  BY <1>1, <3>2, <3>3
  <2> HIDE DEF T, N
  <2>3. 0..N \subseteq T
    BY <1>1, <2>1, <2>2, Upwards
  <2> QED  BY <2>3 DEF T
<1>5. \A n \in 1..N : f[n] = IF n <= K THEN p ELSE Advance(event, f[n - 1])
  <2> SUFFICES ASSUME NEW n \in 1..N, ~(n <= K) PROVE f[n] = Advance(event, f[n - 1])
    BY <1>3
  <2>1. n - 1 \in 0..N /\ n - 1 < M /\ f[n - 1] \in S /\ n - 1 >= K
    BY <1>1, <1>3
  <2>3. n - 1 > K => (Len(f[n - 1].cache) = n - 1 \/ Len(f[n - 1].cache) < M)
    BY <1>4, <2>1
  <2>4. n - 1 = K => f[n - 1] = p
    BY <1>1, <1>4, <2>1
  <2>2. Len(f[n - 1].cache) < M
    BY <1>1, <2>1, <2>3, <2>4
  <2> QED  BY <1>3, <2>2
<1> HIDE DEF Known
<1>6. f = Whole(f)
  <2> HIDE DEF N, One
  <2>1. 0 <= K
    BY <1>1
  <2> QED  BY <1>1, <1>3, <1>5, <2>1
<1> DEFINE h == CHOOSE g : g = Whole(g)
<1>7. h = Whole(h)
  <2> HIDE DEF Whole
  <2> QED  BY <1>6
<1>8. WalkTo(event, p, index) = h[N]
  BY DEF WalkTo
<1> HIDE DEF h
<1>9. 0..N \subseteq {n \in 0..N : h[n] = f[n]}
  <2> DEFINE T == {n \in 0..N : h[n] = f[n]}
  <2>1. 0 \in T
    BY <1>1, <1>3, <1>7
  <2>2. ASSUME NEW n \in 0..(N - 1), n \in T PROVE n + 1 \in T
    <3>1. n + 1 \in 1..N /\ (n + 1) - 1 = n /\ n + 1 # 0 /\ n + 1 \in 0..N
      BY <1>1
    <3>2. h[n + 1] = IF n + 1 <= K THEN p ELSE Advance(event, h[n])
      BY <1>7, <3>1
    <3>3. f[n + 1] = IF n + 1 <= K THEN p ELSE Advance(event, f[n])
      BY <1>5, <3>1
    <3> QED  BY <2>2, <3>1, <3>2, <3>3
  <2> HIDE DEF T, N
  <2>3. 0..N \subseteq T
    BY <1>1, <2>1, <2>2, Upwards
  <2> QED  BY <2>3 DEF T
<1>10. WalkTo(event, p, index) = f[N] /\ f[N] \in S /\ Known(f[N], N)
  <2> HIDE DEF N
  <2> QED  BY <1>1, <1>3, <1>4, <1>8, <1>9
<1> QED  BY <1>1, <1>10 DEF Known, S

\* What two walks through one event both know, they know alike.
LEMMA WalksAgree ==
  ASSUME NEW event, Described(event), NEW p, IsWalk(event, p), NEW q, IsWalk(event, q),
         NEW n \in Nat, n <= Len(p.cache), n <= Len(q.cache)
  PROVE  Place(p, n) = Place(q, n) /\ \A i \in 1..n : p.cache[i] = q.cache[i]
<1> DEFINE T == {k \in 0..n : Place(p, k) = Place(q, k) /\ \A i \in 1..k : p.cache[i] = q.cache[i]}
<1>1. /\ Len(p.cache) \in Nat /\ Len(q.cache) \in Nat
      /\ p.cache \in Seq(Entry) /\ q.cache \in Seq(Entry)
  BY LenProperties DEF IsWalk, Parsers
<1>2. 0 \in T
  BY DEF Place
<1>3. ASSUME NEW k \in 0..(n - 1), k \in T PROVE k + 1 \in T
  <2>1. /\ k + 1 \in 1..Len(p.cache) /\ k + 1 \in 1..Len(q.cache) /\ (k + 1) - 1 = k /\ k + 1 # 0
        /\ k + 1 \in 0..n
    BY <1>1
  <2>2. Place(p, k) = Place(q, k)
    BY <1>3
  <2>3. /\ p.cache[k + 1].at = q.cache[k + 1].at
        /\ p.cache[k + 1].length = q.cache[k + 1].length
    BY <2>1, <2>2 DEF IsWalk
  <2>4. p.cache[k + 1] \in Entry /\ q.cache[k + 1] \in Entry
    BY <1>1, <2>1, ElementOfSeq
  <2>5. p.cache[k + 1] = q.cache[k + 1]
    BY <2>3, <2>4 DEF Entry
  <2>6. Place(p, k + 1) = Place(q, k + 1)
    BY <2>1, <2>5 DEF Place
  <2>7. \A i \in 1..(k + 1) : i \in 1..k \/ i = k + 1
    OBVIOUS
  <2>8. \A i \in 1..k : p.cache[i] = q.cache[i]
    BY <1>3
  <2> QED  BY <2>1, <2>5, <2>6, <2>7, <2>8
<1> HIDE DEF T
<1>4. 0..n \subseteq T
  BY <1>2, <1>3, Upwards
<1>5. n \in T
  BY <1>4
<1> QED  BY <1>5 DEF T

\* A property one walk knows and another cannot reach: there is none.
LEMMA WalksReachAlike ==
  ASSUME NEW event, Described(event), NEW p, IsWalk(event, p), NEW q, IsWalk(event, q),
         Stuck(event, q)
  PROVE  Len(p.cache) <= Len(q.cache)
<1> DEFINE n == Len(q.cache)
<1>1. Len(p.cache) \in Nat /\ n \in Nat /\ Len(event.data) \in Nat
  BY LenProperties DEF Described, IsWalk, Parsers
<1> SUFFICES ASSUME Len(p.cache) > n PROVE FALSE
  BY <1>1
<1>2. Place(p, n) = Place(q, n) /\ q.at = Place(q, n)
  BY <1>1, WalksAgree DEF IsWalk
<1>3. n + 1 \in 1..Len(p.cache) /\ (n + 1) - 1 = n /\ n + 1 # 0
  BY <1>1
<1>4. /\ p.cache[n + 1].at = q.at
      /\ p.cache[n + 1].length = GetPropertySize(event, n, q.at)
      /\ Place(p, n + 1) <= Len(event.data)
  BY <1>2, <1>3 DEF IsWalk
<1>5. Place(p, n + 1) = q.at + GetPropertySize(event, n, q.at)
  BY <1>3, <1>4 DEF Place
<1>6. q.at \in 0..Len(event.data) /\ n \in 0..(PropertyCount(event) - 1)
  <2>1. p.at \in Nat /\ q.at \in Nat /\ PropertyCount(event) \in Nat
    BY LenProperties DEF Described, IsWalk, Parsers, PropertyCount
  <2> QED  BY <1>1, <2>1 DEF IsWalk
<1>7. GetPropertySize(event, n, q.at) \in Nat
  BY <1>6, SizeIsNat
<1> QED  BY <1>1, <1>4, <1>5, <1>6, <1>7 DEF Stuck

\* The search ends at a property of the name when there is one.
LEMMA IndexOfIs ==
  ASSUME NEW event, Described(event), NEW name, NEW hint
  PROVE  LET index == IndexOf(event, name, hint)
         IN  /\ index \in 0..PropertyCount(event)
             /\ index < PropertyCount(event) =>
                  index + 1 \in DOMAIN event.props /\ event.props[index + 1].name = name
             /\ name \in Names(event) => index < PropertyCount(event)
<1> DEFINE M == PropertyCount(event)
           named == Named(event, name)
           later == {i \in named : i >= hint}
<1>1. M \in Nat /\ DOMAIN event.props = 1..M
  BY LenProperties DEF Described, PropertyCount
<1>2. named = {i \in 0..(M - 1) : event.props[i + 1].name = name}
  BY DEF Named
<1>3. named \in SUBSET Nat /\ later \in SUBSET Nat /\ later \subseteq named
  BY <1>1, <1>2
<1>4. name \in Names(event) => named # {}
  <2> SUFFICES ASSUME name \in Names(event) PROVE named # {}
    OBVIOUS
  <2>1. PICK i \in 1..M : event.props[i].name = name
    BY <1>1 DEF Names
  <2>2. i - 1 \in 0..(M - 1) /\ (i - 1) + 1 = i
    BY <1>1
  <2>3. i - 1 \in named
    BY <1>2, <2>1, <2>2
  <2> QED  BY <2>3
<1>5. IndexOf(event, name, hint) = IF named = {} THEN M ELSE IF later = {} THEN Min(named) ELSE Min(later)
  BY DEF IndexOf
<1> HIDE DEF later, named
<1>6. named # {} => IndexOf(event, name, hint) \in named
  <2>1. named # {} => Min(named) \in named
    BY <1>3, Least
  <2>2. later # {} => Min(later) \in later
    BY <1>3, Least
  <2> QED  BY <1>3, <1>5, <2>1, <2>2
<1>7. CASE named = {}
  BY <1>1, <1>4, <1>5, <1>7
<1>8. CASE named # {}
  <2>1. IndexOf(event, name, hint) \in 0..(M - 1) /\ event.props[IndexOf(event, name, hint) + 1].name = name
    BY <1>2, <1>6, <1>8
  <2> HIDE DEF M
  <2> QED  BY <1>1, <2>1 DEF M
<1> QED  BY <1>7, <1>8

\* The hint is no part of what a parser knows.
LEMMA HintIsFree ==
  ASSUME NEW event, Described(event), NEW p, IsWalk(event, p),
         NEW hint \in 0..PropertyCount(event)
  PROVE  LET q == [p EXCEPT !.hint = hint]
         IN  IsWalk(event, q) /\ q.cache = p.cache /\ q.hint = hint
<1> DEFINE q == [p EXCEPT !.hint = hint]
<1>1. hint \in Nat /\ hint <= PropertyCount(event)
  BY LenProperties DEF Described, PropertyCount
<1>2. p \in Parsers
  BY DEF IsWalk
<1>3. q \in Parsers /\ q.cache = p.cache /\ q.at = p.at /\ q.hint = hint
  BY <1>1, <1>2 DEF Parsers
<1> HIDE DEF q
<1>4. \A i \in Nat : Place(q, i) = Place(p, i)
  BY <1>3 DEF Place
<1>5. Len(p.cache) \in Nat
  BY <1>2, LenProperties DEF Parsers
<1>6. ASSUME NEW i \in 1..Len(q.cache)
      PROVE  /\ q.cache[i].at = Place(q, i - 1)
             /\ q.cache[i].length = GetPropertySize(event, i - 1, Place(q, i - 1))
             /\ Place(q, i) <= Len(event.data)
  <2>1. i \in Nat /\ i - 1 \in Nat /\ i \in 1..Len(p.cache)
    BY <1>3, <1>5
  <2> QED  BY <1>3, <1>4, <2>1 DEF IsWalk
<1> QED  BY <1>1, <1>3, <1>4, <1>5, <1>6 DEF IsWalk, q

LEMMA NextHint ==
  ASSUME NEW count \in Nat, NEW index \in 0..(count - 1)
  PROVE  (index + 1) % count \in 0..count
OBVIOUS

\* What the search for a property finds, and where it leaves the parser.
LEMMA FindPropertyIs ==
  ASSUME NEW event, Described(event), NEW p, IsWalk(event, p), NEW name
  PROVE  LET index == IndexOf(event, name, p.hint)
             found == FindProperty(event, p, name)
         IN  /\ IsWalk(event, found.parser)
             /\ index = PropertyCount(event) => found.status = "absent"
             /\ index < PropertyCount(event) /\ index < Len(found.parser.cache) =>
                  /\ found.status = "found" /\ found.index = index
                  /\ found.place = found.parser.cache[index + 1]
             /\ index < PropertyCount(event) /\ ~(index < Len(found.parser.cache)) =>
                  found.status = "past_end" /\ Stuck(event, found.parser)
<1> DEFINE index == IndexOf(event, name, p.hint)
           M == PropertyCount(event)
           hinted == [p EXCEPT !.hint = (index + 1) % M]
           walked == WalkTo(event, hinted, index)
           found == FindProperty(event, p, name)
<1>1. M \in Nat /\ index \in 0..M
  BY IndexOfIs, LenProperties DEF Described, PropertyCount
<1>2. found = IF index = M THEN [parser |-> p, status |-> "absent"]
              ELSE IF index >= Len(walked.cache) THEN [parser |-> walked, status |-> "past_end"]
              ELSE [parser |-> walked, status |-> "found", index |-> index,
                    place |-> walked.cache[index + 1]]
  BY DEF FindProperty
<1> HIDE DEF index, walked, found, M
<1>3. CASE index = M
  <2>1. found.parser = p /\ found.status = "absent"
    BY <1>2, <1>3
  <2> QED  BY <1>1, <1>3, <2>1 DEF index, found, M
<1>4. CASE index # M
  <2>1. index \in 0..(M - 1) /\ index < M
    BY <1>1, <1>4
  <2>2. (index + 1) % M \in 0..M
    BY <1>1, <2>1, NextHint
  <2>3. IsWalk(event, hinted)
    BY <2>2, HintIsFree DEF M
  <2> HIDE DEF hinted
  <2>4. IsWalk(event, walked) /\ (index < Len(walked.cache) \/ Stuck(event, walked))
    BY <2>1, <2>3, WalkToIs DEF walked, M
  <2>5. Len(walked.cache) \in Nat
    BY <2>4, LenProperties DEF IsWalk, Parsers
  <2>6. found.parser = walked
    BY <1>2, <1>4
  <2>7. CASE index >= Len(walked.cache)
    <3>1. found.status = "past_end"
      BY <1>2, <1>4, <2>7
    <3>2. ~(index < Len(walked.cache)) /\ Stuck(event, walked)
      BY <1>1, <2>4, <2>5, <2>7
    <3> QED  BY <2>1, <1>4, <2>4, <2>6, <3>1, <3>2 DEF index, found, M
  <2>8. CASE ~(index >= Len(walked.cache))
    <3>1. /\ found.status = "found" /\ found.index = index
          /\ found.place = walked.cache[index + 1]
      BY <1>2, <1>4, <2>8
    <3>2. index < Len(walked.cache)
      BY <1>1, <2>5, <2>8
    <3> QED  BY <2>1, <1>4, <2>4, <2>6, <3>1, <3>2 DEF index, found, M
  <2> QED  BY <2>7, <2>8
<1> QED  BY <1>3, <1>4

\* A parser is left by every attempt as a walk through the same event.
LEMMA TryParseIsWalk ==
  ASSUME NEW event, Described(event), NEW p, IsWalk(event, p), NEW name, NEW type
  PROVE  IsWalk(event, TryParse(event, p, name, type).parser)
<1>1. IsWalk(event, FindProperty(event, p, name).parser)
  BY FindPropertyIs
<1>2. TryParse(event, p, name, type).parser = FindProperty(event, p, name).parser
  BY DEF TryParse, ParseFound
<1> QED  BY <1>1, <1>2

LEMMA OrElseIsWalk ==
  ASSUME NEW event, Described(event), NEW r, IsWalk(event, r.parser), NEW name, NEW type
  PROVE  IsWalk(event, OrElse(event, r, name, type).parser)
BY TryParseIsWalk DEF OrElse

LEMMA TryParsePointerIsWalk ==
  ASSUME NEW event, Described(event), NEW p, IsWalk(event, p), NEW name
  PROVE  IsWalk(event, TryParsePointer(event, p, name).parser)
<1> DEFINE raw == TryParse(event, p, name, [kind |-> "pointer", size |-> 0])
           wide == OrElse(event, raw, name, [kind |-> "sized", size |-> PointerCells])
<1>1. IsWalk(event, raw.parser)
  BY TryParseIsWalk
<1>2. IsWalk(event, wide.parser)
  BY <1>1, OrElseIsWalk
<1>3. TryParsePointer(event, p, name)
        = OrElse(event, wide, name, [kind |-> "sized", size |-> HalfPointerCells])
  BY DEF TryParsePointer
<1> HIDE DEF wide
<1> QED  BY <1>2, <1>3, OrElseIsWalk

LEMMA TryParseOperationStatusIsWalk ==
  ASSUME NEW event, Described(event), NEW p, IsWalk(event, p)
  PROVE  IsWalk(event, TryParseOperationStatus(event, p).parser)
<1> DEFINE first == TryParse(event, p, "Status", [kind |-> "sized", size |-> 1])
<1>1. IsWalk(event, first.parser)
  BY TryParseIsWalk
<1>2. TryParseOperationStatus(event, p)
        = OrElse(event, first, "NtStatus", [kind |-> "sized", size |-> 1])
  BY DEF TryParseOperationStatus
<1> HIDE DEF first
<1> QED  BY <1>1, <1>2, OrElseIsWalk

\* Property names that are told apart are found whatever the hint.
LEMMA SameIndex ==
  ASSUME NEW event, Described(event), Distinct(event), NEW name \in Names(event),
         NEW a, NEW b
  PROVE  /\ IndexOf(event, name, a) = IndexOf(event, name, b)
         /\ IndexOf(event, name, a) \in 0..(PropertyCount(event) - 1)
<1>1. PropertyCount(event) \in Nat
  BY LenProperties DEF Described, PropertyCount
<1> DEFINE i == IndexOf(event, name, a)  j == IndexOf(event, name, b)
<1>2. /\ i \in 0..(PropertyCount(event) - 1) /\ j \in 0..(PropertyCount(event) - 1)
      /\ i + 1 \in DOMAIN event.props /\ j + 1 \in DOMAIN event.props
      /\ event.props[i + 1].name = name /\ event.props[j + 1].name = name
  <2>1. i \in 0..PropertyCount(event) /\ i < PropertyCount(event)
    BY IndexOfIs
  <2>2. j \in 0..PropertyCount(event) /\ j < PropertyCount(event)
    BY IndexOfIs
  <2> QED  BY <1>1, <2>1, <2>2, IndexOfIs
<1> HIDE DEF i, j
<1>3. i + 1 = j + 1
  BY <1>2 DEF Distinct
<1> QED  BY <1>1, <1>2, <1>3 DEF i, j

\* What is found does not depend on what is known before.
LEMMA FoundAlike ==
  ASSUME NEW event, Described(event), Distinct(event), NEW name \in Names(event),
         NEW p, IsWalk(event, p), NEW q, IsWalk(event, q)
  PROVE  LET one == FindProperty(event, p, name)
             other == FindProperty(event, q, name)
         IN  /\ one.status = other.status
             /\ one.status = "found" => one.index = other.index /\ one.place = other.place
<1> DEFINE one == FindProperty(event, p, name)
           other == FindProperty(event, q, name)
           i == IndexOf(event, name, p.hint)
<1>1. i = IndexOf(event, name, q.hint) /\ i \in 0..(PropertyCount(event) - 1)
  BY SameIndex
<1>2. /\ IsWalk(event, one.parser)
      /\ i < Len(one.parser.cache) =>
           one.status = "found" /\ one.index = i /\ one.place = one.parser.cache[i + 1]
      /\ ~(i < Len(one.parser.cache)) => one.status = "past_end" /\ Stuck(event, one.parser)
  <2>1. i < PropertyCount(event)
    BY <1>1, LenProperties DEF Described, PropertyCount
  <2> QED  BY <2>1, FindPropertyIs
<1>3. /\ IsWalk(event, other.parser)
      /\ i < Len(other.parser.cache) =>
           other.status = "found" /\ other.index = i /\ other.place = other.parser.cache[i + 1]
      /\ ~(i < Len(other.parser.cache)) => other.status = "past_end" /\ Stuck(event, other.parser)
  <2>1. i < PropertyCount(event)
    BY <1>1, LenProperties DEF Described, PropertyCount
  <2> QED  BY <1>1, <2>1, FindPropertyIs
<1> HIDE DEF one, other, i
<1>4. /\ Len(one.parser.cache) \in Nat /\ Len(other.parser.cache) \in Nat /\ i \in Nat
  BY <1>1, <1>2, <1>3, LenProperties DEF IsWalk, Parsers
<1>5. CASE i < Len(one.parser.cache) /\ i < Len(other.parser.cache)
  <2>1. /\ i + 1 \in Nat /\ i + 1 <= Len(one.parser.cache) /\ i + 1 <= Len(other.parser.cache)
        /\ i + 1 \in 1..(i + 1)
    BY <1>4, <1>5
  <2>2. one.parser.cache[i + 1] = other.parser.cache[i + 1]
    BY <1>2, <1>3, <2>1, WalksAgree
  <2> QED  BY <1>2, <1>3, <1>5, <2>2 DEF one, other
<1>6. CASE i < Len(one.parser.cache) /\ ~(i < Len(other.parser.cache))
  <2>1. Len(one.parser.cache) <= Len(other.parser.cache)
    BY <1>2, <1>3, <1>6, WalksReachAlike
  <2> QED  BY <1>4, <1>6, <2>1
<1>7. CASE ~(i < Len(one.parser.cache)) /\ i < Len(other.parser.cache)
  <2>1. Len(other.parser.cache) <= Len(one.parser.cache)
    BY <1>2, <1>3, <1>7, WalksReachAlike
  <2> QED  BY <1>4, <1>7, <2>1
<1>8. CASE ~(i < Len(one.parser.cache)) /\ ~(i < Len(other.parser.cache))
  BY <1>2, <1>3, <1>8 DEF one, other
<1> QED  BY <1>5, <1>6, <1>7, <1>8

LEMMA ParsedAlike ==
  ASSUME NEW event, Described(event), Distinct(event), NEW name \in Names(event),
         NEW p, IsWalk(event, p), NEW q, IsWalk(event, q), NEW type
  PROVE  LET one == TryParse(event, p, name, type)
             other == TryParse(event, q, name, type)
         IN  one.ok = other.ok /\ one.value = other.value
<1> DEFINE one == FindProperty(event, p, name)
           other == FindProperty(event, q, name)
<1>1. /\ one.status = other.status
      /\ one.status = "found" => one.index = other.index /\ one.place = other.place
  BY FoundAlike
<1> HIDE DEF one, other
<1>2. /\ TryParse(event, p, name, type) = ParseFound(event, one, type)
      /\ TryParse(event, q, name, type) = ParseFound(event, other, type)
  BY DEF TryParse, one, other
<1>3. CASE one.status # "found"
  BY <1>1, <1>2, <1>3 DEF ParseFound
<1>4. CASE one.status = "found"
  BY <1>1, <1>2, <1>4 DEF ParseFound
<1> QED  BY <1>3, <1>4

------------------------------------------------------------------------------
(* Events that were logged whole.                                          *)

Written(event) ==
  /\ Described(event)
  /\ event.written \in Seq(Seq(Nat)) /\ Len(event.written) = Len(event.props)
  /\ Fits(event)

LEMMA EndsAre ==
  ASSUME NEW event, event.written \in Seq(Seq(Nat))
  PROVE  /\ Ends(event) \in [0..Len(event.written) -> Nat] /\ Ends(event)[0] = 0
         /\ \A i \in 1..Len(event.written) :
              Ends(event)[i] = Ends(event)[i - 1] + Len(event.written[i])
<1> DEFINE N == Len(event.written)
           S == Nat
           One(q, n) == q + Len(event.written[n])
           Whole(f) == [n \in 0..N |-> IF n = 0 THEN 0 ELSE f[n - 1] + Len(event.written[n])]
           step == [n \in 1..N |-> [q \in S |-> One(q, n)]]
<1>1. N \in Nat /\ 0 \in S
  BY LenProperties
<1>2. \A n \in 1..N : \A q \in S : One(q, n) \in S
  BY ElementOfSeq, LenProperties
<1>3. PICK f \in [0..N -> S] : f[0] = 0 /\ \A n \in 1..N : f[n] = One(f[n - 1], n)
  <2> HIDE DEF N, S, One
  <2>1. step \in [1..N -> [S -> S]]
    BY <1>2
  <2> HIDE DEF step
  <2>2. PICK Q, e, g, m : Q = S /\ e = 0 /\ g = step /\ m = N
    OBVIOUS
  <2>3. e \in Q /\ m \in Nat /\ g \in [1..m -> [Q -> Q]]
    BY <1>1, <2>1, <2>2
  <2>4. PICK f \in [0..m -> Q] : f[0] = e /\ \A n \in 1..m : f[n] = g[n][f[n - 1]]
    BY ONLY <2>3, Recursion, Z3
  <2>5. \A n \in 1..N : f[n] = One(f[n - 1], n)
    <3> SUFFICES ASSUME NEW n \in 1..N PROVE f[n] = One(f[n - 1], n)
      OBVIOUS
    <3>1. n - 1 \in 0..m /\ f[n - 1] \in S /\ n \in 1..m
      BY <1>1, <2>2, <2>4
    <3>2. step[n] = [q \in S |-> One(q, n)]
      BY DEF step
    <3> QED  BY <2>2, <2>4, <3>1, <3>2
  <2> QED  BY <2>2, <2>4, <2>5
<1>4. f = Whole(f)
  <2>1. \A n \in 1..N : f[n] = f[n - 1] + Len(event.written[n])
    BY <1>3 DEF One
  <2> HIDE DEF N, S, One
  <2> QED  BY <1>1, <1>3, <2>1
<1> DEFINE h == CHOOSE g : g = Whole(g)
<1>5. h = Whole(h)
  <2> HIDE DEF Whole
  <2> QED  BY <1>4
<1>6. Ends(event) = h
  BY DEF Ends
<1> HIDE DEF h, S
<1>7. 0..N \subseteq {n \in 0..N : h[n] = f[n]}
  <2> DEFINE T == {n \in 0..N : h[n] = f[n]}
  <2>1. 0 \in T
    BY <1>1, <1>3, <1>5
  <2>2. ASSUME NEW n \in 0..(N - 1), n \in T PROVE n + 1 \in T
    <3>1. n + 1 \in 1..N /\ (n + 1) - 1 = n /\ n + 1 # 0 /\ n + 1 \in 0..N
      BY <1>1
    <3>2. h[n + 1] = One(h[n], n + 1)
      BY <1>5, <3>1
    <3>3. f[n + 1] = One(f[n], n + 1)
      BY <1>3, <3>1
    <3> HIDE DEF One, N
    <3> QED  BY <2>2, <3>1, <3>2, <3>3
  <2> HIDE DEF T, N
  <2>3. 0..N \subseteq T
    BY <1>1, <2>1, <2>2, Upwards
  <2> QED  BY <2>3 DEF T
<1>8. h = f
  <2> HIDE DEF N
  <2>1. DOMAIN h = 0..N /\ h = [n \in 0..N |-> h[n]]
    BY <1>5
  <2> QED  BY <1>3, <1>7, <2>1
<1> QED  BY <1>1, <1>3, <1>6, <1>8 DEF S

\* What was written later ends later.
LEMMA EndsGrow ==
  ASSUME NEW event, event.written \in Seq(Seq(Nat)),
         NEW i \in 0..Len(event.written), NEW j \in i..Len(event.written)
  PROVE  Ends(event)[i] <= Ends(event)[j]
<1> DEFINE N == Len(event.written)
           T == {k \in 0..(j - i) : Ends(event)[i] <= Ends(event)[i + k]}
<1>1. N \in Nat /\ j - i \in Nat
  BY LenProperties
<1>2. 0 \in T
  <2>1. Ends(event)[i] \in Nat /\ i + 0 = i /\ 0 \in 0..(j - i)
    <3>1. Ends(event) \in [0..Len(event.written) -> Nat]
      BY EndsAre
    <3> QED  BY <1>1, <3>1
  <2> QED  BY <2>1
<1>3. ASSUME NEW k \in 0..((j - i) - 1), k \in T PROVE k + 1 \in T
  <2>1. i + (k + 1) \in 1..N /\ (i + (k + 1)) - 1 = i + k /\ i + k \in 0..N /\ k + 1 \in 0..(j - i)
    BY <1>1
  <2>2. Len(event.written[i + (k + 1)]) \in Nat
    BY <2>1, ElementOfSeq, LenProperties
  <2>3. Ends(event)[i + (k + 1)] = Ends(event)[i + k] + Len(event.written[i + (k + 1)])
    BY <2>1, EndsAre
  <2>4. Ends(event)[i + k] \in Nat /\ Ends(event)[i] \in Nat
    BY <2>1, EndsAre
  <2> QED  BY <1>3, <2>1, <2>2, <2>3, <2>4
<1> HIDE DEF T
<1>4. j - i \in T
  <2> PICK d \in Nat : d = j - i
    BY <1>1
  <2>1. 0..d \subseteq T
    BY <1>2, <1>3, Upwards
  <2> QED  BY <2>1
<1>5. i + (j - i) = j
  BY <1>1
<1> QED  BY <1>4, <1>5 DEF T

\* The cells of a property in the data.
LEMMA CellsAre ==
  ASSUME NEW event, Written(event), LoggedWhole(event), NEW i \in 1..PropertyCount(event)
  PROVE  /\ event.written[i] \in Seq(Nat) /\ Len(event.written[i]) \in Nat
         /\ Ends(event)[i - 1] \in Nat
         /\ Ends(event)[i] = Ends(event)[i - 1] + Len(event.written[i])
         /\ Ends(event)[i] <= Len(event.data)
         /\ i = PropertyCount(event) => Ends(event)[i] = Len(event.data)
         /\ \A k \in 1..Len(event.written[i]) :
              event.data[Ends(event)[i - 1] + k] = event.written[i][k]
<1> DEFINE N == PropertyCount(event)  from == Ends(event)[i - 1]  n == Len(event.written[i])
<1>1. N \in Nat /\ Len(event.written) = N /\ DOMAIN event.written = 1..N
  BY LenProperties DEF Written, Described, PropertyCount
<1>2. event.written[i] \in Seq(Nat) /\ n \in Nat
  BY <1>1, ElementOfSeq, LenProperties DEF Written
<1>3. from \in Nat /\ Ends(event)[i] \in Nat /\ Ends(event)[i] = from + n
  <2>1. event.written \in Seq(Seq(Nat)) /\ i \in 1..Len(event.written) /\ i - 1 \in 0..Len(event.written)
    BY <1>1 DEF Written
  <2>2. /\ Ends(event) \in [0..Len(event.written) -> Nat]
        /\ \A k \in 1..Len(event.written) : Ends(event)[k] = Ends(event)[k - 1] + Len(event.written[k])
    BY <2>1, EndsAre
  <2>3. i \in 0..Len(event.written)
    BY <2>1
  <2> QED  BY <2>1, <2>2, <2>3
<1>4. Ends(event)[i] <= Ends(event)[N] /\ Ends(event)[N] = Len(event.data)
  <2>1. i \in 0..N /\ N \in i..N
    BY <1>1
  <2> QED  BY <1>1, <2>1, EndsGrow DEF Written, LoggedWhole
<1>5. SubSeq(event.data, from + 1, from + n) = event.written[i]
  BY <1>1, <1>3 DEF LoggedWhole
<1>6. ASSUME NEW k \in 1..n PROVE event.data[from + k] = event.written[i][k]
  <2>1. SubSeq(event.data, from + 1, from + n)[k] = event.data[(from + 1) + k - 1]
    <3>1. event.data \in Seq(Nat) /\ Len(event.data) \in Nat
      BY LenProperties DEF Written, Described
    <3> HIDE DEF from, n, N
    <3>2. /\ from + 1 \in 1..(Len(event.data) + 1) /\ from + n \in from..Len(event.data)
          /\ k \in 1..((from + n) - (from + 1) + 1)
      BY <1>2, <1>3, <1>4, <3>1
    <3> QED  BY <1>2, <1>3, <3>1, <3>2, SubSeqProperties
  <2>2. (from + 1) + k - 1 = from + k
    BY <1>2, <1>3
  <2> QED  BY <1>5, <2>1, <2>2
<1> QED  BY <1>1, <1>2, <1>3, <1>4, <1>6

\* The code finds the size that was written.
LEMMA SizeIsWritten ==
  ASSUME NEW event, Written(event), LoggedWhole(event), NEW i \in 1..PropertyCount(event)
  PROVE  GetPropertySize(event, i - 1, Ends(event)[i - 1]) = Len(event.written[i])
<1> DEFINE from == Ends(event)[i - 1]
           cells == event.written[i]
           prop == event.props[i]
           nulls == {k \in DOMAIN event.data : k > from /\ event.data[k] = 0}
<1>1. /\ PropertyCount(event) \in Nat /\ Len(event.data) \in Nat
      /\ DOMAIN event.data = 1..Len(event.data) /\ DOMAIN event.props = 1..PropertyCount(event)
  BY LenProperties DEF Written, Described, PropertyCount
<1>2. /\ Len(cells) \in Nat /\ DOMAIN cells = 1..Len(cells) /\ from \in Nat
      /\ from + Len(cells) <= Len(event.data)
      /\ i = PropertyCount(event) => from + Len(cells) = Len(event.data)
      /\ \A k \in 1..Len(cells) : event.data[from + k] = cells[k]
  <2>1. cells \in Seq(Nat) /\ Len(cells) \in Nat /\ from \in Nat /\ Ends(event)[i] = from + Len(cells)
    BY CellsAre
  <2>2. DOMAIN cells = 1..Len(cells)
    BY <2>1, LenProperties
  <2> QED  BY <2>1, <2>2, CellsAre
<1>3. event.props[(i - 1) + 1] = prop /\ prop \in Description
  <2>1. (i - 1) + 1 = i
    BY <1>1
  <2> QED  BY <1>1, <2>1, ElementOfSeq DEF Written, Described, PropertyCount
<1>4. CASE prop.length > 0
  <2>1. Len(cells) = IF prop.in = "pointer" THEN PointerSize(event) ELSE prop.length
    BY <1>1, <1>4 DEF Written, Fits
  <2> QED  BY <1>3, <1>4, <2>1 DEF GetPropertySize
<1>5. CASE ~(prop.length > 0) /\ prop.in # "string"
  <2>1. Len(cells) = prop.tdh
    BY <1>1, <1>5 DEF Written, Fits
  <2> QED  BY <1>3, <1>5, <2>1 DEF GetPropertySize
<1>6. CASE ~(prop.length > 0) /\ prop.in = "string"
  <2> DEFINE ended == cells # <<>> /\ \A k \in DOMAIN cells : cells[k] = 0 <=> k = Len(cells)
             open == i = PropertyCount(event) /\ \A k \in DOMAIN cells : cells[k] # 0
  <2>1. ended \/ (open /\ (cells = <<>> => prop.tdh = 0))
    BY <1>1, <1>6 DEF Written, Fits
  <2>2. HeuristicSize(event, from) = (IF nulls = {} THEN Len(event.data) ELSE Min(nulls)) - from
    BY DEF HeuristicSize
  <2>3. nulls \in SUBSET Nat /\ \A k \in nulls : k \in 1..Len(event.data) /\ k > from /\ event.data[k] = 0
    BY <1>1
  <2>4. GetPropertySize(event, i - 1, from) = IF HeuristicSize(event, from) > 0
                                               THEN HeuristicSize(event, from) ELSE prop.tdh
    <3> HIDE DEF from, prop, nulls
    <3> QED  BY <1>3, <1>6 DEF GetPropertySize
  <2>5. ASSUME NEW k \in nulls, k <= from + Len(cells)
        PROVE  k - from \in 1..Len(cells) /\ cells[k - from] = 0
    <3>1. k - from \in 1..Len(cells) /\ from + (k - from) = k
      BY <1>1, <1>2, <2>3, <2>5
    <3> QED  BY <1>2, <2>3, <3>1
  <2>6. cells = <<>> <=> Len(cells) = 0
    BY EmptySeq, CellsAre
  <2> HIDE DEF cells, from, nulls, prop
  <2>7. CASE ended
    <3>1. Len(cells) \in 1..Len(cells) /\ cells[Len(cells)] = 0
      BY <1>2, <2>6, <2>7
    <3>2. from + Len(cells) \in nulls
      BY <1>1, <1>2, <3>1 DEF nulls
    <3>3. Min(nulls) \in nulls /\ Min(nulls) <= from + Len(cells)
      BY <2>3, <3>2, Least
    <3>4. Min(nulls) = from + Len(cells)
      <4>1. Min(nulls) - from \in 1..Len(cells) /\ cells[Min(nulls) - from] = 0
        BY <2>5, <3>3
      <4>2. Min(nulls) - from = Len(cells)
        BY <1>2, <2>7, <4>1
      <4>3. Min(nulls) \in Nat
        BY <2>3, <3>3
      <4> QED  BY <1>2, <4>2, <4>3
    <3>5. HeuristicSize(event, from) = Len(cells)
      BY <1>2, <2>2, <3>2, <3>4
    <3> QED  BY <2>4, <3>1, <3>5, <1>2 DEF cells, from
  <2>8. CASE open /\ (cells = <<>> => prop.tdh = 0)
    <3>1. from + Len(cells) = Len(event.data)
      BY <1>2, <2>8
    <3>2. nulls = {}
      BY <1>2, <2>3, <2>5, <2>8, <3>1
    <3>3. HeuristicSize(event, from) = Len(cells)
      BY <1>1, <1>2, <2>2, <3>1, <3>2
    <3> QED  BY <1>2, <2>4, <2>6, <2>8, <3>3 DEF cells, from
  <2> QED  BY <2>1, <2>7, <2>8
<1> QED  BY <1>4, <1>5, <1>6

\* A walk through an event that was logged whole knows where its properties end,
\* and nothing stops it before the last.
LEMMA WalkKnowsEnds ==
  ASSUME NEW event, Written(event), LoggedWhole(event), NEW p, IsWalk(event, p),
         NEW n \in 0..Len(p.cache)
  PROVE  Place(p, n) = Ends(event)[n]
<1> DEFINE T == {k \in 0..n : Place(p, k) = Ends(event)[k]}
<1>1. /\ Len(p.cache) \in Nat /\ PropertyCount(event) \in Nat /\ n \in Nat
      /\ Len(p.cache) <= PropertyCount(event)
  BY LenProperties DEF Written, Described, PropertyCount, IsWalk, Parsers
<1>2. 0 \in T
  BY <1>1, EndsAre DEF Place, Written
<1>3. ASSUME NEW k \in 0..(n - 1), k \in T PROVE k + 1 \in T
  <2>1. /\ k + 1 \in 1..Len(p.cache) /\ k + 1 \in 1..PropertyCount(event)
        /\ (k + 1) - 1 = k /\ k + 1 # 0 /\ k + 1 \in 0..n
    BY <1>1
  <2>2. /\ p.cache[k + 1].at = Ends(event)[k]
        /\ p.cache[k + 1].length = GetPropertySize(event, k, Ends(event)[k])
    BY <1>3, <2>1 DEF IsWalk
  <2>3. GetPropertySize(event, k, Ends(event)[k]) = Len(event.written[k + 1])
    BY <2>1, SizeIsWritten
  <2>4. Ends(event)[k + 1] = Ends(event)[k] + Len(event.written[k + 1])
    BY <2>1, CellsAre
  <2>5. Place(p, k + 1) = Ends(event)[k + 1]
    BY <2>1, <2>2, <2>3, <2>4 DEF Place
  <2> QED  BY <2>1, <2>5
<1> HIDE DEF T
<1>4. 0..n \subseteq T
  BY <1>1, <1>2, <1>3, Upwards
<1>5. n \in T
  BY <1>1, <1>4
<1> QED  BY <1>5 DEF T

LEMMA NeverStuck ==
  ASSUME NEW event, Written(event), LoggedWhole(event), NEW p, IsWalk(event, p),
         Len(p.cache) < PropertyCount(event)
  PROVE  ~Stuck(event, p)
<1> DEFINE n == Len(p.cache)
<1>1. n \in Nat /\ PropertyCount(event) \in Nat /\ Len(event.data) \in Nat
  BY LenProperties DEF Written, Described, PropertyCount, IsWalk, Parsers
<1>2. n + 1 \in 1..PropertyCount(event) /\ (n + 1) - 1 = n /\ n \in 0..n
  BY <1>1
<1>3. p.at = Ends(event)[n]
  BY <1>2, WalkKnowsEnds DEF IsWalk
<1>4. GetPropertySize(event, n, p.at) = Len(event.written[n + 1])
  BY <1>2, <1>3, SizeIsWritten
<1>5. /\ Ends(event)[n + 1] = p.at + Len(event.written[n + 1])
      /\ Ends(event)[n + 1] <= Len(event.data)
      /\ p.at \in Nat /\ Len(event.written[n + 1]) \in Nat
  <2> PICK i : i = n + 1
    OBVIOUS
  <2>1. i \in 1..PropertyCount(event) /\ i - 1 = n
    BY <1>2
  <2>2. /\ Ends(event)[i] = Ends(event)[i - 1] + Len(event.written[i])
        /\ Ends(event)[i] <= Len(event.data)
        /\ Ends(event)[i - 1] \in Nat /\ Len(event.written[i]) \in Nat
    BY <2>1, CellsAre
  <2> QED  BY <1>3, <2>1, <2>2
<1> HIDE DEF n
<1>6. ~(p.at + GetPropertySize(event, n, p.at) > Len(event.data))
  BY <1>1, <1>4, <1>5
<1> QED  BY <1>6 DEF Stuck, n

\* Every property is found, at the cells that were written for it.
LEMMA FoundWhole ==
  ASSUME NEW event, Written(event), LoggedWhole(event), Distinct(event),
         NEW p, IsWalk(event, p), NEW i \in 1..PropertyCount(event)
  PROVE  LET found == FindProperty(event, p, event.props[i].name)
         IN  /\ found.status = "found" /\ found.index + 1 = i
             /\ SubSeq(event.data, found.place.at + 1, found.place.at + found.place.length)
                  = event.written[i]
<1> DEFINE name == event.props[i].name
           index == IndexOf(event, name, p.hint)
           found == FindProperty(event, p, name)
<1>1. Described(event) /\ PropertyCount(event) \in Nat /\ DOMAIN event.props = 1..PropertyCount(event)
  BY LenProperties DEF Written, Described, PropertyCount
<1>2. name \in Names(event)
  BY <1>1 DEF Names
<1>3. index \in 0..PropertyCount(event) /\ index < PropertyCount(event)
  BY <1>1, <1>2, IndexOfIs
<1>4. index + 1 \in DOMAIN event.props /\ event.props[index + 1].name = name
  BY <1>1, <1>3, IndexOfIs
<1>5. index + 1 = i
  BY <1>1, <1>4 DEF Distinct
<1>6. /\ IsWalk(event, found.parser)
      /\ index < Len(found.parser.cache) =>
           found.status = "found" /\ found.index = index /\ found.place = found.parser.cache[index + 1]
      /\ ~(index < Len(found.parser.cache)) => Stuck(event, found.parser)
  BY <1>1, <1>3, FindPropertyIs
<1> HIDE DEF found, index, name
<1>7. Len(found.parser.cache) \in Nat
  BY <1>6, LenProperties DEF IsWalk, Parsers
<1>8. index < Len(found.parser.cache)
  <2> SUFFICES ASSUME ~(index < Len(found.parser.cache)) PROVE FALSE
    OBVIOUS
  <2>1. Len(found.parser.cache) < PropertyCount(event)
    BY <1>1, <1>3, <1>7
  <2> QED  BY <1>6, <2>1, NeverStuck
<1>9. /\ i \in 1..Len(found.parser.cache) /\ i - 1 \in 0..Len(found.parser.cache)
      /\ found.place = found.parser.cache[i]
  BY <1>3, <1>5, <1>6, <1>7, <1>8
<1>10. found.place.at = Ends(event)[i - 1]
  BY <1>6, <1>9, WalkKnowsEnds DEF IsWalk
<1>11. found.place.length = Len(event.written[i])
  <2>1. found.place.length = GetPropertySize(event, i - 1, Place(found.parser, i - 1))
    BY <1>6, <1>9 DEF IsWalk
  <2>2. Place(found.parser, i - 1) = Ends(event)[i - 1]
    BY <1>6, <1>9, WalkKnowsEnds
  <2> QED  BY <2>1, <2>2, SizeIsWritten
<1>12. SubSeq(event.data, Ends(event)[i - 1] + 1, Ends(event)[i]) = event.written[i]
  <2>1. i \in DOMAIN event.written
    BY <1>1, LenProperties DEF Written, PropertyCount
  <2> QED  BY <2>1 DEF LoggedWhole
<1>13. Ends(event)[i] = Ends(event)[i - 1] + Len(event.written[i])
  BY CellsAre
<1>14. found.status = "found" /\ found.index + 1 = i
  BY <1>5, <1>6, <1>8
<1> QED  BY <1>10, <1>11, <1>12, <1>13, <1>14 DEF found, name

Binary == [kind |-> "binary", size |-> 0]

LEMMA BinaryIs ==
  ASSUME NEW event, NEW in, NEW cells
  PROVE  ParseAs(event, Binary, in, cells) = Value(cells)
BY DEF ParseAs, Binary, ParseBinary

LEMMA ReadWhole ==
  ASSUME NEW event, Written(event), LoggedWhole(event), Distinct(event),
         NEW p, IsWalk(event, p), NEW i \in 1..PropertyCount(event)
  PROVE  LET bytes == TryParse(event, p, event.props[i].name, Binary)
         IN  bytes.ok /\ bytes.value = event.written[i]
<1> DEFINE found == FindProperty(event, p, event.props[i].name)
           cells == SubSeq(event.data, found.place.at + 1, found.place.at + found.place.length)
<1>1. found.status = "found" /\ cells = event.written[i]
  BY FoundWhole
<1> HIDE DEF found
<1>2. TryParse(event, p, event.props[i].name, Binary) = ParseFound(event, found, Binary)
  BY DEF TryParse, found
<1>3. ParseAs(event, Binary, event.props[found.index + 1].in, cells) = Value(cells)
  BY BinaryIs
<1>4. Value(cells).ok /\ Value(cells).value = cells
  BY DEF Value
<1> HIDE DEF Binary
<1>5. /\ ParseFound(event, found, Binary).ok = Value(cells).ok
      /\ ParseFound(event, found, Binary).value = Value(cells).value
  BY <1>1, <1>3 DEF ParseFound
<1> QED  BY <1>1, <1>2, <1>4, <1>5

\* The data are used up only when no property, or the last alone, is to come.
LEMMA NotExhausted ==
  ASSUME NEW event, Written(event), LoggedWhole(event), NEW p, IsWalk(event, p),
         \A i \in 1..(PropertyCount(event) - 1) : event.written[i] # <<>>
  PROVE  ~Exhausted(event, p)
<1> DEFINE n == Len(p.cache)
           M == PropertyCount(event)
<1>1. n \in Nat /\ M \in Nat /\ Len(event.data) \in Nat
  BY LenProperties DEF Written, Described, PropertyCount, IsWalk, Parsers
<1> SUFFICES ASSUME M - n > 1, p.at = Len(event.data) PROVE FALSE
  BY DEF Exhausted
<1>2. n + 1 \in 1..M /\ n + 1 \in 1..(M - 1) /\ (n + 1) - 1 = n /\ n \in 0..n
  BY <1>1
<1>3. p.at = Ends(event)[n]
  BY <1>2, WalkKnowsEnds DEF IsWalk
<1>4. /\ Ends(event)[n + 1] = p.at + Len(event.written[n + 1])
      /\ Ends(event)[n + 1] <= Len(event.data) /\ p.at \in Nat
      /\ event.written[n + 1] \in Seq(Nat) /\ Len(event.written[n + 1]) \in Nat
  <2> PICK i : i = n + 1
    OBVIOUS
  <2>1. i \in 1..PropertyCount(event) /\ i - 1 = n
    BY <1>2
  <2>2. /\ Ends(event)[i] = Ends(event)[i - 1] + Len(event.written[i])
        /\ Ends(event)[i] <= Len(event.data) /\ Ends(event)[i - 1] \in Nat
        /\ event.written[i] \in Seq(Nat) /\ Len(event.written[i]) \in Nat
    BY <2>1, CellsAre
  <2> QED  BY <1>3, <2>1, <2>2
<1>5. event.written[n + 1] # <<>>
  BY <1>2
<1>6. Len(event.written[n + 1]) # 0
  BY <1>4, <1>5, EmptySeq
<1> HIDE DEF n, M
<1>7. Len(event.written[n + 1]) > 0 /\ p.at = Len(event.data)
  BY <1>4, <1>6
<1>8. PICK d, l \in Nat : d = p.at /\ l = Len(event.written[n + 1])
  BY <1>4
<1>9. l > 0
  BY <1>7, <1>8
<1>10. d + l <= d
  BY <1>4, <1>7, <1>8
<1> QED  BY <1>9, <1>10

------------------------------------------------------------------------------
(* What the callbacks and filters of a provider do with an event.          *)

Items(N) == (CallbackKinds \cup {"error"}) \X N
Runs(N) == [log : Seq(Items(N)), thrown : {"none", "missing", "failed"}, asked : BOOLEAN]

\* One run and, when nothing was thrown, another.
Then(run, r) == [log |-> run.log \o r.log, thrown |-> r.thrown, asked |-> run.asked \/ r.asked]

\* How many callbacks are called.
Stops(status, kinds) == {i \in DOMAIN kinds : kinds[i] = "schema" /\ status # "schema"}
LastCall(status, kinds) ==
  IF Stops(status, kinds) = {} THEN Len(kinds) ELSE Min(Stops(status, kinds))
Asking(status, kinds) == \E i \in 1..LastCall(status, kinds) : kinds[i] # "plain"
Failure(status, kinds) == IF Stops(status, kinds) = {} THEN "none" ELSE status
Called(status, kinds, who) == [i \in 1..LastCall(status, kinds) |-> <<kinds[i], who>>]

LEMMA LastCallIs ==
  ASSUME NEW status \in Statuses, NEW kinds \in Seq(CallbackKinds)
  PROVE  /\ LastCall(status, kinds) \in 0..Len(kinds)
         /\ Stops(status, kinds) # {} =>
              LastCall(status, kinds) \in 1..Len(kinds) /\ kinds[LastCall(status, kinds)] = "schema"
         /\ kinds # <<>> => LastCall(status, kinds) # 0
<1>1. Len(kinds) \in Nat /\ DOMAIN kinds = 1..Len(kinds) /\ (kinds # <<>> => Len(kinds) # 0)
  BY LenProperties, EmptySeq
<1>2. Stops(status, kinds) \in SUBSET Nat
  BY <1>1 DEF Stops
<1>3. Stops(status, kinds) # {} => Min(Stops(status, kinds)) \in Stops(status, kinds)
  BY <1>2, Least
<1>4. CASE Stops(status, kinds) = {}
  BY <1>1, <1>4 DEF LastCall
<1>5. CASE Stops(status, kinds) # {}
  <2>1. LastCall(status, kinds) \in Stops(status, kinds)
    BY <1>3, <1>5 DEF LastCall
  <2>2. LastCall(status, kinds) \in 1..Len(kinds) /\ kinds[LastCall(status, kinds)] = "schema"
    BY <1>1, <2>1 DEF Stops
  <2> QED  BY <1>1, <2>2
<1> QED  BY <1>4, <1>5

LEMMA CalledIs ==
  ASSUME NEW status \in Statuses, NEW kinds \in Seq(CallbackKinds), NEW N, NEW who \in N
  PROVE  /\ Called(status, kinds, who) \in Seq(Items(N))
         /\ Len(Called(status, kinds, who)) = LastCall(status, kinds)
         /\ \A i \in 1..LastCall(status, kinds) : Called(status, kinds, who)[i] = <<kinds[i], who>>
<1> DEFINE last == LastCall(status, kinds)
<1>1. last \in Nat /\ last <= Len(kinds) /\ Len(kinds) \in Nat
  BY LastCallIs, LenProperties
<1>2. \A i \in 1..last : <<kinds[i], who>> \in Items(N)
  <2> SUFFICES ASSUME NEW i \in 1..last PROVE <<kinds[i], who>> \in Items(N)
    OBVIOUS
  <2>1. i \in 1..Len(kinds)
    BY <1>1
  <2>2. kinds[i] \in CallbackKinds
    BY <2>1, ElementOfSeq
  <2> QED  BY <2>2 DEF Items
<1>3. Called(status, kinds, who) = [i \in 1..last |-> <<kinds[i], who>>]
  BY DEF Called
<1> HIDE DEF last
<1>4. Called(status, kinds, who) \in Seq(Items(N))
  BY <1>1, <1>2, <1>3, IsASeq
<1>5. Len(Called(status, kinds, who)) = last
  BY <1>1, <1>3, <1>4, LenProperties
<1> QED  BY <1>3, <1>4, <1>5 DEF last

LEMMA CallsIs ==
  ASSUME NEW status, NEW run, run.thrown = "none", NEW kinds, NEW who
  PROVE  Calls(status, run, kinds, who) =
           [log |-> run.log \o Called(status, kinds, who),
            asked |-> run.asked \/ Asking(status, kinds),
            thrown |-> Failure(status, kinds)]
BY DEF Calls, Called, LastCall, Stops, Asking, Failure

LEMMA CallsAlone ==
  ASSUME NEW status \in Statuses, NEW kinds \in Seq(CallbackKinds), NEW N, NEW who \in N
  PROVE  LET c == Calls(status, NoRun, kinds, who)
         IN  /\ c \in Runs(N)
             /\ \A i \in DOMAIN c.log : c.log[i][2] = who
             /\ "schema" \notin ToSet(kinds) \/ status = "schema" => c.thrown = "none"
             /\ kinds # <<>> => c.log # <<>>
             /\ c.log = Called(status, kinds, who)
<1> DEFINE c == Calls(status, NoRun, kinds, who)
<1>1. /\ Called(status, kinds, who) \in Seq(Items(N))
      /\ Len(Called(status, kinds, who)) = LastCall(status, kinds)
      /\ \A i \in 1..LastCall(status, kinds) : Called(status, kinds, who)[i] = <<kinds[i], who>>
  BY CalledIs
<1>2. <<>> \o Called(status, kinds, who) = Called(status, kinds, who)
  BY <1>1, ConcatEmptySeq
<1>3. NoRun.thrown = "none" /\ NoRun.log = <<>> /\ NoRun.asked = FALSE
  BY DEF NoRun
<1>6. c = [log |-> NoRun.log \o Called(status, kinds, who),
           asked |-> NoRun.asked \/ Asking(status, kinds), thrown |-> Failure(status, kinds)]
  BY <1>3, CallsIs
<1> HIDE DEF c
<1>4. c.log = Called(status, kinds, who)
  <2>1. c.log = NoRun.log \o Called(status, kinds, who)
    BY ONLY <1>6
  <2> QED  BY <1>2, <1>3, <2>1
<1>5. c.thrown = Failure(status, kinds)
  BY ONLY <1>6
<1>7. c \in Runs(N)
  <2>1. (NoRun.asked \/ Asking(status, kinds)) \in BOOLEAN
    OBVIOUS
  <2>2. Stops(status, kinds) # {} => status # "schema"
    BY DEF Stops
  <2>3. Failure(status, kinds) \in {"none", "missing", "failed"}
    BY <2>2 DEF Statuses, Failure
  <2> QED  BY <1>1, <1>2, <1>3, <1>6, <2>1, <2>3 DEF Runs
<1>8. \A i \in DOMAIN c.log : c.log[i][2] = who
  <2> SUFFICES ASSUME NEW i \in DOMAIN c.log PROVE c.log[i][2] = who
    OBVIOUS
  <2>1. i \in 1..LastCall(status, kinds)
    BY <1>1, <1>4, LenProperties
  <2> QED  BY <1>1, <1>4, <2>1
<1>9. "schema" \notin ToSet(kinds) \/ status = "schema" => Stops(status, kinds) = {}
  BY DEF Stops, ToSet
<1>10. kinds # <<>> => Called(status, kinds, who) # <<>>
  BY <1>1, LastCallIs, EmptySeq
<1>11. "schema" \notin ToSet(kinds) \/ status = "schema" => c.thrown = "none"
  BY <1>5, <1>9 DEF Failure
<1> QED  BY <1>4, <1>7, <1>8, <1>10, <1>11 DEF c

\* A callback that asks for nothing does the same whatever TDH says.
LEMMA CallsUnasked ==
  ASSUME NEW status \in Statuses, NEW other \in Statuses,
         NEW kinds \in Seq(CallbackKinds), NEW who,
         ~Calls(status, NoRun, kinds, who).asked
  PROVE  Calls(other, NoRun, kinds, who) = Calls(status, NoRun, kinds, who)
<1>1. NoRun.thrown = "none" /\ NoRun.asked = FALSE
  BY DEF NoRun
<1>2. Len(kinds) \in Nat /\ DOMAIN kinds = 1..Len(kinds)
  BY LenProperties
<1>3. ~\E i \in 1..LastCall(status, kinds) : kinds[i] # "plain"
  <2>1. Calls(status, NoRun, kinds, who).asked = (NoRun.asked \/ Asking(status, kinds))
    BY <1>1, CallsIs
  <2> QED  BY <2>1 DEF Asking
<1>4. Stops(status, kinds) = {}
  <2> SUFFICES ASSUME Stops(status, kinds) # {} PROVE FALSE
    OBVIOUS
  <2>1. LastCall(status, kinds) \in 1..Len(kinds) /\ kinds[LastCall(status, kinds)] = "schema"
    BY LastCallIs
  <2>2. LastCall(status, kinds) \in 1..LastCall(status, kinds)
    BY <1>2, <2>1
  <2> QED  BY <1>3, <2>1, <2>2
<1>5. LastCall(status, kinds) = Len(kinds)
  BY <1>4 DEF LastCall
<1>6. Stops(other, kinds) = {}
  BY <1>2, <1>3, <1>5 DEF Stops
<1>7. LastCall(other, kinds) = LastCall(status, kinds)
  BY <1>5, <1>6 DEF LastCall
<1>8. Called(other, kinds, who) = Called(status, kinds, who)
  BY <1>7 DEF Called
<1>9. Asking(other, kinds) = Asking(status, kinds) /\ Failure(other, kinds) = Failure(status, kinds)
  BY <1>4, <1>6, <1>7 DEF Asking, Failure
<1>10. Calls(status, NoRun, kinds, who)
         = [log |-> NoRun.log \o Called(status, kinds, who),
            asked |-> NoRun.asked \/ Asking(status, kinds), thrown |-> Failure(status, kinds)]
  BY <1>1, CallsIs
<1>11. Calls(other, NoRun, kinds, who)
         = [log |-> NoRun.log \o Called(other, kinds, who),
            asked |-> NoRun.asked \/ Asking(other, kinds), thrown |-> Failure(other, kinds)]
  BY <1>1, CallsIs
<1> QED  BY <1>8, <1>9, <1>10, <1>11

LEMMA CallsThen ==
  ASSUME NEW status \in Statuses, NEW kinds \in Seq(CallbackKinds), NEW who,
         NEW run, run.thrown = "none", run.asked \in BOOLEAN
  PROVE  Calls(status, run, kinds, who) = Then(run, Calls(status, NoRun, kinds, who))
<1> DEFINE a == Asking(status, kinds)
           t == Failure(status, kinds)
           c == Calls(status, NoRun, kinds, who)
<1>1. Calls(status, run, kinds, who)
        = [log |-> run.log \o Called(status, kinds, who), asked |-> run.asked \/ a, thrown |-> t]
  BY CallsIs
<1>2. c = [log |-> NoRun.log \o Called(status, kinds, who), asked |-> NoRun.asked \/ a, thrown |-> t]
  BY CallsIs DEF NoRun
<1>3. c.log = Called(status, kinds, who)
  <2> PICK N : who \in N
    <3>1. who \in {who}
      OBVIOUS
    <3> QED  BY <3>1
  <2> QED  BY CallsAlone
<1>4. NoRun.asked = FALSE
  BY DEF NoRun
<1> HIDE DEF a, t, c
<1>5. c.thrown = t /\ c.asked = (NoRun.asked \/ a)
  BY <1>2
<1>6. (run.asked \/ c.asked) = (run.asked \/ a)
  BY <1>4, <1>5
<1> QED  BY <1>1, <1>3, <1>5, <1>6 DEF Then, c

LEMMA RunIs ==
  ASSUME NEW N, NEW r \in Runs(N)
  PROVE  /\ r = [log |-> r.log, thrown |-> r.thrown, asked |-> r.asked]
         /\ r.log \in Seq(Items(N)) /\ r.thrown \in {"none", "missing", "failed"}
         /\ r.asked \in BOOLEAN
BY DEF Runs

LEMMA AskedIs ==
  ASSUME NEW N, NEW run \in Runs(N), NEW b \in BOOLEAN
  PROVE  /\ Asked(run, b) = [log |-> run.log, thrown |-> run.thrown, asked |-> run.asked \/ b]
         /\ Asked(run, b) \in Runs(N)

<1>1. Asked(run, b) = [log |-> run.log, thrown |-> run.thrown, asked |-> run.asked \/ b]
  BY DEF Asked, Runs
<1>2. (run.asked \/ b) \in BOOLEAN
  OBVIOUS
<1>3. Asked(run, b) \in Runs(N)
  BY <1>1, <1>2, RunIs DEF Runs
<1> QED  BY <1>1, <1>3

LEMMA NoRunIs ==
  ASSUME NEW N
  PROVE  /\ NoRun \in Runs(N) /\ NoRun.log = <<>> /\ NoRun.thrown = "none" /\ NoRun.asked = FALSE
         /\ \A b \in BOOLEAN : Asked(NoRun, b) = [log |-> <<>>, thrown |-> "none", asked |-> b]
<1>1. NoRun \in Runs(N) /\ NoRun.log = <<>> /\ NoRun.thrown = "none" /\ NoRun.asked = FALSE
  <2>1. <<>> \in Seq(Items(N))
    BY EmptySeq
  <2> QED  BY <2>1 DEF NoRun, Runs
<1>2. ASSUME NEW b \in BOOLEAN
      PROVE  Asked(NoRun, b) = [log |-> <<>>, thrown |-> "none", asked |-> b]
  BY DEF Asked, NoRun
<1> QED  BY <1>1, <1>2

LEMMA CatchIs ==
  ASSUME NEW N, NEW r \in Runs(N), NEW errors, NEW who \in N
  PROVE  LET c == Catch(r, errors, who)
         IN  /\ c \in Runs(N) /\ c.thrown # "missing" /\ c.asked = r.asked
             /\ r.thrown = "none" => c.thrown = "none"
<1>1. CASE r.thrown # "missing"
  BY <1>1, RunIs DEF Catch
<1>2. CASE r.thrown = "missing"
  <2> DEFINE log == IF errors THEN Append(r.log, <<"error", who>>) ELSE r.log
             c == Catch(r, errors, who)
  <2>1. c = [log |-> log, thrown |-> "none", asked |-> r.asked]
    BY <1>2 DEF Catch
  <2>2. <<"error", who>> \in Items(N) /\ r.log \in Seq(Items(N)) /\ r.asked \in BOOLEAN
    BY RunIs DEF Items
  <2>3. log \in Seq(Items(N))
    BY <2>2, AppendProperties
  <2> HIDE DEF log, c
  <2>4. c \in Runs(N)
    BY <2>1, <2>2, <2>3 DEF Runs
  <2>5. c.thrown = "none" /\ c.asked = r.asked
    BY ONLY <2>1
  <2> QED  BY <1>2, <2>4, <2>5 DEF c
<1> QED  BY <1>1, <1>2

\* An exception is caught the same way whatever was done before.
LEMMA CatchThen ==
  ASSUME NEW M, NEW run \in Runs(M), NEW N, NEW r \in Runs(N), NEW errors, NEW who \in N
  PROVE  Catch(Then(run, r), errors, who) = Then(run, Catch(r, errors, who))
<1>0. Then(run, r).thrown = r.thrown /\ Then(run, r).log = run.log \o r.log
      /\ Then(run, r).asked = (run.asked \/ r.asked)
  BY DEF Then
<1>1. CASE r.thrown # "missing"
  BY <1>0, <1>1 DEF Catch
<1>2. CASE r.thrown = "missing"
  <2> DEFINE item == <<"error", who>>
             c == Catch(r, errors, who)
             log == IF errors THEN Append(r.log, item) ELSE r.log
             all == IF errors THEN Append(run.log \o r.log, item) ELSE run.log \o r.log
  <2>1. c = [log |-> log, thrown |-> "none", asked |-> r.asked]
    BY <1>2 DEF Catch
  <2>2. Catch(Then(run, r), errors, who) = [log |-> all, thrown |-> "none", asked |-> run.asked \/ r.asked]
    BY <1>0, <1>2 DEF Catch
  <2>3. all = run.log \o log
    <3>1. /\ run.log \in Seq(Items(M \cup N)) /\ r.log \in Seq(Items(M \cup N))
          /\ item \in Items(M \cup N)
      <4>1. run.log \in Seq(Items(M)) /\ r.log \in Seq(Items(N))
        BY RunIs
      <4>2. Items(M) \subseteq Items(M \cup N) /\ Items(N) \subseteq Items(M \cup N)
        BY DEF Items
      <4>3. item \in Items(M \cup N)
        BY DEF Items
      <4> QED  BY <4>1, <4>2, <4>3, SeqMonotonic
    <3> HIDE DEF item
    <3>2. Append(run.log \o r.log, item) = run.log \o Append(r.log, item)
      <4> DEFINE I == Items(M \cup N)
                 s == run.log
                 t == r.log
      <4>1. s \in Seq(I) /\ t \in Seq(I) /\ item \in I
        BY <3>1
      <4> HIDE DEF I, s, t
      <4>2. <<item>> \in Seq(I) /\ s \o t \in Seq(I)
        BY <4>1, ConcatProperties
      <4>3. Append(s \o t, item) = (s \o t) \o <<item>>
        BY <4>1, <4>2, AppendIsConcat
      <4>4. Append(t, item) = t \o <<item>>
        BY <4>1, AppendIsConcat
      <4>5. (s \o t) \o <<item>> = s \o (t \o <<item>>)
        BY <4>1, <4>2, ConcatAssociative
      <4>6. Append(s \o t, item) = s \o Append(t, item)
        BY <4>3, <4>4, <4>5
      <4> QED  BY <4>6 DEF s, t
    <3> QED  BY <3>2
  <2> HIDE DEF c, log, all
  <2>4. c.log = log /\ c.thrown = "none" /\ c.asked = r.asked
    BY ONLY <2>1
  <2> QED  BY <2>2, <2>3, <2>4 DEF Then, c
<1> QED  BY <1>1, <1>2

\* What is said of a filter and of the predicate in it.
Sound(e, f) ==
  /\ f.callbacks \in Seq(CallbackKinds)
  /\ \A s \in Statuses :
       /\ Eval(e, s, f.predicate).v \in {"true", "false", "missing", "failed"}
       /\ Eval(e, s, f.predicate).asked \in BOOLEAN
       /\ ~Eval(e, s, f.predicate).asked =>
            \A other \in Statuses : Eval(e, other, f.predicate) = Eval(e, s, f.predicate)

\* A filter before it catches what its predicate or its callbacks let out.
Judging(status, run, f, r) ==
  IF r.v = "true" THEN Calls(status, Asked(run, r.asked), f.callbacks, f.name)
  ELSE [Asked(run, r.asked) EXCEPT !.thrown = r.v]

LEMMA FilterIs ==
  ASSUME NEW e, NEW status, NEW run, NEW f, run.thrown = "none"
  PROVE  LET r == Eval(e, status, f.predicate)
         IN  FilterOnEvent(e, status, run, f) =
               IF f.callbacks = <<>> THEN run
               ELSE IF r.v = "false" THEN Asked(run, r.asked)
               ELSE Catch(Judging(status, run, f, r), f.errors, f.name)
BY DEF FilterOnEvent, AfterPredicate, Judging

LEMMA NothingThrown ==
  ASSUME NEW M, NEW run \in Runs(M), run.thrown = "none"
  PROVE  run = Then(run, NoRun)
<1>1. run.log \o <<>> = run.log
  BY RunIs, ConcatEmptySeq
<1>2. NoRun.log = <<>> /\ NoRun.thrown = "none" /\ NoRun.asked = FALSE
  BY NoRunIs
<1>3. (run.asked \/ FALSE) = run.asked
  BY RunIs
<1>4. Then(run, NoRun) = [log |-> run.log, thrown |-> run.thrown, asked |-> run.asked]
  BY <1>1, <1>2, <1>3 DEF Then
<1> QED  BY <1>4, RunIs

LEMMA AskedThen ==
  ASSUME NEW M, NEW run \in Runs(M), run.thrown = "none", NEW b \in BOOLEAN
  PROVE  Asked(run, b) = Then(run, Asked(NoRun, b))
<1> DEFINE a == Asked(NoRun, b)
<1>1. a = [log |-> <<>>, thrown |-> "none", asked |-> b]
  BY NoRunIs
<1> HIDE DEF a
<1>2. a.log = <<>> /\ a.thrown = "none" /\ a.asked = b
  BY ONLY <1>1
<1>3. run.log \o <<>> = run.log
  BY RunIs, ConcatEmptySeq
<1>4. Asked(run, b) = [log |-> run.log, thrown |-> run.thrown, asked |-> run.asked \/ b]
  BY AskedIs
<1> QED  BY <1>2, <1>3, <1>4 DEF Then, a

\* What comes before does not change what a filter adds to it.
LEMMA JudgingThen ==
  ASSUME NEW M, NEW run \in Runs(M), run.thrown = "none",
         NEW status \in Statuses, NEW f, f.callbacks \in Seq(CallbackKinds),
         NEW r, r.v \in {"true", "missing", "failed"}, r.asked \in BOOLEAN
  PROVE  /\ Judging(status, NoRun, f, r) \in Runs({f.name})
         /\ Judging(status, run, f, r) = Then(run, Judging(status, NoRun, f, r))
<1> DEFINE b == r.asked
           a == Asked(NoRun, b)
           o == Asked(run, b)
           c == Calls(status, NoRun, f.callbacks, f.name)
<1>0. b \in BOOLEAN
  OBVIOUS
<1>1. a = [log |-> <<>>, thrown |-> "none", asked |-> b]
  BY <1>0, NoRunIs
<1>2. o = [log |-> run.log, thrown |-> run.thrown, asked |-> run.asked \/ b]
  BY <1>0, AskedIs
<1>3. c \in Runs({f.name})
  BY CallsAlone
<1>4. run.asked \in BOOLEAN /\ run.log \in Seq(Items(M))
  BY RunIs
<1>5. /\ c.log \in Seq(Items({f.name})) /\ c.asked \in BOOLEAN
      /\ c.thrown \in {"none", "missing", "failed"}
  BY <1>3, RunIs
<1>6. <<>> \o c.log = c.log /\ run.log \o <<>> = run.log
  BY <1>4, <1>5, ConcatEmptySeq
<1> HIDE DEF a, o, b
<1>7. a.log = <<>> /\ a.thrown = "none" /\ a.asked = b
  BY ONLY <1>1
<1>8. o.log = run.log /\ o.thrown = "none" /\ o.asked = (run.asked \/ b)
  BY ONLY <1>2, run.thrown = "none"
<1>9. CASE r.v = "true"
  <2> DEFINE j == Judging(status, NoRun, f, r)
  <2>1. j = Calls(status, a, f.callbacks, f.name)
    BY <1>9 DEF Judging, a, b
  <2>2. Judging(status, run, f, r) = Calls(status, o, f.callbacks, f.name)
    BY <1>9 DEF Judging, o, b
  <2>3. Calls(status, a, f.callbacks, f.name) = Then(a, c)
    BY <1>0, <1>7, CallsThen
  <2>4. (run.asked \/ b) \in BOOLEAN
    BY <1>0, <1>4
  <2>5. Calls(status, o, f.callbacks, f.name) = Then(o, c)
    BY <1>8, <2>4, CallsThen
  <2> HIDE DEF c, j
  <2>6. j = [log |-> c.log, thrown |-> c.thrown, asked |-> b \/ c.asked]
    BY <1>6, <1>7, <2>1, <2>3 DEF Then
  <2>7. j.log = c.log /\ j.thrown = c.thrown /\ j.asked = (b \/ c.asked)
    BY ONLY <2>6
  <2>8. Judging(status, run, f, r) = [log |-> run.log \o c.log, thrown |-> c.thrown,
                                      asked |-> (run.asked \/ b) \/ c.asked]
    BY <1>8, <2>2, <2>5 DEF Then
  <2>9. j \in Runs({f.name})
    <3>1. (b \/ c.asked) \in BOOLEAN
      OBVIOUS
    <3> QED  BY <1>5, <2>6, <3>1 DEF Runs
  <2>10. ((run.asked \/ b) \/ c.asked) = (run.asked \/ (b \/ c.asked))
    OBVIOUS
  <2> QED  BY <2>7, <2>8, <2>9, <2>10 DEF Then, j
<1>10. CASE r.v # "true"
  <2> DEFINE j == Judging(status, NoRun, f, r)
  <2>1. j = [a EXCEPT !.thrown = r.v]
    BY <1>10 DEF Judging, a, b
  <2>2. Judging(status, run, f, r) = [o EXCEPT !.thrown = r.v]
    BY <1>10 DEF Judging, o, b
  <2> HIDE DEF j
  <2>3. j = [log |-> <<>>, thrown |-> r.v, asked |-> b]
    BY <1>1, <2>1
  <2>4. Judging(status, run, f, r) = [log |-> run.log, thrown |-> r.v, asked |-> run.asked \/ b]
    BY <1>2, <2>2
  <2>5. j.log = <<>> /\ j.thrown = r.v /\ j.asked = b
    BY ONLY <2>3
  <2>6. j \in Runs({f.name})
    <3>1. <<>> \in Seq(Items({f.name}))
      BY EmptySeq
    <3> QED  BY <1>0, <1>10, <2>3, <3>1 DEF Runs
  <2> QED  BY <1>6, <2>4, <2>5, <2>6 DEF Then, j
<1> QED  BY <1>9, <1>10

\* A filter alone: it names only itself and lets no missing schema out.
LEMMA FilterAlone ==
  ASSUME NEW e, NEW f, Sound(e, f), NEW status \in Statuses
  PROVE  LET a == FilterOnEvent(e, status, NoRun, f)
         IN  a \in Runs({f.name}) /\ a.thrown # "missing"
<1> DEFINE r == Eval(e, status, f.predicate)
<1>1. /\ r.v \in {"true", "false", "missing", "failed"} /\ r.asked \in BOOLEAN
      /\ f.callbacks \in Seq(CallbackKinds)
  BY DEF Sound
<1>2. NoRun \in Runs({f.name}) /\ NoRun.thrown = "none"
  BY NoRunIs
<1> HIDE DEF r
<1>3. FilterOnEvent(e, status, NoRun, f) =
        IF f.callbacks = <<>> THEN NoRun
        ELSE IF r.v = "false" THEN Asked(NoRun, r.asked)
        ELSE Catch(Judging(status, NoRun, f, r), f.errors, f.name)
  BY <1>2, FilterIs DEF r
<1>4. Asked(NoRun, r.asked) \in Runs({f.name}) /\ Asked(NoRun, r.asked).thrown = "none"
  <2>1. Asked(NoRun, r.asked) = [log |-> <<>>, thrown |-> "none", asked |-> r.asked]
    BY <1>1, NoRunIs
  <2> QED  BY <1>1, <1>2, <2>1, AskedIs
<1>5. ASSUME r.v # "false"
      PROVE  /\ Catch(Judging(status, NoRun, f, r), f.errors, f.name) \in Runs({f.name})
             /\ Catch(Judging(status, NoRun, f, r), f.errors, f.name).thrown # "missing"
  <2>1. Judging(status, NoRun, f, r) \in Runs({f.name})
    BY <1>1, <1>2, <1>5, JudgingThen
  <2> QED  BY <2>1, CatchIs
<1> QED  BY <1>2, <1>3, <1>4, <1>5

\* A filter behind others adds what it does alone; behind an exception, nothing.
LEMMA FilterThen ==
  ASSUME NEW e, NEW f, Sound(e, f), NEW status \in Statuses, NEW M, NEW run \in Runs(M)
  PROVE  FilterOnEvent(e, status, run, f) =
           IF run.thrown = "none" THEN Then(run, FilterOnEvent(e, status, NoRun, f)) ELSE run
<1> DEFINE r == Eval(e, status, f.predicate)
<1>1. /\ r.v \in {"true", "false", "missing", "failed"} /\ r.asked \in BOOLEAN
      /\ f.callbacks \in Seq(CallbackKinds)
  BY DEF Sound
<1>2. NoRun \in Runs({f.name}) /\ NoRun.thrown = "none"
  BY NoRunIs
<1>3. CASE run.thrown # "none"
  BY <1>3 DEF FilterOnEvent, AfterPredicate
<1>4. CASE run.thrown = "none"
  <2>1. FilterOnEvent(e, status, NoRun, f) =
          IF f.callbacks = <<>> THEN NoRun
          ELSE IF r.v = "false" THEN Asked(NoRun, r.asked)
          ELSE Catch(Judging(status, NoRun, f, r), f.errors, f.name)
    BY <1>2, FilterIs
  <2>2. FilterOnEvent(e, status, run, f) =
          IF f.callbacks = <<>> THEN run
          ELSE IF r.v = "false" THEN Asked(run, r.asked)
          ELSE Catch(Judging(status, run, f, r), f.errors, f.name)
    BY <1>4, FilterIs
  <2> HIDE DEF r
  <2>3. run = Then(run, NoRun)
    BY <1>4, NothingThrown
  <2>4. Asked(run, r.asked) = Then(run, Asked(NoRun, r.asked))
    BY <1>1, <1>4, AskedThen
  <2>5. ASSUME r.v # "false"
        PROVE  Catch(Judging(status, run, f, r), f.errors, f.name)
                 = Then(run, Catch(Judging(status, NoRun, f, r), f.errors, f.name))
    <3>1. /\ Judging(status, NoRun, f, r) \in Runs({f.name})
          /\ Judging(status, run, f, r) = Then(run, Judging(status, NoRun, f, r))
      <4>1. r.v \in {"true", "missing", "failed"} /\ r.asked \in BOOLEAN
            /\ f.callbacks \in Seq(CallbackKinds)
        BY <1>1, <2>5
      <4> QED  BY ONLY <1>4, <4>1, run \in Runs(M), status \in Statuses, JudgingThen
    <3> QED  BY <3>1, CatchThen
  <2>6. CASE f.callbacks = <<>>
    BY <1>4, <2>1, <2>2, <2>3, <2>6
  <2>7. CASE f.callbacks # <<>> /\ r.v = "false"
    BY <1>4, <2>1, <2>2, <2>4, <2>7
  <2>8. CASE f.callbacks # <<>> /\ r.v # "false"
    BY <1>4, <2>1, <2>2, <2>5, <2>8
  <2> QED  BY <2>6, <2>7, <2>8
<1> QED  BY <1>3, <1>4

LEMMA RunsGrow ==
  ASSUME NEW N, NEW M, M \subseteq N, NEW r \in Runs(M)
  PROVE  r \in Runs(N)
<1>1. /\ r = [log |-> r.log, thrown |-> r.thrown, asked |-> r.asked]
      /\ r.log \in Seq(Items(M)) /\ r.thrown \in {"none", "missing", "failed"}
      /\ r.asked \in BOOLEAN
  BY RunIs
<1>2. Items(M) \subseteq Items(N)
  BY DEF Items
<1>3. r.log \in Seq(Items(N))
  BY <1>1, <1>2, SeqMonotonic
<1> QED  BY <1>1, <1>3 DEF Runs

LEMMA ThenIs ==
  ASSUME NEW N, NEW run \in Runs(N), NEW r \in Runs(N)
  PROVE  Then(run, r) \in Runs(N)
<1>1. /\ run.log \in Seq(Items(N)) /\ run.asked \in BOOLEAN /\ r.log \in Seq(Items(N))
      /\ r.asked \in BOOLEAN /\ r.thrown \in {"none", "missing", "failed"}
  BY RunIs
<1>2. run.log \o r.log \in Seq(Items(N)) /\ (run.asked \/ r.asked) \in BOOLEAN
  BY <1>1, ConcatProperties
<1> QED  BY <1>1, <1>2 DEF Then, Runs

\* A filter that asks for no schema does the same whatever TDH says.
LEMMA FilterUnasked ==
  ASSUME NEW e, NEW f, Sound(e, f), NEW status \in Statuses, NEW other \in Statuses,
         ~FilterOnEvent(e, status, NoRun, f).asked
  PROVE  FilterOnEvent(e, other, NoRun, f) = FilterOnEvent(e, status, NoRun, f)
<1> DEFINE r == Eval(e, status, f.predicate)
           q == Eval(e, other, f.predicate)
           a == Asked(NoRun, r.asked)
           j == Judging(status, NoRun, f, r)
<1>1. /\ r.v \in {"true", "false", "missing", "failed"} /\ r.asked \in BOOLEAN
      /\ f.callbacks \in Seq(CallbackKinds) /\ (~r.asked => q = r)
  BY DEF Sound
<1>2. NoRun \in Runs({f.name}) /\ NoRun.thrown = "none"
  BY NoRunIs
<1>3. FilterOnEvent(e, status, NoRun, f) =
        IF f.callbacks = <<>> THEN NoRun
        ELSE IF r.v = "false" THEN a ELSE Catch(j, f.errors, f.name)
  BY <1>2, FilterIs
<1>4. FilterOnEvent(e, other, NoRun, f) =
        IF f.callbacks = <<>> THEN NoRun
        ELSE IF q.v = "false" THEN Asked(NoRun, q.asked)
        ELSE Catch(Judging(other, NoRun, f, q), f.errors, f.name)
  BY <1>2, FilterIs
<1> HIDE DEF r, q
<1>5. a = [log |-> <<>>, thrown |-> "none", asked |-> r.asked]
  BY <1>1, NoRunIs
<1> HIDE DEF a, j
<1>6. a.asked = r.asked /\ a.thrown = "none" /\ a.log = <<>>
  BY ONLY <1>5
<1>7. CASE f.callbacks = <<>>
  BY <1>3, <1>4, <1>7
<1>8. CASE f.callbacks # <<>> /\ r.v = "false"
  <2>1. q = r
    BY <1>1, <1>3, <1>6, <1>8
  <2> QED  BY <1>3, <1>4, <1>8, <2>1 DEF a
<1>9. CASE f.callbacks # <<>> /\ r.v = "true"
  <2> DEFINE c == Calls(status, NoRun, f.callbacks, f.name)
  <2>1. j = Calls(status, a, f.callbacks, f.name)
    BY <1>9 DEF Judging, a, j
  <2>2. j = Then(a, c)
    BY <1>1, <1>6, <2>1, CallsThen
  <2>3. j.asked = (r.asked \/ c.asked)
    BY <1>6, <2>2 DEF Then
  <2>4. j \in Runs({f.name})
    BY <1>1, <1>2, <1>9, JudgingThen DEF j
  <2>5. ~j.asked
    <3>1. Catch(j, f.errors, f.name).asked = j.asked
      BY <2>4, CatchIs
    <3> QED  BY <1>3, <1>9, <3>1
  <2>6. q = r /\ ~c.asked
    BY <1>1, <2>3, <2>5
  <2>7. Calls(other, NoRun, f.callbacks, f.name) = c
    BY <1>1, <2>6, CallsUnasked
  <2>8. Judging(other, NoRun, f, q) = Calls(other, a, f.callbacks, f.name)
    BY <1>9, <2>6 DEF Judging, a
  <2>9. Calls(other, a, f.callbacks, f.name) = Then(a, Calls(other, NoRun, f.callbacks, f.name))
    BY <1>1, <1>6, CallsThen
  <2> QED  BY <1>3, <1>4, <1>9, <2>2, <2>6, <2>7, <2>8, <2>9
<1>10. CASE f.callbacks # <<>> /\ r.v \in {"missing", "failed"}
  <2>1. j = [a EXCEPT !.thrown = r.v]
    BY <1>10 DEF Judging, a, j
  <2>2. j = [log |-> <<>>, thrown |-> r.v, asked |-> r.asked]
    BY <1>5, <2>1
  <2>3. j \in Runs({f.name})
    BY <1>1, <1>2, <1>10, JudgingThen DEF j
  <2>4. Catch(j, f.errors, f.name).asked = j.asked
    BY <2>3, CatchIs
  <2>5. j.asked = r.asked
    BY ONLY <2>2
  <2>6. q = r
    BY <1>1, <1>3, <1>10, <2>4, <2>5
  <2>7. Judging(other, NoRun, f, q) = j
    BY <1>10, <2>6 DEF Judging, a, j
  <2> QED  BY <1>3, <1>4, <1>10, <2>6, <2>7
<1> QED  BY <1>1, <1>7, <1>8, <1>9, <1>10

------------------------------------------------------------------------------
(* A provider: its callbacks and then its filters.                         *)

Voices(p) == {p.name} \cup FilterNames(p)

Ear(e, p) ==
  /\ p.callbacks \in Seq(CallbackKinds) /\ p.filters \in Seq(FiltersOf(p))
  /\ \A f \in FiltersOf(p) : Sound(e, f)
  /\ \A i, j \in DOMAIN p.filters : p.filters[i].name = p.filters[j].name => i = j
  /\ p.name \notin FilterNames(p)

Alone(e, status, f) == FilterOnEvent(e, status, NoRun, f)

\* What was done after the callbacks and each of the filters.
Course(e, status, run, p, after) ==
  /\ after \in [0..Len(p.filters) -> Runs(Voices(p))]
  /\ after[0] = Calls(status, run, p.callbacks, p.name)
  /\ \A n \in 1..Len(p.filters) :
       after[n] = FilterOnEvent(e, status, after[n - 1], p.filters[n])
  /\ ProviderOnEvent(e, status, run, p) = Catch(after[Len(p.filters)], p.errors, p.name)

LEMMA EveryFilter ==
  ASSUME NEW e, NEW p, Ear(e, p)
  PROVE  /\ Len(p.filters) \in Nat /\ DOMAIN p.filters = 1..Len(p.filters)
         /\ \A n \in 1..Len(p.filters) :
              /\ p.filters[n] \in FiltersOf(p) /\ Sound(e, p.filters[n])
              /\ p.filters[n].name \in FilterNames(p)
<1>1. Len(p.filters) \in Nat /\ DOMAIN p.filters = 1..Len(p.filters)
  BY LenProperties DEF Ear
<1>2. ASSUME NEW n \in 1..Len(p.filters) PROVE p.filters[n] \in FiltersOf(p)
  BY ElementOfSeq DEF Ear
<1> QED  BY <1>1, <1>2 DEF Ear, FilterNames

LEMMA FilterRuns ==
  ASSUME NEW e, NEW p, Ear(e, p), NEW status \in Statuses, NEW n \in 1..Len(p.filters),
         NEW run \in Runs(Voices(p))
  PROVE  FilterOnEvent(e, status, run, p.filters[n]) \in Runs(Voices(p))
<1> DEFINE f == p.filters[n]
<1>1. Sound(e, f) /\ {f.name} \subseteq Voices(p)
  BY EveryFilter DEF Voices
<1> HIDE DEF f
<1>2. FilterOnEvent(e, status, NoRun, f) \in Runs({f.name})
  BY <1>1, FilterAlone
<1>3. FilterOnEvent(e, status, NoRun, f) \in Runs(Voices(p))
  BY <1>1, <1>2, RunsGrow
<1>4. Then(run, FilterOnEvent(e, status, NoRun, f)) \in Runs(Voices(p))
  BY <1>3, ThenIs
<1>5. FilterOnEvent(e, status, run, f) =
           IF run.thrown = "none" THEN Then(run, FilterOnEvent(e, status, NoRun, f)) ELSE run
  BY <1>1, FilterThen
<1> QED  BY <1>4, <1>5 DEF f

LEMMA ProviderCourse ==
  ASSUME NEW e, NEW p, Ear(e, p), NEW status \in Statuses,
         NEW run \in Runs(Voices(p)), run.thrown = "none"
  PROVE  \E after : Course(e, status, run, p, after)
<1> DEFINE N == Len(p.filters)
           S == Runs(Voices(p))
           base == Calls(status, run, p.callbacks, p.name)
           One(q, n) == FilterOnEvent(e, status, q, p.filters[n])
           Whole(f) == [n \in 0..N |-> IF n = 0 THEN base
                                       ELSE FilterOnEvent(e, status, f[n - 1], p.filters[n])]
           step == [n \in 1..N |-> [q \in S |-> One(q, n)]]
<1>0. base \in S
  <2>1. Calls(status, NoRun, p.callbacks, p.name) \in Runs(Voices(p))
    BY CallsAlone DEF Ear, Voices
  <2>2. base = Then(run, Calls(status, NoRun, p.callbacks, p.name))
    BY RunIs, CallsThen DEF Ear
  <2> QED  BY <2>1, <2>2, ThenIs
<1> HIDE DEF base
<1>1. N \in Nat /\ base \in S
  BY <1>0, EveryFilter
<1>2. \A n \in 1..N : \A q \in S : One(q, n) \in S
  BY FilterRuns
<1>3. PICK f \in [0..N -> S] : f[0] = base /\ \A n \in 1..N : f[n] = One(f[n - 1], n)
  <2> HIDE DEF N, S, One
  <2>1. step \in [1..N -> [S -> S]]
    BY <1>2
  <2> HIDE DEF step
  <2>2. PICK Q, b, g, m : Q = S /\ b = base /\ g = step /\ m = N
    OBVIOUS
  <2>3. b \in Q /\ m \in Nat /\ g \in [1..m -> [Q -> Q]]
    BY <1>1, <2>1, <2>2
  <2>4. PICK f \in [0..m -> Q] : f[0] = b /\ \A n \in 1..m : f[n] = g[n][f[n - 1]]
    BY ONLY <2>3, Recursion, Z3
  <2>5. \A n \in 1..N : f[n] = One(f[n - 1], n)
    <3> SUFFICES ASSUME NEW n \in 1..N PROVE f[n] = One(f[n - 1], n)
      OBVIOUS
    <3>1. n - 1 \in 0..m /\ f[n - 1] \in S /\ n \in 1..m
      BY <1>1, <2>2, <2>4
    <3>2. step[n] = [q \in S |-> One(q, n)]
      BY DEF step
    <3> QED  BY <2>2, <2>4, <3>1, <3>2
  <2> QED  BY <2>2, <2>4, <2>5
<1>4. f = Whole(f)
  <2>1. \A n \in 1..N : f[n] = FilterOnEvent(e, status, f[n - 1], p.filters[n])
    BY <1>3 DEF One
  <2> HIDE DEF N, S, One
  <2> QED  BY <1>1, <1>3, <2>1
<1> DEFINE h == CHOOSE g : g = Whole(g)
<1>5. h = Whole(h)
  <2> HIDE DEF Whole
  <2> QED  BY <1>4
<1>6. ProviderOnEvent(e, status, run, p) = Catch(h[N], p.errors, p.name)
  BY DEF ProviderOnEvent, base
<1> HIDE DEF h, S
<1>7. 0..N \subseteq {n \in 0..N : h[n] = f[n]}
  <2> DEFINE T == {n \in 0..N : h[n] = f[n]}
  <2>1. 0 \in T
    BY <1>1, <1>3, <1>5
  <2>2. ASSUME NEW n \in 0..(N - 1), n \in T PROVE n + 1 \in T
    <3>1. n + 1 \in 1..N /\ (n + 1) - 1 = n /\ n + 1 # 0 /\ n + 1 \in 0..N
      BY <1>1
    <3>2. h[n + 1] = One(h[n], n + 1)
      BY <1>5, <3>1
    <3>3. f[n + 1] = One(f[n], n + 1)
      BY <1>3, <3>1
    <3> HIDE DEF One, N
    <3> QED  BY <2>2, <3>1, <3>2, <3>3
  <2> HIDE DEF T, N
  <2>3. 0..N \subseteq T
    BY <1>1, <2>1, <2>2, Upwards
  <2> QED  BY <2>3 DEF T
<1>8. h = f
  <2> HIDE DEF N
  <2>1. DOMAIN h = 0..N /\ h = [n \in 0..N |-> h[n]]
    BY <1>5
  <2> QED  BY <1>3, <1>7, <2>1
<1>9. Course(e, status, run, p, f)
  BY <1>3, <1>6, <1>8 DEF S, Course, base
<1> QED  BY <1>9

LEMMA ProviderIs ==
  ASSUME NEW e, NEW p, Ear(e, p), NEW status \in Statuses,
         NEW run \in Runs(Voices(p)), run.thrown = "none"
  PROVE  /\ ProviderOnEvent(e, status, run, p) \in Runs(Voices(p))
         /\ ProviderOnEvent(e, status, run, p).thrown # "missing"
<1>1. PICK after : Course(e, status, run, p, after)
  BY ProviderCourse
<1>2. Len(p.filters) \in Nat
  BY EveryFilter
<1>3. after[Len(p.filters)] \in Runs(Voices(p)) /\ p.name \in Voices(p)
  <2>1. Len(p.filters) \in 0..Len(p.filters)
    BY <1>2
  <2>2. after[Len(p.filters)] \in Runs(Voices(p))
    BY <1>1, <2>1 DEF Course
  <2> QED  BY <2>2 DEF Voices
<1> QED  BY <1>1, <1>3, CatchIs DEF Course

\* One filter further.
Further(e, status, p, f, before, next) ==
  /\ Sound(e, f) /\ f.name \in FilterNames(p)
  /\ before \in Runs(Voices(p)) /\ next \in Runs(Voices(p))
  /\ Alone(e, status, f) \in Runs({f.name}) /\ Alone(e, status, f).thrown # "missing"
  /\ before.thrown = "none" => next = Then(before, Alone(e, status, f))
  /\ before.thrown # "none" => next = before

LEMMA CourseGoesOn ==
  ASSUME NEW e, NEW p, Ear(e, p), NEW status \in Statuses, NEW run,
         NEW after, Course(e, status, run, p, after), NEW n \in 0..(Len(p.filters) - 1)
  PROVE  n + 1 \in 1..Len(p.filters) /\ Further(e, status, p, p.filters[n + 1], after[n], after[n + 1])
<1>1. /\ Len(p.filters) \in Nat
      /\ \A k \in 1..Len(p.filters) : Sound(e, p.filters[k]) /\ p.filters[k].name \in FilterNames(p)
  BY EveryFilter
<1>2. n + 1 \in 1..Len(p.filters) /\ (n + 1) - 1 = n /\ n \in 0..Len(p.filters)
  BY <1>1
<1> DEFINE f == p.filters[n + 1]
<1>3. Sound(e, f) /\ f.name \in FilterNames(p)
  BY <1>1, <1>2
<1>4. /\ after[n] \in Runs(Voices(p)) /\ after[n + 1] \in Runs(Voices(p))
      /\ after[n + 1] = FilterOnEvent(e, status, after[n], f)
  <2> HIDE DEF f
  <2>1. n + 1 \in 0..Len(p.filters)
    BY <1>1, <1>2
  <2>2. after[n + 1] = FilterOnEvent(e, status, after[(n + 1) - 1], p.filters[n + 1])
    BY <1>2 DEF Course
  <2> QED  BY <1>2, <2>1, <2>2 DEF Course, f
<1> HIDE DEF f
<1>5. Alone(e, status, f) \in Runs({f.name}) /\ Alone(e, status, f).thrown # "missing"
  BY <1>3, FilterAlone DEF Alone
<1>6. FilterOnEvent(e, status, after[n], f) =
           IF after[n].thrown = "none" THEN Then(after[n], FilterOnEvent(e, status, NoRun, f))
           ELSE after[n]
  BY <1>3, <1>4, FilterThen
<1>7. /\ after[n].thrown = "none" => after[n + 1] = Then(after[n], Alone(e, status, f))
      /\ after[n].thrown # "none" => after[n + 1] = after[n]
  BY <1>4, <1>6 DEF Alone
<1>8. Further(e, status, p, f, after[n], after[n + 1])
  BY <1>3, <1>4, <1>5, <1>7 DEF Further
<1> QED  BY <1>2, <1>8 DEF f

\* A provider that asks for no schema does the same whatever TDH says.
LEMMA ProviderUnasked ==
  ASSUME NEW e, NEW p, Ear(e, p), NEW status \in Statuses, NEW other \in Statuses,
         NEW run \in Runs(Voices(p)), run.thrown = "none",
         ~ProviderOnEvent(e, status, run, p).asked
  PROVE  ProviderOnEvent(e, other, run, p) = ProviderOnEvent(e, status, run, p)
<1>1. PICK a : Course(e, status, run, p, a)
  BY ProviderCourse
<1>2. PICK b : Course(e, other, run, p, b)
  BY ProviderCourse
<1> DEFINE N == Len(p.filters)
           T == {n \in 0..N : a[n].asked \/ b[n] = a[n]}
<1>3. N \in Nat
  BY EveryFilter
<1>4. 0 \in T
  <2> DEFINE c(s) == Calls(s, NoRun, p.callbacks, p.name)
  <2>1. a[0] = Then(run, c(status)) /\ b[0] = Then(run, c(other))
    BY <1>1, <1>2, CallsThen, RunIs DEF Course, Ear
  <2>2. ~c(status).asked => c(other) = c(status)
    BY CallsUnasked DEF Ear
  <2> HIDE DEF c
  <2>3. a[0].asked = (run.asked \/ c(status).asked)
    BY <2>1 DEF Then
  <2>4. a[0].asked \/ b[0] = a[0]
    BY <2>1, <2>2, <2>3
  <2>5. 0 \in 0..N
    BY <1>3
  <2> HIDE DEF N
  <2> QED  BY <2>4, <2>5
<1>5. ASSUME NEW n \in 0..(N - 1), n \in T PROVE n + 1 \in T
  <2> DEFINE f == p.filters[n + 1]
             A == Alone(e, status, f)
             B == Alone(e, other, f)
  <2>1. /\ Sound(e, f)
        /\ a[n].thrown = "none" => a[n + 1] = Then(a[n], A)
        /\ a[n].thrown # "none" => a[n + 1] = a[n]
    <3>1. Further(e, status, p, f, a[n], a[n + 1])
      BY <1>1, CourseGoesOn
    <3> HIDE DEF f
    <3> QED  BY <3>1 DEF Further
  <2>2. /\ b[n].thrown = "none" => b[n + 1] = Then(b[n], B)
        /\ b[n].thrown # "none" => b[n + 1] = b[n]
    <3>1. Further(e, other, p, f, b[n], b[n + 1])
      BY <1>2, CourseGoesOn
    <3> HIDE DEF f
    <3> QED  BY <3>1 DEF Further
  <2>3. ~A.asked => B = A
    BY <2>1, FilterUnasked DEF Alone
  <2>4. n + 1 \in 0..N
    BY <1>3
  <2> HIDE DEF f, A, B, N
  <2>5. a[n].thrown = "none" => a[n + 1].asked = (a[n].asked \/ A.asked)
    BY <2>1 DEF Then
  <2>6. CASE a[n].asked
    BY <2>1, <2>4, <2>5, <2>6
  <2>7. CASE b[n] = a[n]
    BY <2>1, <2>2, <2>3, <2>4, <2>5, <2>7
  <2> QED  BY <1>5, <2>6, <2>7
<1>6. N \in T
  <2> HIDE DEF T, N
  <2>1. 0..N \subseteq T
    BY <1>3, <1>4, <1>5, Upwards
  <2> QED  BY <1>3, <2>1
<1>7. a[N] \in Runs(Voices(p)) /\ p.name \in Voices(p)
  <2>1. N \in 0..N
    BY <1>3
  <2>2. a[N] \in Runs(Voices(p))
    BY <1>1, <2>1 DEF Course
  <2> HIDE DEF N, T
  <2> QED  BY <2>2 DEF Voices
<1>8. Catch(a[N], p.errors, p.name).asked = a[N].asked
  BY <1>7, CatchIs
<1>9. ~a[N].asked
  BY <1>1, <1>8 DEF Course
<1>10. b[N] = a[N]
  BY <1>6, <1>9
<1> QED  BY <1>1, <1>2, <1>10 DEF Course

------------------------------------------------------------------------------
(* What one filter does is one part of what is done.                       *)

Part(log, name, own) ==
  \E from, to \in 0..Len(log) :
     /\ SubSeq(log, from + 1, to) = own
     /\ \A i \in DOMAIN log : log[i][2] = name <=> i \in (from + 1)..to

LEMMA PartStays ==
  ASSUME NEW S, NEW log \in Seq(S), NEW more \in Seq(S), NEW name, NEW own,
         Part(log, name, own), \A i \in 1..Len(more) : more[i][2] # name
  PROVE  Part(log \o more, name, own)
<1> DEFINE all == log \o more
<1>1. /\ Len(log) \in Nat /\ Len(more) \in Nat /\ DOMAIN log = 1..Len(log)
      /\ log \in [1..Len(log) -> S]
  BY LenProperties
<1>2. /\ all \in Seq(S) /\ Len(all) = Len(log) + Len(more)
      /\ \A i \in 1..(Len(log) + Len(more)) :
           all[i] = IF i <= Len(log) THEN log[i] ELSE more[i - Len(log)]
  BY ConcatProperties
<1>3. DOMAIN all = 1..(Len(log) + Len(more))
  BY <1>2, LenProperties
<1> HIDE DEF all
<1>4. PICK from, to \in 0..Len(log) :
        /\ SubSeq(log, from + 1, to) = own
        /\ \A i \in DOMAIN log : log[i][2] = name <=> i \in (from + 1)..to
  BY DEF Part
<1>5. from \in 0..Len(all) /\ to \in 0..Len(all) /\ from \in Int /\ to \in Int
  BY <1>1, <1>2
<1>6. SubSeq(all, from + 1, to) = SubSeq(log, from + 1, to)
  <2>1. ASSUME NEW i \in (from + 1)..to
        PROVE  all[i] = log[i] /\ all[i] \in S /\ log[i] \in S
    <3>1. i \in 1..Len(log) /\ i \in 1..(Len(log) + Len(more)) /\ i <= Len(log)
      BY <1>1, <1>4
    <3> QED  BY <1>1, <1>2, <3>1
  <2>2. /\ SubSeq(all, from + 1, to) \in Seq(S) /\ SubSeq(log, from + 1, to) \in Seq(S)
        /\ Len(SubSeq(all, from + 1, to)) = Len(SubSeq(log, from + 1, to))
        /\ Len(SubSeq(log, from + 1, to)) = IF from + 1 <= to THEN to - (from + 1) + 1 ELSE 0
        /\ \A i \in 1..(to - (from + 1) + 1) :
             /\ SubSeq(all, from + 1, to)[i] = all[(from + 1) + i - 1]
             /\ SubSeq(log, from + 1, to)[i] = log[(from + 1) + i - 1]
    BY <1>5, <2>1, SubSeqProperties
  <2>3. ASSUME NEW i \in 1..Len(SubSeq(all, from + 1, to))
        PROVE  SubSeq(all, from + 1, to)[i] = SubSeq(log, from + 1, to)[i]
    <3>1. i \in 1..(to - (from + 1) + 1) /\ (from + 1) + i - 1 \in (from + 1)..to
      BY <1>5, <2>2
    <3> QED  BY <2>1, <2>2, <3>1
  <2> QED  BY <2>2, <2>3, SeqEqual
<1>7. ASSUME NEW i \in DOMAIN all PROVE all[i][2] = name <=> i \in (from + 1)..to
  <2>1. CASE i <= Len(log)
    BY <1>1, <1>2, <1>3, <1>4, <2>1
  <2>2. CASE i > Len(log)
    <3>1. i - Len(log) \in 1..Len(more) /\ all[i] = more[i - Len(log)]
      BY <1>1, <1>2, <1>3, <2>2
    <3>2. i \notin (from + 1)..to
      BY <1>1, <1>4, <2>2
    <3> QED  BY <3>1, <3>2
  <2> QED  BY <1>1, <1>3, <2>1, <2>2
<1>8. Part(all, name, own)
  BY <1>4, <1>5, <1>6, <1>7 DEF Part
<1> QED  BY <1>8 DEF all

LEMMA PartAtTheEnd ==
  ASSUME NEW S, NEW log \in Seq(S), NEW own \in Seq(S), NEW name,
         \A i \in 1..Len(own) : own[i][2] = name,
         \A i \in 1..Len(log) : log[i][2] # name
  PROVE  Part(log \o own, name, own)
<1> DEFINE all == log \o own
           from == Len(log)
           to == Len(log) + Len(own)
<1>1. /\ Len(log) \in Nat /\ Len(own) \in Nat /\ DOMAIN own = 1..Len(own)
      /\ own \in [1..Len(own) -> S]
  BY LenProperties
<1>2. /\ all \in Seq(S) /\ Len(all) = to
      /\ \A i \in 1..to : all[i] = IF i <= from THEN log[i] ELSE own[i - from]
  BY ConcatProperties
<1>3. DOMAIN all = 1..to
  BY <1>2, LenProperties
<1> HIDE DEF all
<1>4. from \in 0..Len(all) /\ to \in 0..Len(all) /\ from \in Int /\ to \in Int
  BY <1>1, <1>2
<1>5. SubSeq(all, from + 1, to) = own
  <2>1. ASSUME NEW i \in (from + 1)..to PROVE all[i] \in S /\ all[i] = own[i - from]
    BY <1>1, <1>2
  <2>2. /\ SubSeq(all, from + 1, to) \in Seq(S)
        /\ Len(SubSeq(all, from + 1, to)) = IF from + 1 <= to THEN to - (from + 1) + 1 ELSE 0
        /\ \A i \in 1..(to - (from + 1) + 1) :
             SubSeq(all, from + 1, to)[i] = all[(from + 1) + i - 1]
    BY <1>4, <2>1, SubSeqProperties
  <2>3. Len(SubSeq(all, from + 1, to)) = Len(own)
    BY <1>1, <2>2
  <2>4. ASSUME NEW i \in 1..Len(own) PROVE SubSeq(all, from + 1, to)[i] = own[i]
    <3>1. /\ i \in 1..(to - (from + 1) + 1) /\ (from + 1) + i - 1 \in (from + 1)..to
          /\ ((from + 1) + i - 1) - from = i
      BY <1>1
    <3> QED  BY <2>1, <2>2, <3>1
  <2> QED  BY <2>2, <2>3, <2>4, SeqEqual
<1>6. ASSUME NEW i \in DOMAIN all PROVE all[i][2] = name <=> i \in (from + 1)..to
  <2>1. CASE i <= from
    BY <1>1, <1>2, <1>3, <2>1
  <2>2. CASE i > from
    <3>1. i - from \in 1..Len(own) /\ all[i] = own[i - from] /\ i \in (from + 1)..to
      BY <1>1, <1>2, <1>3, <2>2
    <3> QED  BY <3>1
  <2> QED  BY <1>1, <1>3, <2>1, <2>2
<1>7. Part(all, name, own)
  <2> HIDE DEF from, to
  <2> QED  BY <1>4, <1>5, <1>6 DEF Part
<1> QED  BY <1>7 DEF all

LEMMA NamesIn ==
  ASSUME NEW N, NEW r \in Runs(N)
  PROVE  /\ Len(r.log) \in Nat /\ DOMAIN r.log = 1..Len(r.log)
         /\ \A i \in 1..Len(r.log) : r.log[i][2] \in N
<1>1. r.log \in Seq(Items(N))
  BY RunIs
<1>2. Len(r.log) \in Nat /\ DOMAIN r.log = 1..Len(r.log)
  BY <1>1, LenProperties
<1>3. ASSUME NEW i \in 1..Len(r.log) PROVE r.log[i][2] \in N
  <2>1. r.log[i] \in Items(N)
    BY <1>1, ElementOfSeq
  <2> QED  BY <2>1 DEF Items
<1> QED  BY <1>2, <1>3

\* The first n filters have done their parts, the others nothing.
PartsUpTo(e, status, p, log, n) ==
  /\ \A j \in 1..n : Part(log, p.filters[j].name, Alone(e, status, p.filters[j]).log)
  /\ \A j \in (n + 1)..Len(p.filters) : \A i \in 1..Len(log) : log[i][2] # p.filters[j].name

LEMMA ProviderParts ==
  ASSUME NEW e, NEW p, Ear(e, p), NEW status \in Statuses,
         NEW run \in Runs(Voices(p)), run.thrown = "none", run.log = <<>>,
         "schema" \notin ToSet(p.callbacks) \/ status = "schema",
         ProviderOnEvent(e, status, run, p).thrown = "none"
  PROVE  \A f \in FiltersOf(p) :
           Part(ProviderOnEvent(e, status, run, p).log, f.name, Alone(e, status, f).log)
<1>1. PICK after : Course(e, status, run, p, after)
  BY ProviderCourse
<1> DEFINE N == Len(p.filters)
           Good(n) == /\ after[n].thrown \in {"none", "failed"}
                      /\ after[n].thrown = "none" => PartsUpTo(e, status, p, after[n].log, n)
           T == {n \in 0..N : Good(n)}
<1>2. N \in Nat /\ DOMAIN p.filters = 1..N
  BY EveryFilter
<1>3. 0 \in T
  <2> DEFINE c == Calls(status, NoRun, p.callbacks, p.name)
  <2>1. after[0] = Then(run, c)
    BY <1>1, CallsThen, RunIs DEF Course, Ear
  <2>2. c \in Runs({p.name}) /\ c.thrown = "none"
    BY CallsAlone DEF Ear
  <2> HIDE DEF c
  <2>3. after[0].log = c.log /\ after[0].thrown = "none"
    <3>1. <<>> \o c.log = c.log
      BY <2>2, RunIs, ConcatEmptySeq
    <3> QED  BY <2>1, <2>2, <3>1 DEF Then
  <2>4. ASSUME NEW j \in 1..N, NEW i \in 1..Len(c.log) PROVE c.log[i][2] # p.filters[j].name
    <3>1. c.log[i][2] = p.name
      BY <2>2, NamesIn
    <3>2. p.filters[j].name \in FilterNames(p) /\ p.name \notin FilterNames(p)
      BY EveryFilter DEF Ear
    <3> QED  BY <3>1, <3>2
  <2>5. PartsUpTo(e, status, p, c.log, 0)
    <3> HIDE DEF N
    <3>1. \A j \in (0 + 1)..N : \A i \in 1..Len(c.log) : c.log[i][2] # p.filters[j].name
      BY <2>4
    <3>2. 1..0 = {}
      OBVIOUS
    <3> QED  BY <3>1, <3>2 DEF PartsUpTo, N
  <2>6. 0 \in 0..N
    BY <1>2
  <2> HIDE DEF N
  <2> QED  BY <2>3, <2>5, <2>6
<1>4. ASSUME NEW n \in 0..(N - 1), n \in T PROVE n + 1 \in T
  <2> DEFINE f == p.filters[n + 1]
             a == Alone(e, status, f)
             L == after[n].log
  <2>1. n + 1 \in 1..N /\ Further(e, status, p, f, after[n], after[n + 1])
    BY <1>1, CourseGoesOn
  <2>2. Good(n) /\ n \in Nat /\ n + 1 \in 0..N
    BY <1>2, <1>4
  <2> HIDE DEF N
  <2>3. CASE after[n].thrown # "none"
    <3>1. after[n + 1] = after[n]
      BY <2>1, <2>3 DEF Further
    <3> QED  BY <2>2, <2>3, <3>1
  <2>4. CASE after[n].thrown = "none"
    <3>1. /\ after[n + 1] = Then(after[n], a) /\ a \in Runs({f.name}) /\ a.thrown # "missing"
          /\ after[n] \in Runs(Voices(p)) /\ f.name \in Voices(p)
      BY <2>1, <2>4 DEF Further, Voices
    <3>2. a.thrown \in {"none", "failed"}
      BY <3>1, RunIs
    <3>3. after[n + 1].thrown = a.thrown /\ after[n + 1].log = L \o a.log
      <4>1. after[n + 1] = [log |-> L \o a.log, thrown |-> a.thrown,
                            asked |-> after[n].asked \/ a.asked]
        BY <3>1 DEF Then
      <4> HIDE DEF a, L
      <4> QED  BY ONLY <4>1
    <3>4. L \in Seq(Items(Voices(p))) /\ a.log \in Seq(Items(Voices(p)))
      <4>1. {f.name} \subseteq Voices(p)
        BY <3>1
      <4>2. a \in Runs(Voices(p))
        BY <3>1, <4>1, RunsGrow
      <4> QED  BY <3>1, <4>2, RunIs
    <3>5. /\ Len(a.log) \in Nat /\ \A i \in 1..Len(a.log) : a.log[i][2] = f.name
      BY <3>1, NamesIn
    <3>6. PartsUpTo(e, status, p, L, n)
      BY <2>2, <2>4
    <3>7. ASSUME NEW j \in 1..N PROVE p.filters[j].name = f.name => j = n + 1
      BY <1>2, <2>1 DEF Ear
    <3> HIDE DEF L, a
    <3>8. ASSUME NEW j \in 1..(n + 1)
          PROVE  Part(L \o a.log, p.filters[j].name, Alone(e, status, p.filters[j]).log)
      <4>1. CASE j = n + 1
        <5>1. \A i \in 1..Len(L) : L[i][2] # f.name
          <6>1. n + 1 \in (n + 1)..Len(p.filters)
            BY <1>2, <2>1, <2>2 DEF N
          <6> QED  BY <3>6, <6>1 DEF PartsUpTo
        <5> HIDE DEF f
        <5>2. Part(L \o a.log, f.name, a.log)
          BY <3>4, <3>5, <5>1, PartAtTheEnd
        <5> QED  BY <4>1, <5>2 DEF f, a
      <4>2. CASE j # n + 1
        <5>1. j \in 1..n /\ j \in 1..N
          BY <1>2, <2>1, <2>2, <4>2
        <5> DEFINE g == p.filters[j].name
                   own == Alone(e, status, p.filters[j]).log
        <5>2. Part(L, g, own)
          BY <3>6, <5>1 DEF PartsUpTo
        <5>3. g # f.name
          BY <3>7, <4>2, <5>1
        <5> HIDE DEF g, own, f
        <5>4. \A i \in 1..Len(a.log) : a.log[i][2] # g
          BY <3>5, <5>3
        <5>5. Part(L \o a.log, g, own)
          BY <3>4, <5>2, <5>4, PartStays
        <5> QED  BY <5>5 DEF g, own
      <4> QED  BY <4>1, <4>2
    <3>9. ASSUME NEW j \in ((n + 1) + 1)..N, NEW i \in 1..Len(L \o a.log)
          PROVE  (L \o a.log)[i][2] # p.filters[j].name
      <4>1. j \in (n + 1)..N /\ j \in 1..N /\ j # n + 1
        BY <1>2, <2>2
      <4>2. /\ Len(L) \in Nat /\ Len(L \o a.log) = Len(L) + Len(a.log)
            /\ \A k \in 1..(Len(L) + Len(a.log)) :
                 (L \o a.log)[k] = IF k <= Len(L) THEN L[k] ELSE a.log[k - Len(L)]
        BY <3>4, ConcatProperties, LenProperties
      <4>3. CASE i <= Len(L)
        <5>1. i \in 1..Len(L) /\ (L \o a.log)[i] = L[i]
          BY <3>5, <4>2, <4>3
        <5> QED  BY <3>6, <4>1, <5>1 DEF PartsUpTo, N
      <4>4. CASE i > Len(L)
        <5>1. i - Len(L) \in 1..Len(a.log) /\ (L \o a.log)[i] = a.log[i - Len(L)]
          BY <3>5, <4>2, <4>4
        <5>2. (L \o a.log)[i][2] = f.name
          BY <3>5, <5>1
        <5> QED  BY <3>7, <4>1, <5>2
      <4> QED  BY <3>5, <4>2, <4>3, <4>4
    <3>10. PartsUpTo(e, status, p, L \o a.log, n + 1)
      BY <3>8, <3>9 DEF PartsUpTo, N
    <3> QED  BY <2>2, <3>2, <3>3, <3>10
  <2> QED  BY <2>3, <2>4
<1>5. Good(N)
  <2> HIDE DEF T, N
  <2>1. 0..N \subseteq T
    BY <1>2, <1>3, <1>4, Upwards
  <2> QED  BY <1>2, <2>1 DEF T
<1>6. after[N].thrown = "none" /\ ProviderOnEvent(e, status, run, p) = after[N]
  BY <1>1, <1>5 DEF Catch, Course
<1> SUFFICES ASSUME NEW f \in FiltersOf(p)
             PROVE  Part(after[N].log, f.name, Alone(e, status, f).log)
  BY <1>6
<1>7. PICK j \in 1..N : p.filters[j] = f
  BY <1>2 DEF FiltersOf, ToSet
<1>8. PartsUpTo(e, status, p, after[N].log, N)
  BY <1>5, <1>6
<1> QED  BY <1>7, <1>8 DEF PartsUpTo

------------------------------------------------------------------------------
(* The dispatch of an event.                                               *)

LEMMA ProviderKeepsAsked ==
  ASSUME NEW e, NEW p, Ear(e, p), NEW status \in Statuses,
         NEW run \in Runs(Voices(p)), run.thrown = "none", run.asked
  PROVE  ProviderOnEvent(e, status, run, p).asked
<1>1. PICK a : Course(e, status, run, p, a)
  BY ProviderCourse
<1> DEFINE N == Len(p.filters)
           T == {n \in 0..N : a[n].asked}
<1>2. N \in Nat
  BY EveryFilter
<1>3. 0 \in T
  <2> DEFINE c == Calls(status, NoRun, p.callbacks, p.name)
  <2>1. a[0] = Then(run, c)
    BY <1>1, CallsThen, RunIs DEF Course, Ear
  <2> HIDE DEF c
  <2>2. a[0].asked
    <3>1. a[0].asked = (run.asked \/ c.asked)
      BY <2>1 DEF Then
    <3> QED  BY <3>1
  <2>3. 0 \in 0..N
    BY <1>2
  <2> HIDE DEF N
  <2> QED  BY <2>2, <2>3
<1>4. ASSUME NEW n \in 0..(N - 1), n \in T PROVE n + 1 \in T
  <2> DEFINE f == p.filters[n + 1]
  <2>1. Further(e, status, p, f, a[n], a[n + 1])
    BY <1>1, CourseGoesOn
  <2>2. n + 1 \in 0..N
    BY <1>2
  <2> HIDE DEF f, N
  <2>3. a[n + 1] = a[n] \/ a[n + 1] = Then(a[n], Alone(e, status, f))
    BY <2>1 DEF Further
  <2>4. a[n + 1].asked
    <3>1. Then(a[n], Alone(e, status, f)).asked = (a[n].asked \/ Alone(e, status, f).asked)
      BY DEF Then
    <3>2. CASE a[n + 1] = a[n]
      BY <1>4, <3>2
    <3>3. CASE a[n + 1] = Then(a[n], Alone(e, status, f))
      BY <1>4, <3>1, <3>3
    <3> QED  BY <2>3, <3>2, <3>3
  <2> QED  BY <2>2, <2>4
<1>5. N \in T
  <2> HIDE DEF T, N
  <2>1. 0..N \subseteq T
    BY <1>2, <1>3, <1>4, Upwards
  <2> QED  BY <1>2, <2>1
<1>6. a[N] \in Runs(Voices(p)) /\ p.name \in Voices(p)
  <2>1. N \in 0..N
    BY <1>2
  <2>2. a[N] \in Runs(Voices(p))
    BY <1>1, <2>1 DEF Course
  <2> HIDE DEF N, T
  <2> QED  BY <2>2 DEF Voices
<1>7. Catch(a[N], p.errors, p.name).asked = a[N].asked
  BY <1>6, CatchIs
<1> QED  BY <1>1, <1>5, <1>7 DEF Course

LEMMA EarIs ==
  ASSUME NEW e \in Events, NEW p \in Registrable
  PROVE  Ear(e, p)
<1>1. ASSUME NEW f \in FiltersOf(p) PROVE Sound(e, f)
  <2>1. f.callbacks \in Seq(CallbackKinds)
    BY ProvidersAssumption
  <2>2. ASSUME NEW s \in Statuses
        PROVE  /\ Eval(e, s, f.predicate).v \in {"true", "false", "missing", "failed"}
               /\ Eval(e, s, f.predicate).asked \in BOOLEAN
               /\ ~Eval(e, s, f.predicate).asked =>
                    \A other \in Statuses : Eval(e, other, f.predicate) = Eval(e, s, f.predicate)
    <3>1. Eval(e, s, f.predicate) \in [v : {"true", "false", "missing", "failed"}, asked : BOOLEAN]
      BY EvalAssumption
    <3>2. ~Eval(e, s, f.predicate).asked =>
              \A other \in Statuses : Eval(e, other, f.predicate) = Eval(e, s, f.predicate)
      BY EvalAssumption
    <3> QED  BY <3>1, <3>2
  <2> QED  BY <2>1, <2>2 DEF Sound
<1> QED  BY <1>1, ProvidersAssumption DEF Ear

Registered == providers \in Seq(Registrable)
Heard(e) == \E p \in ToSet(providers) : p.guid = e.owner

LEMMA FirstIs ==
  ASSUME Registered, NEW e \in Events, Heard(e)
  PROVE  /\ FirstFor(e.owner) = Listener(e)
         /\ Listener(e) \in Registrable /\ Listener(e) # Nil
<1> DEFINE places == {i \in DOMAIN providers : providers[i].guid = e.owner}
           First(i) == /\ providers[i].guid = e.owner
                       /\ \A j \in 1..(i - 1) : providers[j].guid # e.owner
<1>1. Len(providers) \in Nat /\ DOMAIN providers = 1..Len(providers)
  BY LenProperties DEF Registered
<1>2. places \in SUBSET Nat /\ places # {}
  BY <1>1 DEF Heard, ToSet
<1>3. Min(places) \in places /\ \A k \in places : Min(places) <= k
  <2> HIDE DEF places
  <2> QED  BY <1>2, Least
<1>4. PICK m \in Nat : m = Min(places) /\ m \in DOMAIN providers /\ First(m)
  <2>1. Min(places) \in Nat /\ Min(places) \in DOMAIN providers /\ providers[Min(places)].guid = e.owner
    BY <1>1, <1>3
  <2>2. PICK m \in Nat : m = Min(places)
    BY <2>1
  <2>3. ASSUME NEW j \in 1..(m - 1) PROVE providers[j].guid # e.owner
    <3>1. j \in DOMAIN providers /\ ~(m <= j)
      BY <1>1, <2>1, <2>2
    <3> QED  BY <1>3, <2>2, <3>1
  <2> HIDE DEF places
  <2> QED  BY <2>1, <2>2, <2>3
<1>5. ASSUME NEW i \in DOMAIN providers, First(i) PROVE i = m
  <2>1. i \in places
    BY <1>5
  <2>2. m <= i /\ i \in Nat
    BY <1>1, <1>3, <1>4, <2>1
  <2>3. ~(m \in 1..(i - 1))
    BY <1>4, <1>5
  <2> QED  BY <1>1, <1>4, <2>2, <2>3
<1>6. Listener(e) = providers[m]
  <2>1. (CHOOSE i \in DOMAIN providers : First(i)) = m
    <3> HIDE DEF First
    <3> QED  BY <1>4, <1>5
  <2> QED  BY <2>1 DEF Listener
<1>7. FirstFor(e.owner) = providers[m]
  BY <1>2, <1>4 DEF FirstFor
<1>8. providers[m] \in Registrable
  BY <1>1, <1>4, ElementOfSeq DEF Registered
<1> QED  BY <1>6, <1>7, <1>8, ProvidersAssumption

LEMMA ProviderOfIs ==
  ASSUME Registered, NEW e \in Events, Heard(e), NEW status \in Statuses
  PROVE  ProviderOf(e, status) = IF Told(e, status) THEN Listener(e) ELSE Nil
<1>1. GetEventType(e) = "manifest" => e.owner = e.provider
  BY EventsAssumption
<1>2. FirstFor(e.owner) = Listener(e)
  BY FirstIs
<1>3. CASE GetEventType(e) = "manifest"
  BY <1>1, <1>2, <1>3 DEF ProviderOf, Told
<1>4. CASE GetEventType(e) # "manifest"
  BY <1>2, <1>4 DEF ProviderOf, Told
<1> QED  BY <1>3, <1>4

\* The run an event begins with.
First(e) == Asked(NoRun, GetEventType(e) \in Accepts)

LEMMA FirstRun ==
  ASSUME NEW e, NEW N
  PROVE  /\ First(e) \in Runs(N) /\ First(e).log = <<>> /\ First(e).thrown = "none"
         /\ First(e).asked = (GetEventType(e) \in Accepts)
<1>1. NoRun \in Runs(N) /\ (GetEventType(e) \in Accepts) \in BOOLEAN
  <2>1. (GetEventType(e) \in Accepts) \in BOOLEAN
    OBVIOUS
  <2> QED  BY <2>1, NoRunIs
<1>2. First(e) = [log |-> <<>>, thrown |-> "none", asked |-> GetEventType(e) \in Accepts]
  BY <1>1, NoRunIs DEF First
<1>3. First(e) \in Runs(N)
  BY <1>1, AskedIs DEF First
<1> QED  BY <1>2, <1>3

\* What the default callback does: at most one entry of its own.
LEMMA DefaultIs ==
  ASSUME NEW e, NEW status \in Statuses, NEW run \in Runs({"default"}),
         run.thrown = "none", run.log = <<>>
  PROVE  LET r == ForwardTo(Nil, e, status, run)
         IN  /\ r \in Runs({"default"})
             /\ r.thrown = "missing" => r.log[Len(r.log)] = <<"schema", "default">>
             /\ r.asked \/ \A other \in Statuses : ForwardTo(Nil, e, other, run) = r
             /\ run.asked => r.asked
<1> DEFINE kinds == <<DefaultCallback>>
           c(s) == Calls(s, NoRun, kinds, "default")
           r(s) == ForwardTo(Nil, e, s, run)
<1>1. CASE DefaultCallback = "none"
  <2>1. \A s \in Statuses : r(s) = run
    BY <1>1 DEF ForwardTo
  <2> HIDE DEF r
  <2>2. r(status) = run
    BY <2>1
  <2>3. r(status).thrown # "missing"
    BY <2>2
  <2> QED  BY <2>1, <2>2, <2>3 DEF r
<1>2. CASE DefaultCallback # "none"
  <2>0. kinds \in Seq(CallbackKinds) /\ Len(kinds) = 1 /\ DOMAIN kinds = {1} /\ kinds[1] = DefaultCallback
    BY <1>2, DefaultAssumption DEF CallbackKinds
  <2> HIDE DEF kinds
  <2>1. ASSUME NEW s \in Statuses PROVE r(s) = Then(run, c(s))
    <3>1. r(s) = Calls(s, run, kinds, "default")
      BY <1>2 DEF ForwardTo, kinds
    <3> QED  BY <2>0, <3>1, RunIs, CallsThen
  <2>2. c(status) \in Runs({"default"}) /\ c(status).log = Called(status, kinds, "default")
    BY <2>0, CallsAlone
  <2>3. c(status).thrown = Failure(status, kinds)
    <3>1. c(status) = [log |-> NoRun.log \o Called(status, kinds, "default"),
                       asked |-> NoRun.asked \/ Asking(status, kinds),
                       thrown |-> Failure(status, kinds)]
      BY NoRunIs, CallsIs
    <3> HIDE DEF c
    <3> QED  BY ONLY <3>1
  <2>4. \A other \in Statuses : ~c(status).asked => c(other) = c(status)
    BY <2>0, CallsUnasked
  <2> HIDE DEF r, c
  <2>5. r(status) \in Runs({"default"})
    BY <2>1, <2>2, ThenIs
  <2>6. r(status) = [log |-> run.log \o c(status).log, thrown |-> c(status).thrown,
                     asked |-> run.asked \/ c(status).asked]
    BY <2>1 DEF Then
  <2>7. /\ r(status).thrown = c(status).thrown /\ r(status).asked = (run.asked \/ c(status).asked)
        /\ r(status).log = run.log \o c(status).log
    <3> DEFINE rs == r(status)
               cs == c(status)
    <3>1. rs = [log |-> run.log \o cs.log, thrown |-> cs.thrown, asked |-> run.asked \/ cs.asked]
      BY <2>6
    <3> HIDE DEF rs, cs
    <3>2. rs.thrown = cs.thrown /\ rs.asked = (run.asked \/ cs.asked) /\ rs.log = run.log \o cs.log
      BY ONLY <3>1
    <3> QED  BY <3>2 DEF rs, cs
  <2>8. r(status).log = Called(status, kinds, "default")
    <3>1. <<>> \o c(status).log = c(status).log
      BY <2>2, RunIs, ConcatEmptySeq
    <3> QED  BY <2>2, <2>7, <3>1
  <2>9. r(status).thrown = "missing" => r(status).log[Len(r(status).log)] = <<"schema", "default">>
    <3> SUFFICES ASSUME Failure(status, kinds) = "missing"
                 PROVE  Called(status, kinds, "default")[Len(Called(status, kinds, "default"))]
                          = <<"schema", "default">>
      BY <2>3, <2>7, <2>8
    <3>1. Stops(status, kinds) # {}
      BY DEF Failure
    <3>2. /\ LastCall(status, kinds) \in 1..Len(kinds) /\ kinds[LastCall(status, kinds)] = "schema"
      BY <2>0, <3>1, LastCallIs
    <3>3. LastCall(status, kinds) = 1
      BY <2>0, <3>2
    <3>4. "default" \in {"default"}
      OBVIOUS
    <3>5. /\ Len(Called(status, kinds, "default")) = LastCall(status, kinds)
          /\ \A i \in 1..LastCall(status, kinds) : Called(status, kinds, "default")[i] = <<kinds[i], "default">>
      BY <2>0, <3>4, CalledIs
    <3> QED  BY <3>2, <3>3, <3>5
  <2>10. ASSUME ~r(status).asked, NEW other \in Statuses PROVE r(other) = r(status)
    BY <2>1, <2>4, <2>7, <2>10
  <2> QED  BY <2>5, <2>7, <2>9, <2>10 DEF r
<1> QED  BY <1>1, <1>2

LEMMA ForwardIs ==
  ASSUME Registered, NEW e \in Events, Heard(e), NEW status \in Statuses
  PROVE  LET r == ForwardEvents(e, status)
         IN  /\ Told(e, status) =>
                  /\ r = ProviderOnEvent(e, status, First(e), Listener(e))
                  /\ r \in Runs(Voices(Listener(e))) /\ r.thrown # "missing"
             /\ ~Told(e, status) =>
                  /\ r \in Runs({"default"})
                  /\ r.thrown = "missing" => r.log[Len(r.log)] = <<"schema", "default">>
             /\ r.asked \/ \A other \in Statuses : ForwardEvents(e, other) = r
             /\ GetEventType(e) \in Accepts => r.asked
<1> DEFINE L == Listener(e)
           r(s) == ForwardEvents(e, s)
<1>1. L \in Registrable /\ L # Nil /\ Ear(e, L)
  BY FirstIs, EarIs
<1>2. \A s \in Statuses : r(s) = ForwardTo(IF Told(e, s) THEN L ELSE Nil, e, s, First(e))
  BY ProviderOfIs DEF ForwardEvents, First
<1>3. \A N : /\ First(e) \in Runs(N) /\ First(e).log = <<>> /\ First(e).thrown = "none"
             /\ First(e).asked = (GetEventType(e) \in Accepts)
  BY FirstRun
<1> HIDE DEF L, r
<1>4. ASSUME NEW s \in Statuses, Told(e, s) PROVE r(s) = ProviderOnEvent(e, s, First(e), L)
  BY <1>1, <1>2, <1>4 DEF ForwardTo
<1>5. ASSUME NEW s \in Statuses, ~Told(e, s) PROVE r(s) = ForwardTo(Nil, e, s, First(e))
  BY <1>2, <1>5
<1>6. GetEventType(e) \in Accepts => r(status).asked
  <2> SUFFICES ASSUME GetEventType(e) \in Accepts PROVE r(status).asked
    OBVIOUS
  <2>1. First(e).asked
    BY <1>3
  <2>2. CASE Told(e, status)
    <3>1. ProviderOnEvent(e, status, First(e), L).asked
      BY <1>1, <1>3, <2>1, ProviderKeepsAsked
    <3> QED  BY <1>4, <2>2, <3>1
  <2>3. CASE ~Told(e, status)
    <3>1. ForwardTo(Nil, e, status, First(e)).asked
      BY <1>3, <2>1, DefaultIs
    <3> QED  BY <1>5, <2>3, <3>1
  <2> QED  BY <2>2, <2>3
<1>7. ASSUME ~r(status).asked, NEW other \in Statuses PROVE r(other) = r(status)
  <2>1. Told(e, other) = Told(e, status)
    BY <1>6, <1>7 DEF Told
  <2>2. CASE Told(e, status)
    <3>1. ~ProviderOnEvent(e, status, First(e), L).asked
      BY <1>4, <1>7, <2>2
    <3>2. ProviderOnEvent(e, other, First(e), L) = ProviderOnEvent(e, status, First(e), L)
      BY <1>1, <1>3, <3>1, ProviderUnasked
    <3> QED  BY <1>4, <2>1, <2>2, <3>2
  <2>3. CASE ~Told(e, status)
    <3>1. ForwardTo(Nil, e, status, First(e)).asked
          \/ \A s \in Statuses : ForwardTo(Nil, e, s, First(e)) = ForwardTo(Nil, e, status, First(e))
      BY <1>3, DefaultIs
    <3> QED  BY <1>5, <1>7, <2>1, <2>3, <3>1
  <2> QED  BY <2>2, <2>3
<1>8. ASSUME Told(e, status)
      PROVE  /\ r(status) = ProviderOnEvent(e, status, First(e), L)
             /\ r(status) \in Runs(Voices(L)) /\ r(status).thrown # "missing"
  BY <1>1, <1>3, <1>4, <1>8, ProviderIs
<1>9. ASSUME ~Told(e, status)
      PROVE  /\ r(status) \in Runs({"default"})
             /\ r(status).thrown = "missing" =>
                  r(status).log[Len(r(status).log)] = <<"schema", "default">>
  <2> DEFINE d == ForwardTo(Nil, e, status, First(e))
  <2>1. /\ d \in Runs({"default"})
        /\ d.thrown = "missing" => d.log[Len(d.log)] = <<"schema", "default">>
    BY <1>3, DefaultIs
  <2>2. r(status) = d
    BY <1>5, <1>9
  <2> HIDE DEF d
  <2> QED  BY <2>1, <2>2
<1> QED  BY <1>6, <1>7, <1>8, <1>9 DEF L, r

------------------------------------------------------------------------------
(* The invariant.                                                          *)

\* What is kept of a run.
Result(run, status) ==
  [log |-> run.log, thrown |-> run.thrown, status |-> IF run.asked THEN status ELSE Nil]

\* What an event was treated as: some answer of TDH, which is kept when it was
\* asked for.
TreatedAs(e, s) ==
  /\ outcome[e] = Result(ForwardEvents(e, s), s)
  /\ ForwardEvents(e, s).asked => KeyOf(e) \in DOMAIN cache /\ cache[KeyOf(e)] = s

IInv ==
  /\ Registered
  /\ etw # Nil => etw = EnableProviders
  /\ \A k \in DOMAIN cache : cache[k] \in Statuses
  /\ DOMAIN outcome = Events
  /\ \A e \in Events : outcome[e] # Nil =>
        etw # Nil /\ Heard(e) /\ \E s \in Statuses : TreatedAs(e, s)
  /\ reading # Nil =>
        /\ reading = [event |-> reading.event, parser |-> reading.parser]
        /\ reading.event \in Events /\ IsWalk(reading.event, reading.parser)

\* Before a provider is enabled nothing is asked for, cached or read.
THEOREM InitIInv == Init => IInv
<1> SUFFICES ASSUME Init PROVE IInv
  OBVIOUS
<1>1. Registered
  BY EmptySeq DEF Init, Registered
<1>2. DOMAIN cache = {}
  BY DEF Init, EmptyMap
<1>3. DOMAIN outcome = Events /\ \A e \in Events : outcome[e] = Nil
  BY DEF Init
<1>4. etw = Nil /\ reading = Nil
  BY DEF Init
<1> QED  BY <1>1, <1>2, <1>3, <1>4 DEF IInv

LEMMA WrittenIs ==
  ASSUME NEW e \in Events
  PROVE  Written(e)
BY EventsAssumption DEF Written, Described, Description

LEMMA SameProviders ==
  ASSUME providers' = providers
  PROVE  /\ \A e, s : ForwardEvents(e, s)' = ForwardEvents(e, s)
         /\ \A e : Heard(e)' = Heard(e)
         /\ EnableProviders' = EnableProviders
         /\ Registered' = Registered
<1>1. ASSUME NEW g PROVE FirstFor(g)' = FirstFor(g)
  BY DEF FirstFor
<1>2. ASSUME NEW e, NEW s PROVE ProviderOf(e, s)' = ProviderOf(e, s)
  BY <1>1 DEF ProviderOf
<1>3. ASSUME NEW e, NEW s PROVE ForwardEvents(e, s)' = ForwardEvents(e, s)
  BY <1>2 DEF ForwardEvents
<1>4. ASSUME NEW e PROVE Heard(e)' = Heard(e)
  BY DEF Heard
<1>5. EnableProviders' = EnableProviders
  BY DEF EnableProviders, JoinSettings, Sharing
<1>6. Registered' = Registered
  BY DEF Registered
<1> QED  BY <1>3, <1>4, <1>5, <1>6

\* When what has been kept stays, events stay treated as they were.
LEMMA TreatedStays ==
  ASSUME providers' = providers, NEW e, outcome'[e] = outcome[e], NEW s, TreatedAs(e, s),
         \A k \in DOMAIN cache : k \in DOMAIN cache' /\ cache'[k] = cache[k]
  PROVE  TreatedAs(e, s)'
<1>1. ForwardEvents(e, s)' = ForwardEvents(e, s)
  BY SameProviders
<1> QED  BY <1>1 DEF TreatedAs

LEMMA CacheKept ==
  ASSUME NEW e, NEW status \in Statuses, NEW b \in BOOLEAN,
         \A k \in DOMAIN cache : cache[k] \in Statuses,
         KeyOf(e) \in DOMAIN cache => status = cache[KeyOf(e)],
         cache' = IF b THEN Remember(e, status) ELSE cache
  PROVE  /\ \A k \in DOMAIN cache : k \in DOMAIN cache' /\ cache'[k] = cache[k]
         /\ \A k \in DOMAIN cache' : cache'[k] \in Statuses
         /\ b => KeyOf(e) \in DOMAIN cache' /\ cache'[KeyOf(e)] = status
<1>1. CASE ~b
  BY <1>1
<1>2. CASE b
  <2> DEFINE K == KeyOf(e)
  <2>1. /\ DOMAIN cache' = {K} \cup DOMAIN cache
        /\ \A k \in DOMAIN cache' : cache'[k] = IF k = K THEN status ELSE cache[k]
    BY <1>2 DEF Remember, Put
  <2> HIDE DEF K
  <2> QED  BY <1>2, <2>1 DEF K
<1> QED  BY <1>1, <1>2

\* Nothing changes but the parser.
LEMMA OnlyReading ==
  ASSUME IInv, UNCHANGED <<providers, etw, cache, outcome>>,
         reading' # Nil =>
           /\ reading' = [event |-> reading'.event, parser |-> reading'.parser]
           /\ reading'.event \in Events /\ IsWalk(reading'.event, reading'.parser)
  PROVE  IInv'
<1>1. ASSUME NEW e \in Events, NEW s \in Statuses, TreatedAs(e, s) PROVE TreatedAs(e, s)'
  BY <1>1, TreatedStays
<1>2. /\ Registered' /\ (etw' # Nil => etw' = EnableProviders')
      /\ \A e : Heard(e)' = Heard(e)
  BY SameProviders DEF IInv
<1> QED  BY <1>1, <1>2 DEF IInv

LEMMA EnableIInv ==
  ASSUME IInv, NEW p \in Registrable, Enable(p)
  PROVE  IInv'
<1>1. Registered'
  BY AppendProperties DEF Enable, IInv, Registered
<1>2. etw' = Nil /\ cache' = cache /\ outcome' = outcome /\ reading' = reading /\ etw = Nil
  BY DEF Enable
<1> QED  BY <1>1, <1>2 DEF IInv

LEMMA OpenIInv ==
  ASSUME IInv, Open
  PROVE  IInv'
<1>1. /\ etw = Nil /\ etw' = EnableProviders /\ UNCHANGED <<providers, cache, outcome, reading>>
  BY DEF Open
<1>2. Registered' /\ EnableProviders' = EnableProviders
  BY <1>1, SameProviders DEF IInv
<1> QED  BY <1>1, <1>2 DEF IInv

\* A parser that was walked further still walks.
Walked(p) ==
  /\ reading # Nil
  /\ reading' = [reading EXCEPT !.parser = p]
  /\ UNCHANGED <<providers, etw, cache, outcome>>

LEMMA WalkedIInv ==
  ASSUME IInv, NEW p, Walked(p), IsWalk(reading.event, p)
  PROVE  IInv'
<1>1. reading = [event |-> reading.event, parser |-> reading.parser] /\ reading.event \in Events
  BY DEF IInv, Walked
<1>2. reading' = [event |-> reading.event, parser |-> p]
  BY <1>1 DEF Walked
<1>3. reading'.event = reading.event /\ reading'.parser = p
  BY <1>2
<1> QED  BY <1>1, <1>2, <1>3, OnlyReading DEF Walked

LEMMA ReadIs ==
  ASSUME IInv, reading # Nil
  PROVE  /\ reading.event \in Events /\ Described(reading.event) /\ Written(reading.event)
         /\ IsWalk(reading.event, reading.parser)
BY WrittenIs DEF IInv, Written

LEMMA ParseIInv ==
  ASSUME IInv, NEW name, NEW hint \in {reading.parser.hint} \cup 0..PropertyCount(reading.event),
         Parse(name, hint)
  PROVE  IInv'
<1> DEFINE event == reading.event
           start == [reading.parser EXCEPT !.hint = hint]
           p == FindProperty(event, start, name).parser
<1>1. reading # Nil
  BY DEF Parse
<1>2. Described(event) /\ IsWalk(event, reading.parser)
  BY <1>1, ReadIs
<1>3. hint \in 0..PropertyCount(event)
  <2>1. reading.parser.hint \in Nat /\ reading.parser.hint <= PropertyCount(event)
    BY <1>2 DEF IsWalk, Parsers
  <2>2. PropertyCount(event) \in Nat
    BY <1>2, LenProperties DEF Described, PropertyCount
  <2> QED  BY <2>1, <2>2
<1>4. IsWalk(event, start)
  BY <1>2, <1>3, HintIsFree
<1>5. IsWalk(event, p)
  <2> HIDE DEF start
  <2> QED  BY <1>2, <1>4, FindPropertyIs
<1>6. Walked(p)
  BY DEF Parse, Walked
<1> HIDE DEF p
<1> QED  BY <1>5, <1>6, WalkedIInv

LEMMA ParsePointerIInv ==
  ASSUME IInv, NEW name, ParsePointer(name)
  PROVE  IInv'
<1> DEFINE p == TryParsePointer(reading.event, reading.parser, name).parser
<1>1. Walked(p)
  BY DEF ParsePointer, Walked
<1>2. IsWalk(reading.event, p)
  <2>1. Described(reading.event) /\ IsWalk(reading.event, reading.parser)
    BY ReadIs DEF ParsePointer
  <2> QED  BY <2>1, TryParsePointerIsWalk
<1> HIDE DEF p
<1> QED  BY <1>1, <1>2, WalkedIInv

LEMMA ParseStatusIInv ==
  ASSUME IInv, ParseStatus
  PROVE  IInv'
<1> DEFINE p == TryParseOperationStatus(reading.event, reading.parser).parser
<1>1. Walked(p)
  BY DEF ParseStatus, Walked
<1>2. IsWalk(reading.event, p)
  <2>1. Described(reading.event) /\ IsWalk(reading.event, reading.parser)
    BY ReadIs DEF ParseStatus
  <2> QED  BY <2>1, TryParseOperationStatusIsWalk
<1> HIDE DEF p
<1> QED  BY <1>1, <1>2, WalkedIInv

LEMMA CallbackReturnsIInv ==
  ASSUME IInv, CallbackReturns
  PROVE  IInv'
BY OnlyReading DEF CallbackReturns

\* What the arrival of an event does.
Arrives(e, s, run) ==
  /\ s \in SchemaAnswers(e) /\ run = ForwardEvents(e, s)
  /\ etw # Nil /\ e.owner \in DOMAIN etw
  /\ providers' = providers /\ etw' = etw
  /\ cache' = IF run.asked THEN Remember(e, s) ELSE cache
  /\ outcome' = [outcome EXCEPT ![e] = Result(run, s)]
  /\ reading' \in {Nil, [event |-> e, parser |-> NewParser]}

LEMMA DeliverArrives ==
  ASSUME NEW e \in Events, Deliver(e)
  PROVE  \E s : Arrives(e, s, ForwardEvents(e, s))
<1>1. PICK s \in SchemaAnswers(e) : OnEvent(e, s, ForwardEvents(e, s))
  BY DEF Deliver
<1>2. Arrives(e, s, ForwardEvents(e, s))
  BY <1>1 DEF Deliver, OnEvent, Arrives, Result
<1> QED  BY <1>2

LEMMA ArrivesIs ==
  ASSUME IInv, NEW e \in Events, NEW s, NEW run, Arrives(e, s, run)
  PROVE  /\ s \in Statuses /\ Heard(e) /\ run.asked \in BOOLEAN
         /\ \A k \in DOMAIN cache : k \in DOMAIN cache' /\ cache'[k] = cache[k]
         /\ \A k \in DOMAIN cache' : cache'[k] \in Statuses
         /\ run.asked => KeyOf(e) \in DOMAIN cache' /\ cache'[KeyOf(e)] = s
         /\ KeyOf(e) \in DOMAIN cache => s = cache[KeyOf(e)]
<1>1. s \in Statuses /\ (KeyOf(e) \in DOMAIN cache => s = cache[KeyOf(e)])
  BY DEF Arrives, SchemaAnswers, IInv
<1>2. Heard(e)
  BY DEF Arrives, IInv, EnableProviders, Heard
<1>3. run.asked \in BOOLEAN
  <2>1. Registered
    BY DEF IInv
  <2>2. Told(e, s) => run \in Runs(Voices(Listener(e)))
    BY <1>1, <1>2, <2>1, ForwardIs DEF Arrives
  <2>3. ~Told(e, s) => run \in Runs({"default"})
    BY <1>1, <1>2, <2>1, ForwardIs DEF Arrives
  <2> QED  BY <2>2, <2>3, RunIs
<1>4. \A k \in DOMAIN cache : cache[k] \in Statuses
  BY DEF IInv
<1>5. cache' = IF run.asked THEN Remember(e, s) ELSE cache
  BY DEF Arrives
<1> QED  BY <1>1, <1>2, <1>3, <1>4, <1>5, CacheKept

\* An event that comes again does what it did.
LEMMA SameAgain ==
  ASSUME IInv, NEW e \in Events, NEW s, NEW run, Arrives(e, s, run), outcome[e] # Nil
  PROVE  outcome'[e] = outcome[e]
<1>1. PICK t \in Statuses : TreatedAs(e, t)
  BY DEF IInv
<1>2. outcome'[e] = Result(run, s)
  BY DEF IInv, Arrives
<1>3. Registered /\ Heard(e) /\ s \in Statuses /\ run = ForwardEvents(e, s)
  BY ArrivesIs DEF IInv, Arrives
<1>4. CASE ForwardEvents(e, t).asked
  <2>1. s = t
    BY <1>1, <1>4, ArrivesIs DEF TreatedAs
  <2> QED  BY <1>1, <1>2, <1>3, <2>1 DEF TreatedAs
<1>5. CASE ~ForwardEvents(e, t).asked
  <2>1. run = ForwardEvents(e, t)
    BY <1>3, <1>5, ForwardIs
  <2>2. Result(run, s) = Result(run, t)
    BY <1>5, <2>1 DEF Result
  <2> QED  BY <1>1, <1>2, <2>1, <2>2 DEF TreatedAs
<1> QED  BY <1>4, <1>5

LEMMA DeliverIInv ==
  ASSUME IInv, NEW e \in Events, Deliver(e)
  PROVE  IInv'
<1>1. PICK s : Arrives(e, s, ForwardEvents(e, s))
  BY DeliverArrives
<1> DEFINE run == ForwardEvents(e, s)
<1>2. /\ s \in Statuses /\ Heard(e)
      /\ \A k \in DOMAIN cache : k \in DOMAIN cache' /\ cache'[k] = cache[k]
      /\ \A k \in DOMAIN cache' : cache'[k] \in Statuses
      /\ run.asked => KeyOf(e) \in DOMAIN cache' /\ cache'[KeyOf(e)] = s
  <2> HIDE DEF run
  <2>1. Arrives(e, s, run)
    BY <1>1 DEF run
  <2> QED  BY <2>1, ArrivesIs
<1>3. /\ providers' = providers /\ etw' = etw /\ etw # Nil
      /\ outcome' = [outcome EXCEPT ![e] = Result(run, s)]
      /\ reading' \in {Nil, [event |-> e, parser |-> NewParser]}
  BY <1>1 DEF Arrives
<1>4. /\ Registered' /\ EnableProviders' = EnableProviders
      /\ \A x : Heard(x)' = Heard(x)
      /\ ForwardEvents(e, s)' = ForwardEvents(e, s)
  BY <1>3, SameProviders DEF IInv
<1>5. DOMAIN outcome' = Events /\ outcome'[e] = Result(run, s)
      /\ \A x \in Events \ {e} : outcome'[x] = outcome[x]
  BY <1>3 DEF IInv
<1>6. TreatedAs(e, s)'
  BY <1>2, <1>4, <1>5 DEF TreatedAs
<1>7. ASSUME NEW x \in Events, outcome'[x] # Nil
      PROVE  Heard(x)' /\ \E t \in Statuses : TreatedAs(x, t)'
  <2>1. CASE x = e
    BY <1>2, <1>4, <1>6, <2>1
  <2>2. CASE x # e
    <3>1. outcome'[x] = outcome[x] /\ outcome[x] # Nil
      BY <1>5, <1>7, <2>2
    <3>2. Heard(x) /\ \E t \in Statuses : TreatedAs(x, t)
      BY <3>1 DEF IInv
    <3>3. PICK t \in Statuses : TreatedAs(x, t)
      BY <3>2
    <3>4. TreatedAs(x, t)'
      BY <1>2, <1>3, <3>1, <3>3, TreatedStays
    <3> QED  BY <1>4, <3>2, <3>4
  <2> QED  BY <2>1, <2>2
<1>8. ASSUME reading' # Nil
      PROVE  /\ reading' = [event |-> reading'.event, parser |-> reading'.parser]
             /\ reading'.event \in Events /\ IsWalk(reading'.event, reading'.parser)
  <2>1. reading' = [event |-> e, parser |-> NewParser]
    BY <1>3, <1>8
  <2>2. reading'.event = e /\ reading'.parser = NewParser
    BY <2>1
  <2>3. IsWalk(e, NewParser)
    BY WrittenIs, NewParserIsWalk DEF Written
  <2> QED  BY <2>1, <2>2, <2>3
<1>9. etw' # Nil /\ etw' = EnableProviders'
  BY <1>3, <1>4 DEF IInv
<1> QED  BY <1>2, <1>4, <1>5, <1>7, <1>8, <1>9 DEF IInv

\* No call of the library and no event breaks the invariant: the cache keeps the
\* answer an event was treated by, so the event is treated by it again.
THEOREM NextIInv == IInv /\ [Next]_vars => IInv'
<1> SUFFICES ASSUME IInv, [Next]_vars PROVE IInv'
  OBVIOUS
<1>1. ASSUME NEW p \in Registrable, Enable(p) PROVE IInv'
  BY <1>1, EnableIInv
<1>2. CASE Open
  BY <1>2, OpenIInv
<1>3. ASSUME NEW e \in Events, Deliver(e) PROVE IInv'
  BY <1>3, DeliverIInv
<1>4. ASSUME NEW name, NEW hint \in {reading.parser.hint} \cup 0..PropertyCount(reading.event),
             Parse(name, hint)
      PROVE  IInv'
  BY <1>4, ParseIInv
<1>5. ASSUME NEW name, ParsePointer(name) PROVE IInv'
  BY <1>5, ParsePointerIInv
<1>6. CASE ParseStatus
  BY <1>6, ParseStatusIInv
<1>7. CASE CallbackReturns
  BY <1>7, CallbackReturnsIInv
<1>8. CASE UNCHANGED vars
  BY <1>8, OnlyReading DEF vars, IInv
<1> QED  BY <1>1, <1>2, <1>3, <1>4, <1>5, <1>6, <1>7, <1>8 DEF Next

\* The inductive invariant of the dispatch holds in every state: what each event
\* did is what it does under an answer of TDH that the cache keeps, and a callback's
\* parser has walked to the end of a beginning of the properties.
THEOREM SpecIInv == Spec => []IInv
<1>1. Init => IInv
  BY InitIInv
<1>2. IInv /\ [Next]_vars => IInv'
  BY NextIInv
<1> QED  BY <1>1, <1>2, PTL DEF Spec

------------------------------------------------------------------------------
(* Types.                                                                  *)

\* Every variable of the dispatch has its type; the parser stays inside the data
\* and knows no more properties than the event has.
THEOREM TypeInvariant == Spec => []TypeOK
<1>1. IInv => TypeOK
  <2> SUFFICES ASSUME IInv PROVE TypeOK
    OBVIOUS
  <2>1. Registered /\ ToSet(providers) \subseteq Registrable
    <3>1. Registered
      BY DEF IInv
    <3>2. \A i \in DOMAIN providers : providers[i] \in Registrable
      BY <3>1, ElementOfSeq, LenProperties DEF Registered
    <3> QED  BY <3>1, <3>2 DEF ToSet
  <2>2. etw = Nil \/ DOMAIN etw = {p.guid : p \in ToSet(providers)}
    BY DEF IInv, EnableProviders
  <2>3. \A k \in DOMAIN cache : cache[k] \in Statuses
    BY DEF IInv
  <2>4. ASSUME NEW e \in Events, outcome[e] # Nil
        PROVE  outcome[e].thrown \in {"none", "missing", "failed"}
    <3>1. PICK s \in Statuses : TreatedAs(e, s)
      BY <2>4 DEF IInv
    <3>2. Heard(e)
      BY <2>4 DEF IInv
    <3>3. outcome[e].thrown = ForwardEvents(e, s).thrown
      BY <3>1 DEF TreatedAs, Result
    <3>4. Told(e, s) => ForwardEvents(e, s) \in Runs(Voices(Listener(e)))
      BY <2>1, <3>2, ForwardIs
    <3>5. ~Told(e, s) => ForwardEvents(e, s) \in Runs({"default"})
      BY <2>1, <3>2, ForwardIs
    <3> QED  BY <3>3, <3>4, <3>5, RunIs
  <2>5. ASSUME reading # Nil
        PROVE  /\ reading.parser.at \in 0..Len(reading.event.data)
               /\ Len(reading.parser.cache) <= PropertyCount(reading.event)
               /\ reading.parser.hint \in 0..PropertyCount(reading.event)
    <3>1. Described(reading.event) /\ IsWalk(reading.event, reading.parser)
      BY <2>5, ReadIs
    <3>2. Len(reading.event.data) \in Nat /\ PropertyCount(reading.event) \in Nat
      BY <3>1, LenProperties DEF Described, PropertyCount
    <3> QED  BY <3>1, <3>2 DEF IsWalk, Parsers
  <2> QED  BY <2>1, <2>2, <2>3, <2>4, <2>5 DEF TypeOK
<1> QED  BY <1>1, SpecIInv, PTL

------------------------------------------------------------------------------
(* Requests.                                                               *)

LEMMA JoinedIs ==
  ASSUME IInv, etw # Nil, NEW p \in ToSet(providers)
  PROVE  etw[p.guid] = JoinSettings(p.guid) /\ p \in Sharing(p.guid)
<1>1. etw = EnableProviders
  BY DEF IInv
<1>2. p.guid \in {q.guid : q \in ToSet(providers)}
  OBVIOUS
<1> QED  BY <1>1, <1>2 DEF EnableProviders, Sharing

LEMMA JoinedAdmit ==
  ASSUME NEW e, NEW p, NEW g, p \in Sharing(g), Joinable(g), p.guid = g, Requests(p, e)
  PROVE  Admits(JoinSettings(g), e)
<1> DEFINE S == Sharing(g)
           s == JoinSettings(g)
<1>1. /\ s.level = UNION {q.level : q \in S} /\ s.any = UNION {q.any : q \in S}
      /\ s.all = UNION {q.all : q \in S} /\ s.ids = UNION {FilterIds(q) : q \in S}
  BY DEF JoinSettings
<1> DEFINE request == [level |-> p.level, any |-> p.any, all |-> p.all, ids |-> {}]
<1>2. Admits(request, e)
  BY DEF Requests
<1>3. request.level = p.level /\ request.any = p.any /\ request.all = p.all
  OBVIOUS
<1> HIDE DEF s, request
<1>4. /\ AtMost(e.level, p.level)
      /\ e.keyword = {} \/ ((p.any = {} \/ e.keyword \cap p.any # {}) /\ p.all \subseteq e.keyword)
  BY <1>2, <1>3 DEF Admits
<1>5. AtMost(e.level, s.level)
  <2>1. p.level \subseteq s.level
    BY <1>1
  <2> QED  BY <1>4, <2>1 DEF AtMost
<1>6. ASSUME e.keyword # {} PROVE s.any = {} \/ e.keyword \cap s.any # {}
  <2>1. (\A q \in S : q.any = {}) \/ (\A q \in S : q.any # {})
    BY DEF Joinable
  <2>2. CASE \A q \in S : q.any = {}
    BY <1>1, <2>2
  <2>3. CASE \A q \in S : q.any # {}
    <3>1. e.keyword \cap p.any # {} /\ p.any \subseteq s.any
      BY <1>1, <1>4, <1>6, <2>3
    <3> QED  BY <3>1
  <2> QED  BY <2>1, <2>2, <2>3
<1>7. ASSUME e.keyword # {} PROVE s.all \subseteq e.keyword
  <2>1. \A q \in S : q.all = p.all
    BY DEF Joinable
  <2> QED  BY <1>1, <1>4, <1>7, <2>1
<1>8. s.ids = {} \/ e.id \in s.ids
  <2> DEFINE filters == UNION {FiltersOf(q) : q \in S}
  <2>1. \/ \A f \in filters : f.ids = {}
        \/ (\A f \in filters : f.ids # {}) /\ (\A q \in S : q.callbacks = <<>>)
    BY DEF Joinable
  <2>2. \A q \in S : \A f \in FiltersOf(q) : f \in filters
    OBVIOUS
  <2> HIDE DEF filters
  <2>3. CASE \A f \in filters : f.ids = {}
    BY <1>1, <2>2, <2>3 DEF FilterIds
  <2>4. CASE (\A f \in filters : f.ids # {}) /\ (\A q \in S : q.callbacks = <<>>)
    <3>1. PICK f \in FiltersOf(p) : e.id \in f.ids
      BY <2>2, <2>4 DEF Requests
    <3>2. e.id \in FilterIds(p)
      BY <3>1 DEF FilterIds
    <3> QED  BY <1>1, <3>2
  <2> QED  BY <2>1, <2>3, <2>4
<1>9. Admits(s, e)
  BY <1>5, <1>6, <1>7, <1>8 DEF Admits
<1> QED  BY <1>9 DEF s

LEMMA Admitted ==
  ASSUME IInv
  PROVE  RequestsAreAdmitted
<1> SUFFICES ASSUME etw # Nil, NEW p \in ToSet(providers), NEW e \in Events,
                    Joinable(p.guid), Requests(p, e)
             PROVE  Admits(etw[p.guid], e)
  BY DEF RequestsAreAdmitted
<1>1. etw[p.guid] = JoinSettings(p.guid) /\ p \in Sharing(p.guid)
  BY JoinedIs
<1> QED  BY <1>1, JoinedAdmit

\* What is known of an event that was dispatched.
LEMMA DispatchedIs ==
  ASSUME IInv, NEW e \in Events, outcome[e] # Nil
  PROVE  /\ Registered /\ Heard(e) /\ Listener(e) \in Registrable /\ Ear(e, Listener(e))
         /\ \E s \in Statuses :
              LET r == ForwardEvents(e, s)
              IN  /\ outcome[e].log = r.log /\ outcome[e].thrown = r.thrown
                  /\ outcome[e].status = IF r.asked THEN s ELSE Nil
                  /\ Told(e, s) = Told(e, outcome[e].status)
<1>1. Registered /\ Heard(e)
  BY DEF IInv
<1>2. Listener(e) \in Registrable /\ Ear(e, Listener(e))
  BY <1>1, FirstIs, EarIs
<1>3. PICK s \in Statuses : outcome[e] = Result(ForwardEvents(e, s), s)
  BY DEF IInv, TreatedAs
<1> DEFINE r == ForwardEvents(e, s)
<1>4. /\ outcome[e].log = r.log /\ outcome[e].thrown = r.thrown
      /\ outcome[e].status = IF r.asked THEN s ELSE Nil
  BY <1>3 DEF Result
<1>5. GetEventType(e) \in Accepts => r.asked
  BY <1>1, ForwardIs
<1> HIDE DEF r
<1>6. Told(e, s) = Told(e, outcome[e].status)
  BY <1>4, <1>5 DEF Told
<1> QED  BY <1>1, <1>2, <1>4, <1>6 DEF r

LEMMA OwnerHears ==
  ASSUME IInv
  PROVE  HeardByOwnerOnly
<1> SUFFICES ASSUME NEW e \in Events, outcome[e] # Nil, NEW i \in DOMAIN outcome[e].log
             PROVE  LET who == outcome[e].log[i][2] IN
                    \/ who \in {Listener(e).name} \cup FilterNames(Listener(e))
                    \/ who = "default" /\ ~Told(e, outcome[e].status)
  BY DEF HeardByOwnerOnly
<1>1. PICK s \in Statuses : /\ outcome[e].log = ForwardEvents(e, s).log
                            /\ Told(e, s) = Told(e, outcome[e].status)
  BY DispatchedIs
<1>2. Registered /\ Heard(e)
  BY DispatchedIs
<1> DEFINE r == ForwardEvents(e, s)
<1>3. Told(e, s) => r \in Runs(Voices(Listener(e)))
  BY <1>2, ForwardIs
<1>4. ~Told(e, s) => r \in Runs({"default"})
  BY <1>2, ForwardIs
<1> HIDE DEF r
<1>5. i \in DOMAIN r.log /\ outcome[e].log[i] = r.log[i]
  BY <1>1 DEF r
<1>6. CASE Told(e, s)
  <2>1. r.log[i][2] \in Voices(Listener(e))
    BY <1>3, <1>5, <1>6, NamesIn
  <2> QED  BY <1>5, <2>1 DEF Voices
<1>7. CASE ~Told(e, s)
  <2>1. r.log[i][2] \in {"default"}
    BY <1>4, <1>5, <1>7, NamesIn
  <2> QED  BY <1>1, <1>5, <1>7, <2>1
<1> QED  BY <1>6, <1>7

\* Whatever the providers of a GUID ask for together reaches them, as long as
\* their requests can be joined, and what comes is heard by the first provider
\* of its GUID and by no other.
THEOREM RequestsSafe == Spec => []RequestsReachTheirOwner
<1>1. IInv => RequestsReachTheirOwner
  BY Admitted, OwnerHears DEF RequestsReachTheirOwner
<1> QED  BY <1>1, SpecIInv, PTL

------------------------------------------------------------------------------
(* Gaps in the schemas, and events that come again.                        *)

\* A missing schema stays with the filter or provider that met it, and every
\* filter does exactly what it does alone.
THEOREM GapsContained == Spec => []SchemaGapsAreContained
<1>1. ASSUME IInv PROVE SchemaGapsAreContained
  <2> SUFFICES ASSUME NEW e \in Events, NEW status \in Statuses, outcome[e] # Nil,
                      outcome[e].status \in {status, Nil}
               PROVE  /\ outcome[e].thrown = "missing" =>
                           outcome[e].log[Len(outcome[e].log)] = <<"schema", "default">>
                      /\ (/\ outcome[e].thrown = "none" /\ Told(e, outcome[e].status)
                          /\ "schema" \notin ToSet(Listener(e).callbacks))
                         => \A f \in FiltersOf(Listener(e)) :
                              Part(outcome[e].log, f.name, Alone(e, status, f).log)
    BY DEF SchemaGapsAreContained, Part, Alone
  <2> DEFINE o == outcome[e]
             L == Listener(e)
  <2>1. PICK s \in Statuses :
           /\ o.log = ForwardEvents(e, s).log /\ o.thrown = ForwardEvents(e, s).thrown
           /\ o.status = (IF ForwardEvents(e, s).asked THEN s ELSE Nil)
           /\ Told(e, s) = Told(e, o.status)
    BY <1>1, DispatchedIs
  <2>2. Registered /\ Heard(e) /\ Ear(e, L)
    BY <1>1, DispatchedIs
  <2>3. s # Nil /\ status # Nil
    BY ProvidersAssumption
  <2> HIDE DEF o, L
  <2>4. ForwardEvents(e, status) = ForwardEvents(e, s)
    <3>1. CASE ForwardEvents(e, s).asked
      BY <2>1, <2>3, <3>1 DEF o
    <3>2. CASE ~ForwardEvents(e, s).asked
      BY <2>2, <3>2, ForwardIs
    <3> QED  BY <3>1, <3>2
  <2>5. Told(e, status) = Told(e, s)
    <3>1. GetEventType(e) \in Accepts => ForwardEvents(e, s).asked
      BY <2>2, ForwardIs
    <3>2. ForwardEvents(e, s).asked => s = status
      BY <2>1, <2>3 DEF o
    <3> QED  BY <3>1, <3>2 DEF Told
  <2> DEFINE r == ForwardEvents(e, status)
  <2>6. Told(e, status) => r = ProviderOnEvent(e, status, First(e), L) /\ r.thrown # "missing"
    BY <2>2, ForwardIs DEF L
  <2>7. ~Told(e, status) /\ r.thrown = "missing" => r.log[Len(r.log)] = <<"schema", "default">>
    BY <2>2, ForwardIs
  <2> HIDE DEF r
  <2>8. o.log = r.log /\ o.thrown = r.thrown /\ Told(e, o.status) = Told(e, status)
    BY <2>1, <2>4, <2>5 DEF r
  <2>9. o.thrown = "missing" => o.log[Len(o.log)] = <<"schema", "default">>
    BY <2>6, <2>7, <2>8
  <2>10. ASSUME o.thrown = "none", Told(e, o.status), "schema" \notin ToSet(L.callbacks),
                NEW f \in FiltersOf(L)
         PROVE  Part(o.log, f.name, Alone(e, status, f).log)
    <3>1. First(e) \in Runs(Voices(L)) /\ First(e).log = <<>> /\ First(e).thrown = "none"
      BY FirstRun
    <3>2. r = ProviderOnEvent(e, status, First(e), L) /\ r.thrown = "none"
      BY <2>6, <2>8, <2>10
    <3>3. Part(r.log, f.name, Alone(e, status, f).log)
      BY <2>2, <2>10, <3>1, <3>2, ProviderParts
    <3> QED  BY <2>8, <3>3
  <2> QED  BY <2>9, <2>10 DEF o, L
<1> QED  BY <1>1, SpecIInv, PTL

\* An event that comes again is treated as it was before, whatever TDH says then.
THEOREM AlwaysTreatedAlike == Spec => TreatedAlike
<1>1. ASSUME IInv, [Next]_vars
      PROVE  [\A e \in Events : outcome[e] # Nil => outcome'[e] = outcome[e]]_vars
  <2> SUFFICES ASSUME NEW e \in Events, outcome[e] # Nil PROVE outcome'[e] = outcome[e]
    OBVIOUS
  <2>1. ASSUME NEW x \in Events, Deliver(x) PROVE outcome'[e] = outcome[e]
    <3>1. PICK s : Arrives(x, s, ForwardEvents(x, s))
      BY <2>1, DeliverArrives
    <3>2. CASE x = e
      BY <1>1, <3>1, <3>2, SameAgain
    <3>3. CASE x # e
      BY <1>1, <3>1, <3>3 DEF Arrives, IInv
    <3> QED  BY <3>2, <3>3
  <2>2. ASSUME outcome' = outcome PROVE outcome'[e] = outcome[e]
    BY <2>2
  <2> QED  BY <1>1, <2>1, <2>2
           DEF Next, vars, Enable, Open, Parse, ParsePointer, ParseStatus, CallbackReturns
<1> QED  BY <1>1, SpecIInv, PTL DEF Spec, TreatedAlike

------------------------------------------------------------------------------
(* What a callback reads.                                                  *)

LEMMA OrderIsFree ==
  ASSUME IInv
  PROVE  ParseOrderFree
<1> SUFFICES ASSUME reading # Nil, Distinct(reading.event),
                    NEW name \in Names(reading.event), NEW type \in Types
             PROVE  LET now == TryParse(reading.event, reading.parser, name, type)
                        fresh == TryParse(reading.event, NewParser, name, type)
                    IN  now.ok = fresh.ok /\ now.value = fresh.value
  BY DEF ParseOrderFree
<1>1. /\ Described(reading.event) /\ IsWalk(reading.event, reading.parser)
      /\ IsWalk(reading.event, NewParser)
  BY ReadIs, NewParserIsWalk
<1> QED  BY <1>1, ParsedAlike

LEMMA WrittenIsRead ==
  ASSUME IInv
  PROVE  ReadsWhatWasWritten
<1> DEFINE event == reading.event
<1> SUFFICES ASSUME reading # Nil, Distinct(event), LoggedWhole(event)
             PROVE  /\ \A i \in DOMAIN event.props :
                         LET bytes == TryParse(event, reading.parser, event.props[i].name, Binary)
                         IN  bytes.ok /\ bytes.value = event.written[i]
                    /\ (\A i \in 1..(PropertyCount(event) - 1) : event.written[i] # <<>>)
                       => ~Exhausted(event, reading.parser)
  BY DEF ReadsWhatWasWritten, Binary
<1>1. Written(event) /\ IsWalk(event, reading.parser)
  BY ReadIs
<1>2. DOMAIN event.props = 1..PropertyCount(event)
  BY <1>1, LenProperties DEF Written, Described, PropertyCount
<1> HIDE DEF event
<1> QED  BY <1>1, <1>2, ReadWhole, NotExhausted

------------------------------------------------------------------------------
(* What a filter makes of a property.                                      *)

\* w begins behind the first n cells of v.
Behind(v, w, n) == \A k \in DOMAIN w : n + k \in DOMAIN v /\ v[n + k] = w[k]

LEMMA PrefixIs ==
  ASSUME NEW v \in Seq(Nat), NEW w \in Seq(Nat)
  PROVE  IsPrefix(w, v) <=> Behind(v, w, 0)
<1>1. /\ Len(v) \in Nat /\ Len(w) \in Nat /\ DOMAIN v = 1..Len(v) /\ DOMAIN w = 1..Len(w)
      /\ \A i \in 1..Len(w) : w[i] \in Nat
      /\ \A i \in 1..Len(v) : v[i] \in Nat
  BY LenProperties, ElementOfSeq
<1> DEFINE a == SubSeq(w, 1, Len(w))
           b == SubSeq(v, 1, Len(w))
<1>2. a = w
  BY SubSeqFull
<1>3. ASSUME Len(w) <= Len(v)
      PROVE  /\ b \in Seq(Nat) /\ Len(b) = Len(w)
             /\ \A i \in 1..Len(w) : b[i] = v[i]
  <2>1. \A i \in 1..Len(w) : v[i] \in Nat
    BY <1>1, <1>3
  <2>2. /\ b \in Seq(Nat)
        /\ Len(b) = IF 1 <= Len(w) THEN Len(w) - 1 + 1 ELSE 0
        /\ \A i \in 1..(Len(w) - 1 + 1) : b[i] = v[1 + i - 1]
    BY <1>1, <2>1, SubSeqProperties
  <2>3. ASSUME NEW i \in 1..Len(w) PROVE b[i] = v[i]
    <3>1. i \in 1..(Len(w) - 1 + 1) /\ 1 + i - 1 = i
      BY <1>1
    <3> HIDE DEF b
    <3> QED  BY <2>2, <3>1
  <2>4. Len(b) = Len(w)
    <3> HIDE DEF b
    <3> QED  BY <1>1, <2>2
  <2> QED  BY <2>2, <2>3, <2>4
<1> HIDE DEF a, b
<1>4. ASSUME IsPrefix(w, v) PROVE Behind(v, w, 0)
  <2>1. Len(w) <= Len(v) /\ a = b
    BY <1>4 DEF IsPrefix, a, b
  <2>2. ASSUME NEW k \in 1..Len(w) PROVE 0 + k \in 1..Len(v) /\ v[0 + k] = w[k]
    <3>1. 0 + k = k /\ k \in 1..Len(v)
      BY <1>1, <2>1
    <3> QED  BY <1>2, <1>3, <2>1, <3>1
  <2> QED  BY <1>1, <2>2 DEF Behind
<1>5. ASSUME Behind(v, w, 0) PROVE IsPrefix(w, v)
  <2>1. ASSUME NEW k \in 1..Len(w) PROVE k \in 1..Len(v) /\ v[k] = w[k]
    <3>1. 0 + k = k
      OBVIOUS
    <3> QED  BY <1>1, <1>5, <3>1 DEF Behind
  <2>2. Len(w) <= Len(v)
    <3>1. CASE Len(w) = 0
      BY <1>1, <3>1
    <3>2. CASE Len(w) # 0
      <4>1. Len(w) \in 1..Len(w)
        BY <1>1, <3>2
      <4>2. Len(w) \in 1..Len(v)
        BY <2>1, <4>1
      <4> QED  BY <1>1, <4>2
    <3> QED  BY <3>1, <3>2
  <2>3. b = w
    BY <1>3, <2>1, <2>2, SeqEqual
  <2> QED  BY <1>2, <2>2, <2>3 DEF IsPrefix, a, b
<1> QED  BY <1>4, <1>5

LEMMA ReverseIs ==
  ASSUME NEW v \in Seq(Nat)
  PROVE  /\ Reverse(v) \in Seq(Nat) /\ Len(Reverse(v)) = Len(v)
         /\ \A i \in 1..Len(v) : Reverse(v)[i] = v[Len(v) - i + 1]
<1> DEFINE n == Len(v)
<1>1. n \in Nat /\ \A i \in 1..n : v[i] \in Nat
  BY LenProperties, ElementOfSeq
<1>2. \A i \in 1..n : v[(n - i) + 1] \in Nat
  BY <1>1
<1>3. Reverse(v) = [i \in 1..n |-> v[(n - i) + 1]]
  BY DEF Reverse
<1> HIDE DEF n
<1>4. Reverse(v) \in Seq(Nat)
  BY <1>1, <1>2, <1>3, IsASeq
<1>5. Len(Reverse(v)) = n
  BY <1>1, <1>3, <1>4, LenProperties
<1> QED  BY <1>3, <1>4, <1>5 DEF n

LEMMA SuffixIs ==
  ASSUME NEW v \in Seq(Nat), NEW w \in Seq(Nat)
  PROVE  IsSuffix(w, v) <=> Len(v) - Len(w) >= 0 /\ Behind(v, w, Len(v) - Len(w))
<1> DEFINE m == Len(v)
           n == Len(w)
<1>1. m \in Nat /\ n \in Nat /\ DOMAIN v = 1..m /\ DOMAIN w = 1..n
  BY LenProperties
<1>2. /\ Reverse(v) \in Seq(Nat) /\ DOMAIN Reverse(v) = 1..m
      /\ \A i \in 1..m : Reverse(v)[i] = v[m - i + 1]
  BY ReverseIs, LenProperties
<1>3. /\ Reverse(w) \in Seq(Nat) /\ DOMAIN Reverse(w) = 1..n
      /\ \A i \in 1..n : Reverse(w)[i] = w[n - i + 1]
  BY ReverseIs, LenProperties
<1>4. IsSuffix(w, v) <=> Behind(Reverse(v), Reverse(w), 0)
  BY <1>2, <1>3, PrefixIs DEF IsSuffix
<1> DEFINE a == Reverse(v)
           b == Reverse(w)
<1> HIDE DEF m, n, a, b
<1>5. ASSUME Behind(a, b, 0) PROVE m - n >= 0 /\ Behind(v, w, m - n)
  <2>1. ASSUME NEW i \in 1..n PROVE i \in 1..m /\ v[m - i + 1] = w[n - i + 1]
    <3>1. 0 + i = i
      OBVIOUS
    <3>2. i \in DOMAIN a /\ a[i] = b[i]
      BY <1>3, <1>5, <3>1 DEF Behind, b
    <3> QED  BY <1>2, <1>3, <3>2 DEF a, b
  <2>2. m - n >= 0
    <3>1. CASE n = 0
      BY <1>1, <3>1
    <3>2. CASE n # 0
      <4>1. n \in 1..n
        BY <1>1, <3>2
      <4>2. n \in 1..m
        BY <2>1, <4>1
      <4> QED  BY <1>1, <4>2
    <3> QED  BY <3>1, <3>2
  <2>3. ASSUME NEW k \in 1..n PROVE (m - n) + k \in 1..m /\ v[(m - n) + k] = w[k]
    <3>1. PICK i \in 1..n : i = n - k + 1
      BY <1>1
    <3>2. m - i + 1 = (m - n) + k /\ n - i + 1 = k /\ (m - n) + k \in 1..m
      BY <1>1, <2>2, <3>1
    <3> QED  BY <2>1, <3>2
  <2> QED  BY <1>1, <2>2, <2>3 DEF Behind
<1>6. ASSUME m - n >= 0, Behind(v, w, m - n) PROVE Behind(a, b, 0)
  <2>1. ASSUME NEW i \in 1..n PROVE 0 + i \in 1..m /\ a[0 + i] = b[i]
    <3>1. PICK k \in 1..n : k = n - i + 1
      BY <1>1
    <3>2. (m - n) + k = m - i + 1 /\ i \in 1..m /\ 0 + i = i
      BY <1>1, <1>6, <3>1
    <3>3. v[(m - n) + k] = w[k]
      BY <1>1, <1>6 DEF Behind
    <3>4. a[i] = v[m - i + 1]
      BY <1>2, <3>2 DEF a
    <3>5. b[i] = w[n - i + 1]
      BY <1>3 DEF b
    <3> QED  BY <3>1, <3>2, <3>3, <3>4, <3>5
  <2> QED  BY <1>2, <1>3, <2>1 DEF Behind, a, b
<1> QED  BY <1>4, <1>5, <1>6 DEF a, b, m, n

LEMMA ContainsIs ==
  ASSUME NEW v \in Seq(Nat), NEW w \in Seq(Nat)
  PROVE  ContainsRange(v, w) <=> \E n \in 0..Len(v) : Behind(v, w, n)
<1>1. /\ Len(v) \in Nat /\ Len(w) \in Nat /\ DOMAIN v = 1..Len(v) /\ DOMAIN w = 1..Len(w)
      /\ \A i \in 1..Len(v) : v[i] \in Nat
  BY LenProperties, ElementOfSeq
<1>2. ASSUME NEW n \in 0..Len(v)
      PROVE  IsPrefix(w, SubSeq(v, n + 1, Len(v))) <=> Behind(v, w, n)
  <2> DEFINE u == SubSeq(v, n + 1, Len(v))
  <2>1. \A i \in (n + 1)..Len(v) : v[i] \in Nat
    BY <1>1
  <2>2. /\ u \in Seq(Nat)
        /\ Len(u) = IF n + 1 <= Len(v) THEN Len(v) - (n + 1) + 1 ELSE 0
        /\ \A i \in 1..(Len(v) - (n + 1) + 1) : u[i] = v[(n + 1) + i - 1]
    BY <1>1, <2>1, SubSeqProperties
  <2> HIDE DEF u
  <2>3. DOMAIN u = 1..(Len(v) - n)
    <3>1. DOMAIN u = 1..Len(u)
      BY <2>2, LenProperties
    <3>2. Len(u) = Len(v) - n
      <4>1. PICK l \in Nat : l = Len(v) /\ n \in 0..l
        BY <1>1
      <4>2. Len(u) = IF n + 1 <= l THEN l - (n + 1) + 1 ELSE 0
        BY <2>2, <4>1
      <4>3. (IF n + 1 <= l THEN l - (n + 1) + 1 ELSE 0) = l - n
        BY <4>1
      <4> QED  BY <4>1, <4>2, <4>3
    <3> QED  BY <3>1, <3>2
  <2>4. ASSUME NEW i \in 1..(Len(v) - n) PROVE u[i] = v[n + i]
    <3>1. i \in 1..(Len(v) - (n + 1) + 1) /\ (n + 1) + i - 1 = n + i
      BY <1>1
    <3> QED  BY <2>2, <3>1
  <2>5. ASSUME NEW k \in 1..Len(w)
        PROVE  (0 + k \in DOMAIN u /\ u[0 + k] = w[k]) <=> (n + k \in DOMAIN v /\ v[n + k] = w[k])
    <3>1. 0 + k = k /\ (k \in 1..(Len(v) - n) <=> n + k \in 1..Len(v))
      BY <1>1
    <3> QED  BY <1>1, <2>3, <2>4, <3>1
  <2>6. Behind(u, w, 0) <=> Behind(v, w, n)
    BY <1>1, <2>5 DEF Behind
  <2> QED  BY <2>2, <2>6, PrefixIs DEF u
<1> QED  BY <1>2 DEF ContainsRange

LEMMA EqualIs ==
  ASSUME NEW v \in Seq(Nat), NEW w \in Seq(Nat)
  PROVE  v = w <=> Len(v) - Len(w) = 0 /\ Behind(v, w, 0)
<1>1. Len(v) \in Nat /\ Len(w) \in Nat /\ DOMAIN v = 1..Len(v) /\ DOMAIN w = 1..Len(w)
  BY LenProperties
<1>2. \A k \in 1..Len(w) : 0 + k = k
  OBVIOUS
<1>3. ASSUME v = w PROVE Len(v) - Len(w) = 0 /\ Behind(v, w, 0)
  BY <1>1, <1>2, <1>3 DEF Behind
<1>4. ASSUME Len(v) - Len(w) = 0, Behind(v, w, 0) PROVE v = w
  <2>1. Len(v) = Len(w)
    <3>1. PICK l, m \in Nat : l = Len(v) /\ m = Len(w)
      BY <1>1
    <3>2. l - m = 0
      BY <1>4, <3>1
    <3> QED  BY <3>1, <3>2
  <2>2. \A k \in 1..Len(v) : v[k] = w[k]
    BY <1>1, <1>2, <1>4, <2>1 DEF Behind
  <2> QED  BY <2>1, <2>2, SeqEqual
<1> QED  BY <1>3, <1>4

\* The cells a predicate compares.
Folded(p, x) == IF p.ignoreCase THEN ToUpper(x) ELSE x

LEMMA FoldedIs ==
  ASSUME NEW p, NEW x \in Seq(Nat)
  PROVE  /\ Folded(p, x) \in Seq(Nat) /\ Len(Folded(p, x)) = Len(x)
         /\ DOMAIN Folded(p, x) = DOMAIN x /\ DOMAIN x = 1..Len(x) /\ Len(x) \in Nat
         /\ p.ignoreCase => \A i \in DOMAIN x :
              Folded(p, x)[i] = IF x[i] > 1 THEN x[i] - (x[i] % 2) ELSE x[i]
<1> DEFINE n == Len(x)
           up(i) == IF x[i] > 1 THEN x[i] - (x[i] % 2) ELSE x[i]
<1>1. n \in Nat /\ DOMAIN x = 1..n
  BY LenProperties
<1>2. ASSUME NEW i \in 1..n PROVE up(i) \in Nat
  <2>1. x[i] \in Nat
    BY ElementOfSeq
  <2>2. PICK c \in Nat : c = x[i]
    BY <2>1
  <2>3. c > 1 => c - (c % 2) \in Nat
    OBVIOUS
  <2> QED  BY <2>2, <2>3
<1>3. ToUpper(x) = [i \in 1..n |-> up(i)]
  BY <1>1 DEF ToUpper
<1> HIDE DEF up, n
<1>4. ToUpper(x) \in Seq(Nat)
  BY <1>1, <1>2, <1>3, IsASeq
<1>5. Len(ToUpper(x)) = n /\ DOMAIN ToUpper(x) = 1..n
  BY <1>1, <1>3, <1>4, LenProperties
<1>6. \A i \in 1..n : ToUpper(x)[i] = up(i)
  BY <1>3
<1> QED  BY <1>1, <1>4, <1>5, <1>6 DEF Folded, up, n

LEMMA SameLetter ==
  ASSUME NEW c \in Nat, NEW d \in Nat
  PROVE  (IF c > 1 THEN c - (c % 2) ELSE c) = (IF d > 1 THEN d - (d % 2) ELSE d)
           <=> (c = d \/ (c > 1 /\ d > 1 /\ c \div 2 = d \div 2))
<1>1. /\ c = 2 * (c \div 2) + (c % 2) /\ c % 2 \in 0..1 /\ c \div 2 \in Int
      /\ d = 2 * (d \div 2) + (d % 2) /\ d % 2 \in 0..1 /\ d \div 2 \in Int
  BY Z3
<1>2. PICK a \in Int, b \in 0..1, m \in Int, n \in 0..1 :
         c \div 2 = a /\ c % 2 = b /\ d \div 2 = m /\ d % 2 = n
  BY <1>1
<1>3. c = 2 * a + b /\ d = 2 * m + n
  BY <1>1, <1>2
<1>4. (IF c > 1 THEN c - b ELSE c) = (IF d > 1 THEN d - n ELSE d)
        <=> (c = d \/ (c > 1 /\ d > 1 /\ a = m))
  BY <1>3
<1> QED  BY <1>2, <1>4

LEMMA CompareIs ==
  ASSUME NEW p, p.expected \in Seq(Nat), p.ignoreCase \in BOOLEAN, NEW x \in Seq(Nat)
  PROVE  LET at(n) == \A k \in DOMAIN p.expected : n + k \in DOMAIN x /\ Near(p, x[n + k], p.expected[k])
             same == Len(x) - Len(p.expected)
         IN  Compare(p, x) <=>
               \/ p.compare = "equals" /\ same = 0 /\ at(0)
               \/ p.compare = "starts_with" /\ at(0)
               \/ p.compare = "ends_with" /\ same >= 0 /\ at(same)
               \/ p.compare = "contains" /\ \E n \in 0..Len(x) : at(n)
<1> DEFINE y == p.expected
           v == Folded(p, x)
           w == Folded(p, y)
           at(n) == \A k \in DOMAIN y : n + k \in DOMAIN x /\ Near(p, x[n + k], y[k])
           same == Len(x) - Len(y)
<1>1. /\ v \in Seq(Nat) /\ Len(v) = Len(x) /\ DOMAIN v = DOMAIN x
      /\ p.ignoreCase => \A i \in DOMAIN x : v[i] = IF x[i] > 1 THEN x[i] - (x[i] % 2) ELSE x[i]
      /\ \A i \in DOMAIN x : x[i] \in Nat
  BY FoldedIs, ElementOfSeq
<1>2. /\ w \in Seq(Nat) /\ Len(w) = Len(y) /\ DOMAIN w = DOMAIN y
      /\ p.ignoreCase => \A i \in DOMAIN y : w[i] = IF y[i] > 1 THEN y[i] - (y[i] % 2) ELSE y[i]
      /\ \A i \in DOMAIN y : y[i] \in Nat
  BY FoldedIs, ElementOfSeq
<1>3. ~p.ignoreCase => v = x /\ w = y
  BY DEF Folded
<1>4. Compare(p, x) <=>
        \/ p.compare = "equals" /\ v = w
        \/ p.compare = "contains" /\ ContainsRange(v, w)
        \/ p.compare = "starts_with" /\ IsPrefix(w, v)
        \/ p.compare = "ends_with" /\ IsSuffix(w, v)
  BY DEF Compare, Folded, StartsWith, EndsWith
<1> HIDE DEF v, w, y
<1>5. ASSUME NEW i \in DOMAIN x, NEW k \in DOMAIN y PROVE v[i] = w[k] <=> Near(p, x[i], y[k])
  <2>1. CASE p.ignoreCase
    <3>1. x[i] \in Nat /\ y[k] \in Nat
      BY <1>1, <1>2
    <3>2. (IF x[i] > 1 THEN x[i] - (x[i] % 2) ELSE x[i]) = (IF y[k] > 1 THEN y[k] - (y[k] % 2) ELSE y[k])
           <=> (x[i] = y[k] \/ (x[i] > 1 /\ y[k] > 1 /\ x[i] \div 2 = y[k] \div 2))
      BY <3>1, SameLetter
    <3>3. /\ v[i] = IF x[i] > 1 THEN x[i] - (x[i] % 2) ELSE x[i]
          /\ w[k] = IF y[k] > 1 THEN y[k] - (y[k] % 2) ELSE y[k]
      BY <1>1, <1>2, <2>1
    <3> QED  BY <2>1, <3>2, <3>3 DEF Near
  <2>2. CASE ~p.ignoreCase
    BY <1>3, <2>2 DEF Near
  <2> QED  BY <2>1, <2>2
<1>6. ASSUME NEW n PROVE Behind(v, w, n) <=> at(n)
  BY <1>1, <1>2, <1>5 DEF Behind
<1> HIDE DEF at
<1>7. v = w <=> same = 0 /\ at(0)
  BY <1>1, <1>2, <1>6, EqualIs
<1>8. IsPrefix(w, v) <=> at(0)
  BY <1>1, <1>2, <1>6, PrefixIs
<1>9. IsSuffix(w, v) <=> same >= 0 /\ at(same)
  BY <1>1, <1>2, <1>6, SuffixIs
<1>10. ContainsRange(v, w) <=> \E n \in 0..Len(x) : at(n)
  BY <1>1, <1>2, <1>6, ContainsIs
<1> HIDE DEF same
<1>11. Compare(p, x) <=>
               \/ p.compare = "equals" /\ same = 0 /\ at(0)
               \/ p.compare = "starts_with" /\ at(0)
               \/ p.compare = "ends_with" /\ same >= 0 /\ at(same)
               \/ p.compare = "contains" /\ \E n \in 0..Len(x) : at(n)
  BY <1>4, <1>7, <1>8, <1>9, <1>10
<1> QED  BY <1>11 DEF at, same, y

------------------------------------------------------------------------------
(* What a filter that compares a property hears.                           *)

LEMMA ContentIs ==
  ASSUME NEW cells \in Seq(Nat)
  PROVE  Content(cells) \in Seq(Nat) /\ ParseString(cells) = Value(Content(cells))
<1> DEFINE content == {i \in 1..Len(cells) : cells[i] # 0}
           n == IF content = {} THEN 0 ELSE Max(content)
<1>1. Len(cells) \in Nat /\ DOMAIN cells = 1..Len(cells) /\ \A i \in 1..Len(cells) : cells[i] \in Nat
  BY LenProperties, ElementOfSeq
<1>2. StringContentLength(cells) = n
  BY <1>1 DEF StringContentLength
<1>3. SelectLastInSeq(cells, LAMBDA cell : cell # 0) = n
  BY DEF SelectLastInSeq
<1>4. ASSUME content # {} PROVE Max(content) \in content
  <2> DEFINE L == Len(cells)
             down == {L - i : i \in content}
  <2>1. content \subseteq 1..L /\ L \in Nat
    BY <1>1
  <2> HIDE DEF content, L
  <2>2. down \in SUBSET Nat
    BY <2>1
  <2>3. down # {}
    BY <1>4
  <2>4. Min(down) \in down /\ \A k \in down : Min(down) <= k
    <3> HIDE DEF down
    <3> QED  BY <2>2, <2>3, Least
  <2>5. PICK m \in content : Min(down) = L - m
    BY <2>4
  <2>6. ASSUME NEW i \in content PROVE m >= i
    <3>1. L - m <= L - i /\ i \in Nat /\ m \in Nat
      <4>1. L - i \in down
        BY DEF down
      <4> HIDE DEF down
      <4> QED  BY <2>1, <2>4, <2>5, <4>1
    <3> QED  BY <2>1, <3>1
  <2> QED  BY <2>6 DEF Max
<1>5. n \in 0..Len(cells)
  BY <1>1, <1>4
<1>6. Content(cells) = SubSeq(cells, 1, n)
  BY <1>3 DEF Content
<1>7. SubSeq(cells, 1, n) \in Seq(Nat)
  <2> HIDE DEF n
  <2>1. \A i \in 1..n : cells[i] \in Nat
    BY <1>1, <1>5
  <2> QED  BY <1>5, <2>1, SubSeqProperties
<1>8. ParseString(cells) = Value(SubSeq(cells, 1, n))
  BY <1>2 DEF ParseString
<1> QED  BY <1>6, <1>7, <1>8

LEMMA NoView ==
  ASSUME NEW event, Described(event), NEW name, name \notin Names(event)
  PROVE  ViewOf(event, NewParser, name).ok = FALSE
<1> DEFINE index == IndexOf(event, name, NewParser.hint)
<1>1. IsWalk(event, NewParser) /\ PropertyCount(event) \in Nat
  BY NewParserIsWalk, LenProperties DEF PropertyCount, Described
<1>2. /\ index \in 0..PropertyCount(event)
      /\ index < PropertyCount(event) =>
           index + 1 \in DOMAIN event.props /\ event.props[index + 1].name = name
  BY IndexOfIs
<1> HIDE DEF index
<1>3. index = PropertyCount(event)
  BY <1>1, <1>2 DEF Names
<1>4. FindProperty(event, NewParser, name).status = "absent"
  BY <1>1, <1>3, FindPropertyIs DEF index
<1> QED  BY <1>4 DEF ViewOf, Throws

LEMMA ViewIs ==
  ASSUME NEW event, Written(event), LoggedWhole(event), Distinct(event),
         NEW i \in 1..PropertyCount(event)
  PROVE  ViewOf(event, NewParser, event.props[i].name) = Value(Content(event.written[i]))
<1> DEFINE found == FindProperty(event, NewParser, event.props[i].name)
<1>1. IsWalk(event, NewParser)
  BY NewParserIsWalk DEF Written
<1>2. /\ found.status = "found"
      /\ SubSeq(event.data, found.place.at + 1, found.place.at + found.place.length)
           = event.written[i]
  BY <1>1, FoundWhole
<1>3. event.written[i] \in Seq(Nat)
  BY CellsAre
<1>4. ParseString(event.written[i]) = Value(Content(event.written[i]))
  BY <1>3, ContentIs
<1> HIDE DEF found
<1>5. ViewOf(event, NewParser, event.props[i].name) =
        IF found.status # "found" THEN Throws
        ELSE ParseString(SubSeq(event.data, found.place.at + 1,
                                found.place.at + found.place.length))
  BY DEF ViewOf, found
<1> QED  BY <1>2, <1>4, <1>5

LEMMA MatchesIs ==
  ASSUME NEW e \in Events, LoggedWhole(e), Distinct(e),
         NEW p, p.expected \in Seq(Nat), p.ignoreCase \in BOOLEAN
  PROVE  LET i == CHOOSE i \in DOMAIN e.props : e.props[i].name = p.name
         IN  Matches(ViewOf(e, NewParser, p.name), p) <=>
               p.name \in Names(e) /\ Says(p, Content(e.written[i]))
<1> DEFINE i == CHOOSE i \in DOMAIN e.props : e.props[i].name = p.name
           view == ViewOf(e, NewParser, p.name)
<1>1. Written(e) /\ Described(e)
  BY WrittenIs DEF Written
<1>2. DOMAIN e.props = 1..PropertyCount(e)
  BY <1>1, LenProperties DEF Described, PropertyCount
<1>3. CASE p.name \notin Names(e)
  BY <1>1, <1>3, NoView DEF Matches
<1>4. CASE p.name \in Names(e)
  <2>1. i \in DOMAIN e.props /\ e.props[i].name = p.name
    BY <1>4 DEF Names
  <2> HIDE DEF i
  <2>2. view = Value(Content(e.written[i]))
    <3>1. ViewOf(e, NewParser, e.props[i].name) = Value(Content(e.written[i]))
      BY <1>1, <1>2, <2>1, ViewIs
    <3> QED  BY <2>1, <3>1
  <2>3. view.ok = TRUE /\ view.value = Content(e.written[i])
    <3> HIDE DEF view
    <3> QED  BY <2>2 DEF Value
  <2>4. Content(e.written[i]) \in Seq(Nat)
    BY <1>1, <1>2, <2>1, CellsAre, ContentIs
  <2> DEFINE x == Content(e.written[i])
  <2> HIDE DEF x, view
  <2>5. Compare(p, x) <=> Says(p, x)
    BY <2>4, CompareIs DEF Says, x
  <2> QED  BY <1>4, <2>3, <2>5 DEF Matches, x, view, i
<1> QED  BY <1>3, <1>4

\* With a schema, a filter that has a callback calls it when its predicate holds.
LEMMA FilterHears ==
  ASSUME NEW e, NEW f, Sound(e, f), f.callbacks # <<>>, NEW b \in BOOLEAN,
         Eval(e, "schema", f.predicate) = WithSchema("schema", b)
  PROVE  (Alone(e, "schema", f).log # <<>>) <=> b
<1> DEFINE r == Eval(e, "schema", f.predicate)
           a == Asked(NoRun, r.asked)
           c == Calls("schema", NoRun, f.callbacks, f.name)
           j == Judging("schema", NoRun, f, r)
<1>1. r.v = Truth(b) /\ r.asked = TRUE /\ "schema" \in Statuses
  BY DEF WithSchema, Verdict, Statuses
<1>2. NoRun.thrown = "none" /\ f.callbacks \in Seq(CallbackKinds)
  BY NoRunIs DEF Sound
<1>3. Alone(e, "schema", f) = IF r.v = "false" THEN a ELSE Catch(j, f.errors, f.name)
  BY <1>2, FilterIs DEF Alone
<1> HIDE DEF r, c
<1>4. a = [log |-> <<>>, thrown |-> "none", asked |-> TRUE]
  BY <1>1, NoRunIs
<1> HIDE DEF a
<1>5. a.log = <<>> /\ a.thrown = "none" /\ a.asked = TRUE
  BY ONLY <1>4
<1>6. CASE ~b
  <2>1. r.v = "false"
    BY <1>1, <1>6 DEF Truth
  <2> QED  BY <1>3, <1>5, <1>6, <2>1
<1>7. CASE b
  <2>1. r.v = "true"
    BY <1>1, <1>7 DEF Truth
  <2>2. j = Calls("schema", a, f.callbacks, f.name)
    BY <2>1 DEF Judging, a
  <2> HIDE DEF j
  <2>3. Calls("schema", a, f.callbacks, f.name) = Then(a, c)
    BY <1>1, <1>2, <1>5, CallsThen DEF c
  <2>4. c \in Runs({f.name}) /\ c.thrown = "none" /\ c.log # <<>>
    BY <1>1, <1>2, CallsAlone DEF c
  <2>5. j.thrown = "none" /\ j.log = c.log
    <3>1. <<>> \o c.log = c.log
      BY <2>4, RunIs, ConcatEmptySeq
    <3>2. j = [log |-> <<>> \o c.log, thrown |-> c.thrown, asked |-> a.asked \/ c.asked]
      BY <1>5, <2>2, <2>3 DEF Then
    <3>3. j.thrown = c.thrown /\ j.log = <<>> \o c.log
      BY ONLY <3>2
    <3> QED  BY <2>4, <3>1, <3>3
  <2>6. Catch(j, f.errors, f.name) = j
    BY <2>5 DEF Catch
  <2> QED  BY <1>3, <1>7, <2>1, <2>4, <2>5, <2>6
<1> QED  BY <1>6, <1>7

LEMMA PartIsHeard ==
  ASSUME NEW S, NEW log \in Seq(S), NEW name, NEW own, Part(log, name, own)
  PROVE  (\E n \in DOMAIN log : log[n][2] = name) <=> own # <<>>
<1>1. Len(log) \in Nat /\ DOMAIN log = 1..Len(log) /\ \A i \in 1..Len(log) : log[i] \in S
  BY LenProperties, ElementOfSeq
<1>2. PICK from, to \in 0..Len(log) :
        /\ SubSeq(log, from + 1, to) = own
        /\ \A i \in DOMAIN log : log[i][2] = name <=> i \in (from + 1)..to
  BY DEF Part
<1>3. /\ own \in Seq(S)
      /\ Len(own) = IF from + 1 <= to THEN to - (from + 1) + 1 ELSE 0
  <2>1. \A i \in (from + 1)..to : log[i] \in S
    BY <1>1, <1>2
  <2>2. from + 1 \in Int /\ to \in Int
    BY <1>1, <1>2
  <2> QED  BY <1>2, <2>1, <2>2, SubSeqProperties
<1>4. CASE from + 1 <= to
  <2>1. to \in DOMAIN log /\ to \in (from + 1)..to
    BY <1>1, <1>2, <1>4
  <2>2. own # <<>>
    <3>1. Len(own) = to - (from + 1) + 1 /\ to - (from + 1) + 1 # 0
      BY <1>1, <1>2, <1>3, <1>4
    <3> QED  BY <3>1, EmptySeq
  <2> QED  BY <1>2, <2>1, <2>2
<1>5. CASE ~(from + 1 <= to)
  <2>1. (from + 1)..to = {}
    BY <1>1, <1>2, <1>5
  <2>2. own = <<>>
    BY <1>3, <1>5, EmptySeq
  <2> QED  BY <1>2, <2>1, <2>2
<1> QED  BY <1>4, <1>5

LEMMA ViewsHear ==
  ASSUME IInv
  PROVE  ViewsAreTrue
<1> SUFFICES ASSUME NEW e \in Events, outcome[e] # Nil, outcome[e].status = "schema",
                    outcome[e].thrown = "none", Told(e, "schema"), LoggedWhole(e), Distinct(e),
                    NEW f \in FiltersOf(Listener(e)), f.predicate.op = "property_view",
                    f.callbacks # <<>>
             PROVE  LET p == f.predicate
                        i == CHOOSE i \in DOMAIN e.props : e.props[i].name = p.name
                    IN  (\E n \in DOMAIN outcome[e].log : outcome[e].log[n][2] = f.name) <=>
                          p.name \in Names(e) /\ Says(p, Content(e.written[i]))
  BY DEF ViewsAreTrue
<1> DEFINE L == Listener(e)
           p == f.predicate
           truth == Matches(ViewOf(e, NewParser, p.name), p)
<1>1. PICK s \in Statuses :
         /\ outcome[e].log = ForwardEvents(e, s).log /\ outcome[e].thrown = ForwardEvents(e, s).thrown
         /\ outcome[e].status = (IF ForwardEvents(e, s).asked THEN s ELSE Nil)
  BY DispatchedIs
<1>2. /\ Registered /\ Heard(e) /\ L \in Registrable /\ Ear(e, L)
  BY DispatchedIs
<1>3. s = "schema" /\ "schema" \in Statuses
  <2>1. "schema" \in Statuses
    BY DEF Statuses
  <2> QED  BY <1>1, <2>1, ProvidersAssumption
<1>4. Sound(e, f)
  BY <1>2 DEF Ear
<1>5. /\ Eval(e, "schema", p) = PropertyView(e, "schema", p)
      /\ p.expected \in Seq(Nat) /\ p.ignoreCase \in BOOLEAN
  BY <1>2, <1>3, EvalAssumption
<1> HIDE DEF L
<1>6. truth \in BOOLEAN
  <2>1. ASSUME NEW x PROVE Matches(x, p) \in BOOLEAN
    BY DEF Matches
  <2> QED  BY <2>1
<1>7. Eval(e, "schema", f.predicate) = WithSchema("schema", truth)
  BY <1>5 DEF PropertyView
<1> HIDE DEF truth
<1>8. (Alone(e, "schema", f).log # <<>>) <=> truth
  BY <1>4, <1>6, <1>7, FilterHears
<1> DEFINE r == ForwardEvents(e, "schema")
<1>9. /\ r = ProviderOnEvent(e, "schema", First(e), L) /\ r \in Runs(Voices(L))
      /\ r.thrown = "none" /\ outcome[e].log = r.log
  BY <1>1, <1>2, <1>3, ForwardIs DEF L
<1> HIDE DEF r
<1>10. Part(r.log, f.name, Alone(e, "schema", f).log)
  <2>1. First(e) \in Runs(Voices(L)) /\ First(e).log = <<>> /\ First(e).thrown = "none"
    BY FirstRun
  <2>2. f \in FiltersOf(L)
    BY DEF L
  <2> QED  BY <1>2, <1>3, <1>9, <2>1, <2>2, ProviderParts
<1>11. (\E n \in DOMAIN outcome[e].log : outcome[e].log[n][2] = f.name) <=> truth
  <2>1. r.log \in Seq(Items(Voices(L)))
    BY <1>9, RunIs
  <2>2. (\E n \in DOMAIN r.log : r.log[n][2] = f.name) <=> Alone(e, "schema", f).log # <<>>
    BY <1>10, <2>1, PartIsHeard
  <2> QED  BY <1>8, <1>9, <2>2
<1>12. LET i == CHOOSE i \in DOMAIN e.props : e.props[i].name = p.name
       IN  truth <=> p.name \in Names(e) /\ Says(p, Content(e.written[i]))
  <2> HIDE DEF p
  <2> QED  BY <1>5, MatchesIs DEF truth
<1> QED  BY <1>11, <1>12

\* What a handler or a filter reads from an event is what was written, in every
\* order of calls and whatever was looked for in vain before; and a filter that
\* compares a property hears the events whose property compares that way, and
\* no others.
THEOREM ReadsSafe == Spec => []ReadsAreTrue
<1>1. IInv => ReadsAreTrue
  BY OrderIsFree, WrittenIsRead, ViewsHear DEF ReadsAreTrue
<1> QED  BY <1>1, SpecIInv, PTL

==============================================================================
