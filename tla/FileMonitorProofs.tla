--------------------------- MODULE FileMonitorProofs ---------------------------
(***************************************************************************)
(* Theorems about the file monitor, for every set of processes, addresses  *)
(* and paths, every bound, and every interleaving of the kernel with the   *)
(* callback.                                                               *)
(*                                                                         *)
(* The tables lag behind the kernel by the events that are still queued.   *)
(* The inductive invariant therefore says what a table WILL hold, after so *)
(* many more events: enough for the event that comes next, and, after all  *)
(* of them, for whatever the kernel may log then.                          *)
(***************************************************************************)
EXTENDS FileMonitor, SequenceTheorems, TLAPS

USE FileMonitorAssumption

------------------------------------------------------------------------------
(* What a slot of a table will hold.                                       *)

\* A slot holds at most one value.
Held(table, k) == IF k \in DOMAIN table THEN {table[k]} ELSE {}

\* After the first n of these moves, a slot that now holds this holds one of C.
Settles(moves, now, n, C) ==
  \/ \E m \in 1..n : /\ moves[m].does /\ moves[m].to \in C
                     /\ \A k \in (m + 1)..n : ~moves[k].does
  \/ now \in C /\ \A k \in 1..n : ~moves[k].does

\* What an event does to the name of a file object.  The other handlers that
\* assign a name assign the one that is there.
NameMove(e, o) ==
  [does |-> FromJob(e) /\ e.req.obj = o /\ e.id \in {"Create", "RenamePath", "Close"},
   to |-> IF e.id = "Create" THEN {e.req.path}
          ELSE IF e.id = "RenamePath" THEN {e.req.new} ELSE {}]

\* After n events of the stream, the table has a name for the object, one of those.
NameAfter(stream, table, o, n, allowed) ==
  Settles([m \in DOMAIN stream |-> NameMove(stream[m], o)], Held(table, o), n,
          {{x} : x \in allowed})

\* What an event does to the create that is pending for an IRP.  The other
\* completions find none.
TrackedOpen(r) == r.kind = "open" /\ r.by \in Monitored /\ IsTracked(r)

Capture(r) ==
  IF TrackedOpen(r) THEN {[path |-> r.path, obj |-> r.obj, pid |-> r.by]} ELSE {}

PendingMove(e, i) ==
  [does |-> TrackedOpen(e.req) /\ e.req.irp = i /\ e.id \in {"Create", "OperationEnd"},
   to |-> IF e.id = "Create" THEN Capture(e.req) ELSE {}]

\* After n events of the stream, the table holds just that for the IRP.
PendingAfter(stream, table, i, n, held) ==
  Settles([m \in DOMAIN stream |-> PendingMove(stream[m], i)], Held(table, i), n, {held})

------------------------------------------------------------------------------
(* The inductive invariant.                                                *)

\* An event says what its request was.
WellFormed(e) ==
  /\ e.pid = e.req.by /\ e.req.path \in e.req.aliases
  /\ e.req.kind = "open" => e.req.obj \in Objects /\ e.req.aliases = {e.req.path}
  /\ e.id \in {"NameCreate", "Create", "CreateNewFile"} => e.req.kind = "open"
  /\ e.id \in {"Io", "Rename", "RenamePath", "Close"} => e.req.obj \in Objects
  /\ e.id \in {"Rename", "RenamePath"} => e.req.new \in e.req.aliases
  /\ e.id \in {"NameCreate", "NameDelete"} => e.req.key \in Keys
  /\ e.id \in {"Create", "OperationEnd"} => e.req.irp \in Irps
  /\ e.id # "OperationEnd" => e.ok

\* A create in flight is an open request of its IRP; a file object belongs to one
\* create or to one handle.
KernelOK ==
  /\ \A i \in DOMAIN opens :
       /\ opens[i].kind = "open" /\ opens[i].irp = i /\ opens[i].obj \in Objects
       /\ opens[i].aliases = {opens[i].path}
       /\ opens[i].obj \notin DOMAIN objs
       /\ \A j \in DOMAIN opens : opens[j].obj = opens[i].obj => j = i
  /\ \A o \in DOMAIN objs : objs[o].path \in objs[o].aliases

\* Type correctness, with what is true of requests and events, which were logged under
\* the directories that are still there if none changed.
StreamInv ==
  /\ TypeOK /\ KernelOK /\ \A n \in DOMAIN etw : WellFormed(etw[n])
  /\ dirChanges = 0 =>
       \A n \in DOMAIN etw : etw[n].file = (etw[n].req.path \notin dirs)

\* The events whose handlers rely on the name of their file object.
ReliesOnName(e) ==
  /\ FromJob(e)
  /\ \/ e.id \in {"CreateNewFile", "Io", "Rename", "RenamePath", "Close"}
     \/ e.id = "OperationEnd" /\ e.req.kind = "open"

\* The name of an object is a true one, for each event that relies on it, and for
\* each handle and each create of a managed process.
NamesAreTrue ==
  /\ \A n \in DOMAIN etw : ReliesOnName(etw[n]) =>
       NameAfter(etw, objectPath, etw[n].req.obj, n - 1, etw[n].req.aliases)
  /\ \A o \in DOMAIN objs : objs[o].by \in Monitored =>
       NameAfter(etw, objectPath, o, Len(etw), objs[o].aliases)
  /\ \A i \in DOMAIN opens : opens[i].by \in Monitored =>
       NameAfter(etw, objectPath, opens[i].obj, Len(etw), opens[i].aliases)

\* A completion finds the create it completes, and no other, and it finds none
\* where it completes something else.
CompletionsMatch ==
  /\ \A n \in DOMAIN etw : etw[n].id = "OperationEnd" =>
       PendingAfter(etw, pending, etw[n].req.irp, n - 1, Capture(etw[n].req))
  /\ \A i \in Irps :
       PendingAfter(etw, pending, i, Len(etw),
                    IF i \in DOMAIN opens THEN Capture(opens[i]) ELSE {})

\* The renames that raise the request when they are delivered at last.
ForbiddenRename(e) == e.id = "RenamePath" /\ Violation(e)

\* The paths that are protected, or not, as this one is.
Alike(path) == {x \in Paths : x \in Protected <=> path \in Protected}

\* The request has been raised, or the first n events of the stream raise it.
Overdue(stream, raised, n) == raised \/ \E m \in 1..n : ForbiddenRename(stream[m])

\* After n events, the table has a name for the object that is protected if and only
\* if this path is: or a forbidden rename has come first.
AlikeAfter(stream, table, raised, o, n, path) ==
  NameAfter(stream, table, o, n, Alike(path)) \/ Overdue(stream, raised, n)

\* Up to the first forbidden rename, a name that is not the present one any more
\* is protected if and only if the present one is.
IsRename(e) == FromJob(e) /\ e.id \in {"Rename", "RenamePath"}

NamesAreAlike ==
  /\ \A n \in DOMAIN etw : IsRename(etw[n]) =>
       AlikeAfter(etw, objectPath, requested, etw[n].req.obj, n - 1, etw[n].req.path)
  /\ \A o \in DOMAIN objs : objs[o].by \in Monitored =>
       AlikeAfter(etw, objectPath, requested, o, Len(etw), objs[o].path)

\* The violations that raise the request when they are delivered at last.
Decisive(e) == e.id \in {"OperationEnd", "RenamePath"} /\ Violation(e)

\* The history variables tell the truth about the violations.
AlertsAreDue ==
  /\ \A n \in DOMAIN etw : Violation(etw[n]) => owed
  /\ dirChanges = 0 /\ owed => requested \/ \E n \in DOMAIN etw : Decisive(etw[n])

MonitorInv ==
  /\ StreamInv
  /\ intact => NamesAreTrue /\ CompletionsMatch /\ NamesAreAlike /\ AlertsAreDue
  /\ AlertSound /\ RecordTruthful
------------------------------------------------------------------------------
(* Tables, and slots of tables.                                            *)

LEMMA PutIsAMap ==
  ASSUME NEW f, NEW K, NEW V, NEW k \in K, NEW v \in V, IsMap(f, K, V)
  PROVE  IsMap(Put(f, k, v), K, V)
BY DEF IsMap, Put

LEMMA DropIsAMap ==
  ASSUME NEW f, NEW K, NEW V, NEW k, IsMap(f, K, V)
  PROVE  IsMap(Drop(f, k), K, V)
BY DEF IsMap, Drop, Restrict

\* A slot shows what was put there, and nothing once it was dropped.
LEMMA PutIsHeld ==
  ASSUME NEW f, NEW k, NEW v, NEW x
  PROVE  Held(Put(f, k, v), x) = IF x = k THEN {v} ELSE Held(f, x)
BY DEF Held, Put

LEMMA DropIsHeld ==
  ASSUME NEW f, NEW k, NEW x
  PROVE  Held(Drop(f, k), x) = IF x = k THEN {} ELSE Held(f, x)
BY DEF Held, Drop, Restrict

\* The first of the moves is made.
LEMMA SettlesFirst ==
  ASSUME NEW moves, NEW now, NEW rest, NEW next, NEW C, NEW n \in Nat \ {0},
         Settles(moves, now, n, C),
         \A k \in 1..(n - 1) : rest[k] = moves[k + 1],
         next = IF moves[1].does THEN moves[1].to ELSE now
  PROVE  Settles(rest, next, n - 1, C)
<1>1. CASE now \in C /\ \A k \in 1..n : ~moves[k].does
  BY <1>1 DEF Settles
<1>2. ASSUME NEW m \in 1..n, moves[m].does, moves[m].to \in C,
             \A k \in (m + 1)..n : ~moves[k].does
      PROVE  Settles(rest, next, n - 1, C)
  <2>1. \A k \in m..(n - 1) : ~rest[k].does
    BY <1>2
  <2>2. CASE m = 1
    BY <1>2, <2>1, <2>2 DEF Settles
  <2>3. CASE m # 1
    <3>1. m - 1 \in 1..(n - 1) /\ rest[m - 1] = moves[m] /\ (m - 1) + 1 = m
      BY <2>3
    <3> QED  BY <1>2, <2>1, <3>1 DEF Settles
  <2> QED  BY <2>2, <2>3
<1> QED  BY <1>1, <1>2 DEF Settles

\* Moves that come later make no difference, nor do later events that do not move.
LEMMA SettlesKept ==
  ASSUME NEW moves, NEW now, NEW more, NEW C, NEW n \in Nat, NEW l \in Nat, n <= l,
         Settles(moves, now, n, C),
         \A k \in 1..n : more[k] = moves[k],
         \A k \in (n + 1)..l : ~more[k].does
  PROVE  Settles(more, now, l, C)
<1>1. CASE now \in C /\ \A k \in 1..n : ~moves[k].does
  BY <1>1 DEF Settles
<1>2. ASSUME NEW m \in 1..n, moves[m].does, moves[m].to \in C,
             \A k \in (m + 1)..n : ~moves[k].does
      PROVE  Settles(more, now, l, C)
  BY <1>2 DEF Settles
<1> QED  BY <1>1, <1>2 DEF Settles

\* A move to a value outside C can be left out.
LEMMA SettlesThinned ==
  ASSUME NEW moves, NEW now, NEW rest, NEW C, NEW n \in Nat, NEW l \in 1..n,
         Settles(moves, now, n, C),
         moves[l].does => moves[l].to \notin C,
         \A k \in 1..(n - 1) : rest[k] = IF k < l THEN moves[k] ELSE moves[k + 1]
  PROVE  Settles(rest, now, n - 1, C)
<1>1. CASE now \in C /\ \A k \in 1..n : ~moves[k].does
  BY <1>1 DEF Settles
<1>2. ASSUME NEW m \in 1..n, moves[m].does, moves[m].to \in C,
             \A k \in (m + 1)..n : ~moves[k].does
      PROVE  Settles(rest, now, n - 1, C)
  <2>0. m # l
    BY <1>2
  <2>1. CASE m < l
    <3>1. m \in 1..(n - 1) /\ rest[m] = moves[m]
      BY <2>1
    <3>2. \A k \in (m + 1)..(n - 1) : ~rest[k].does
      BY <1>2, <2>1
    <3> QED  BY <1>2, <3>1, <3>2 DEF Settles
  <2>2. CASE m > l
    <3>1. m - 1 \in 1..(n - 1) /\ rest[m - 1] = moves[m] /\ (m - 1) + 1 = m
      BY <2>2
    <3>2. \A k \in m..(n - 1) : ~rest[k].does
      BY <1>2, <2>2
    <3> QED  BY <1>2, <3>1, <3>2 DEF Settles
  <2> QED  BY <2>0, <2>1, <2>2
<1> QED  BY <1>1, <1>2 DEF Settles

\* A slot that no event moves holds what it held.
LEMMA SettlesNow ==
  ASSUME NEW moves, NEW now, NEW C
  PROVE  Settles(moves, now, 0, C) <=> now \in C
BY DEF Settles

------------------------------------------------------------------------------
(* The two tables along the stream.                                        *)

LEMMA NameKept ==
  ASSUME NEW s, NEW s2, NEW t, NEW o, NEW S, NEW n \in Nat, NEW l \in Nat, n <= l,
         NameAfter(s, t, o, n, S), 1..n \subseteq DOMAIN s, 1..l \subseteq DOMAIN s2,
         \A k \in 1..n : s2[k] = s[k],
         \A k \in (n + 1)..l : ~NameMove(s2[k], o).does
  PROVE  NameAfter(s2, t, o, l, S)
<1> DEFINE a == [m \in DOMAIN s |-> NameMove(s[m], o)]
           b == [m \in DOMAIN s2 |-> NameMove(s2[m], o)]
<1>1. \A k \in 1..n : b[k] = a[k]
  OBVIOUS
<1>2. \A k \in (n + 1)..l : ~b[k].does
  OBVIOUS
<1> HIDE DEF a, b
<1> QED  BY <1>1, <1>2, SettlesKept DEF NameAfter, a, b

LEMMA NameWidens ==
  ASSUME NEW s, NEW t, NEW o, NEW S, NEW T, NEW n, S \subseteq T, NameAfter(s, t, o, n, S)
  PROVE  NameAfter(s, t, o, n, T)
BY DEF NameAfter, Settles

LEMMA NameDelivered ==
  ASSUME NEW s \in Seq(Events), s # <<>>, NEW t, NEW t2, NEW o, NEW S, NEW n \in 1..Len(s),
         NameAfter(s, t, o, n, S),
         Held(t2, o) = IF NameMove(Head(s), o).does THEN NameMove(Head(s), o).to
                                                    ELSE Held(t, o)
  PROVE  NameAfter(Tail(s), t2, o, n - 1, S)
<1> DEFINE a == [m \in DOMAIN s |-> NameMove(s[m], o)]
           b == [m \in DOMAIN Tail(s) |-> NameMove(Tail(s)[m], o)]
<1>1. \A k \in 1..(n - 1) : b[k] = a[k + 1]
  BY HeadTailProperties, LenProperties
<1>2. a[1] = NameMove(Head(s), o)
  BY HeadTailProperties, LenProperties
<1>3. n \in Nat \ {0}
  OBVIOUS
<1> HIDE DEF a, b
<1> QED  BY <1>1, <1>2, <1>3, SettlesFirst DEF NameAfter, a, b

\* What is left of a stream that loses an event.
Without(s, l) == SubSeq(s, 1, l - 1) \o SubSeq(s, l + 1, Len(s))

LEMMA WithoutIsShorter ==
  ASSUME NEW s \in Seq(Events), NEW l \in 1..Len(s)
  PROVE  /\ Without(s, l) \in Seq(Events) /\ Len(Without(s, l)) = Len(s) - 1
         /\ \A k \in 1..(Len(s) - 1) :
              Without(s, l)[k] = IF k < l THEN s[k] ELSE s[k + 1]
<1>1. \A k \in 1..Len(s) : s[k] \in Events
  BY ElementOfSeq
<1>0. Len(s) \in Nat
  BY LenProperties
<1> DEFINE a == SubSeq(s, 1, l - 1)
           b == SubSeq(s, l + 1, Len(s))
<1>2. /\ a \in Seq(Events) /\ Len(a) = l - 1
      /\ \A k \in 1..(l - 1) : a[k] = s[k]
  BY <1>0, <1>1, SubSeqProperties
<1>3. b \in Seq(Events) /\ Len(b) = Len(s) - l
  BY <1>0, <1>1, SubSeqProperties
<1>6. Without(s, l) = a \o b
  BY DEF Without
<1>4. \A k \in 1..(Len(s) - l) : b[k] = s[k + l]
  <2>1. \A k \in 1..(Len(s) - (l + 1) + 1) : b[k] = s[(l + 1) + k - 1]
    BY <1>0, <1>1, SubSeqProperties
  <2> QED  BY <1>0, <2>1
<1> HIDE DEF a, b
<1>5. /\ a \o b \in Seq(Events) /\ Len(a \o b) = Len(a) + Len(b)
      /\ \A k \in 1..(Len(a) + Len(b)) : (a \o b)[k] = IF k <= Len(a) THEN a[k] ELSE b[k - Len(a)]
  BY <1>2, <1>3, ConcatProperties
<1>7. Len(a \o b) = Len(s) - 1
  BY <1>0, <1>2, <1>3, <1>5
<1>8. ASSUME NEW k \in 1..(Len(s) - 1)
      PROVE  (a \o b)[k] = IF k < l THEN s[k] ELSE s[k + 1]
  <2>1. (a \o b)[k] = IF k < l THEN a[k] ELSE b[k - (l - 1)]
    BY <1>0, <1>2, <1>3, <1>5
  <2>2. CASE k < l
    BY <1>0, <1>2, <2>1, <2>2
  <2>3. CASE ~(k < l)
    <3>1. k - (l - 1) \in 1..(Len(s) - l) /\ (k - (l - 1)) + l = k + 1
      BY <1>0, <2>3
    <3> QED  BY <1>4, <2>1, <2>3, <3>1
  <2> QED  BY <2>2, <2>3
<1> QED  BY <1>5, <1>6, <1>7, <1>8

LEMMA WithoutIsWithin ==
  ASSUME NEW s \in Seq(Events), NEW l \in 1..Len(s), NEW k \in DOMAIN Without(s, l)
  PROVE  \E n \in DOMAIN s : Without(s, l)[k] = s[n]
<1>1. DOMAIN s = 1..Len(s) /\ Len(s) \in Nat
  BY LenProperties
<1>2. k \in 1..(Len(s) - 1)
  BY WithoutIsShorter, LenProperties
<1>3. Without(s, l)[k] = IF k < l THEN s[k] ELSE s[k + 1]
  BY <1>2, WithoutIsShorter
<1>4. k \in DOMAIN s /\ k + 1 \in DOMAIN s
  BY <1>1, <1>2
<1> QED  BY <1>3, <1>4

LEMMA NameThinned ==
  ASSUME NEW s \in Seq(Events), NEW l \in 1..Len(s), NEW t, NEW o, NEW S, NEW n \in l..Len(s),
         NameAfter(s, t, o, n, S), ~Correlates(s[l]), WellFormed(s[l])
  PROVE  NameAfter(Without(s, l), t, o, n - 1, S)
<1> DEFINE a == [m \in DOMAIN s |-> NameMove(s[m], o)]
           b == [m \in DOMAIN Without(s, l) |-> NameMove(Without(s, l)[m], o)]
           C == {{x} : x \in S}
<1>0. DOMAIN s = 1..Len(s) /\ Len(s) \in Nat
  BY LenProperties
<1>1. \A k \in 1..(n - 1) : b[k] = IF k < l THEN a[k] ELSE a[k + 1]
  <2>1. DOMAIN Without(s, l) = 1..(Len(s) - 1)
    BY WithoutIsShorter, LenProperties
  <2>2. \A k \in 1..(Len(s) - 1) :
          Without(s, l)[k] = IF k < l THEN s[k] ELSE s[k + 1]
    BY WithoutIsShorter
  <2> QED  BY <1>0, <2>1, <2>2
<1>2. a[l].does => a[l].to \notin C
  BY <1>0 DEF NameMove, Correlates, WellFormed, FromJob
<1>3. n \in Nat /\ l \in 1..n
  BY <1>0
<1>4. Settles(a, Held(t, o), n, C)
  BY DEF NameAfter
<1> HIDE DEF a, b, C
<1>5. Settles(b, Held(t, o), n - 1, C)
  BY <1>1, <1>2, <1>3, <1>4, SettlesThinned
<1> QED  BY <1>5 DEF NameAfter, b, C

LEMMA NameNext ==
  ASSUME NEW s, NEW t, NEW o, NEW S
  PROVE  NameAfter(s, t, o, 0, S) <=> o \in DOMAIN t /\ t[o] \in S
BY SettlesNow DEF NameAfter, Held

LEMMA NameMoved ==
  ASSUME NEW s, NEW t, NEW o, NEW S, NEW n \in Nat, NEW m \in 1..n, 1..n \subseteq DOMAIN s,
         NEW x \in S, NameMove(s[m], o).does, NameMove(s[m], o).to = {x},
         \A k \in (m + 1)..n : ~NameMove(s[k], o).does
  PROVE  NameAfter(s, t, o, n, S)
BY DEF NameAfter, Settles

LEMMA PendingKept ==
  ASSUME NEW s, NEW s2, NEW t, NEW i, NEW h, NEW n \in Nat, NEW l \in Nat, n <= l,
         PendingAfter(s, t, i, n, h), 1..n \subseteq DOMAIN s, 1..l \subseteq DOMAIN s2,
         \A k \in 1..n : s2[k] = s[k],
         \A k \in (n + 1)..l : ~PendingMove(s2[k], i).does
  PROVE  PendingAfter(s2, t, i, l, h)
<1> DEFINE a == [m \in DOMAIN s |-> PendingMove(s[m], i)]
           b == [m \in DOMAIN s2 |-> PendingMove(s2[m], i)]
<1>1. \A k \in 1..n : b[k] = a[k]
  OBVIOUS
<1>2. \A k \in (n + 1)..l : ~b[k].does
  OBVIOUS
<1> HIDE DEF a, b
<1> QED  BY <1>1, <1>2, SettlesKept DEF PendingAfter, a, b

LEMMA PendingDelivered ==
  ASSUME NEW s \in Seq(Events), s # <<>>, NEW t, NEW t2, NEW i, NEW h, NEW n \in 1..Len(s),
         PendingAfter(s, t, i, n, h),
         Held(t2, i) = IF PendingMove(Head(s), i).does THEN PendingMove(Head(s), i).to
                                                       ELSE Held(t, i)
  PROVE  PendingAfter(Tail(s), t2, i, n - 1, h)
<1> DEFINE a == [m \in DOMAIN s |-> PendingMove(s[m], i)]
           b == [m \in DOMAIN Tail(s) |-> PendingMove(Tail(s)[m], i)]
<1>1. \A k \in 1..(n - 1) : b[k] = a[k + 1]
  BY HeadTailProperties, LenProperties
<1>2. a[1] = PendingMove(Head(s), i)
  BY HeadTailProperties, LenProperties
<1>3. n \in Nat \ {0}
  OBVIOUS
<1> HIDE DEF a, b
<1> QED  BY <1>1, <1>2, <1>3, SettlesFirst DEF PendingAfter, a, b

LEMMA PendingThinned ==
  ASSUME NEW s \in Seq(Events), NEW l \in 1..Len(s), NEW t, NEW i, NEW h, NEW n \in l..Len(s),
         PendingAfter(s, t, i, n, h), ~Correlates(s[l])
  PROVE  PendingAfter(Without(s, l), t, i, n - 1, h)
<1> DEFINE a == [m \in DOMAIN s |-> PendingMove(s[m], i)]
           b == [m \in DOMAIN Without(s, l) |-> PendingMove(Without(s, l)[m], i)]
<1>0. DOMAIN s = 1..Len(s) /\ Len(s) \in Nat
  BY LenProperties
<1>1. \A k \in 1..(n - 1) : b[k] = IF k < l THEN a[k] ELSE a[k + 1]
  <2>1. DOMAIN Without(s, l) = 1..(Len(s) - 1)
    BY WithoutIsShorter, LenProperties
  <2>2. \A k \in 1..(Len(s) - 1) :
          Without(s, l)[k] = IF k < l THEN s[k] ELSE s[k + 1]
    BY WithoutIsShorter
  <2> QED  BY <1>0, <2>1, <2>2
<1>2. ~a[l].does
  BY <1>0 DEF PendingMove, Correlates, TrackedOpen
<1>3. n \in Nat /\ l \in 1..n
  BY <1>0
<1>4. Settles(a, Held(t, i), n, {h})
  BY DEF PendingAfter
<1> HIDE DEF a, b
<1>5. Settles(b, Held(t, i), n - 1, {h})
  BY <1>1, <1>2, <1>3, <1>4, SettlesThinned
<1> QED  BY <1>5 DEF PendingAfter, b

LEMMA PendingNext ==
  ASSUME NEW s, NEW t, NEW i, NEW h
  PROVE  PendingAfter(s, t, i, 0, h) <=> Held(t, i) = h
BY SettlesNow DEF PendingAfter

LEMMA PendingMoved ==
  ASSUME NEW s, NEW t, NEW i, NEW n \in Nat, NEW m \in 1..n, 1..n \subseteq DOMAIN s,
         PendingMove(s[m], i).does,
         \A k \in (m + 1)..n : ~PendingMove(s[k], i).does
  PROVE  PendingAfter(s, t, i, n, PendingMove(s[m], i).to)
BY DEF PendingAfter, Settles

------------------------------------------------------------------------------
(* What the operations of the kernel log.                                  *)

\* The stream is longer by that many events, and the history knows about them.
Grown(l) ==
  /\ etw' \in Seq(Events) /\ Len(etw') = Len(etw) + l
  /\ \A n \in 1..Len(etw) : etw'[n] = etw[n]
  /\ owed' = (owed \/ \E n \in (Len(etw) + 1)..(Len(etw) + l) : Violation(etw'[n]))

\* The event is about that request, and it succeeded.
Says(e, id, r) ==
  e.id = id /\ e.pid = r.by /\ e.req = r /\ e.ok /\ e.file = (r.path \notin dirs)

LEMMA Appending ==
  ASSUME NEW S, NEW s \in Seq(S), NEW e \in S
  PROVE  /\ s \o <<e>> \in Seq(S) /\ Len(s \o <<e>>) = Len(s) + 1
         /\ (s \o <<e>>)[Len(s) + 1] = e
         /\ \A k \in 1..Len(s) : (s \o <<e>>)[k] = s[k]
<1> DEFINE t == <<e>>
<1>1. t \in Seq(S)
  OBVIOUS
<1>2. Len(t) = 1
  OBVIOUS
<1>3. t[1] = e
  OBVIOUS
<1>4. Len(s) \in Nat
  BY LenProperties
<1> HIDE DEF t
<1>5. /\ s \o t \in Seq(S) /\ Len(s \o t) = Len(s) + Len(t)
      /\ \A k \in 1..(Len(s) + Len(t)) :
           (s \o t)[k] = IF k <= Len(s) THEN s[k] ELSE t[k - Len(s)]
  BY <1>1, ConcatProperties
<1>6. (s \o t)[Len(s) + 1] = t[(Len(s) + 1) - Len(s)]
  BY <1>2, <1>4, <1>5
<1> QED  BY <1>2, <1>3, <1>4, <1>5, <1>6 DEF t

LEMMA TwoAppended ==
  ASSUME NEW S, NEW a \in S, NEW b \in S
  PROVE  <<a>> \o <<b>> = <<a, b>>
<1> DEFINE s == <<a>> \o <<b>>
<1>1. <<a>> \in Seq(S) /\ <<a, b>> \in Seq(S) /\ Len(<<a>>) = 1 /\ Len(<<a, b>>) = 2
  OBVIOUS
<1>2. s \in Seq(S) /\ Len(s) = 2 /\ s[2] = b /\ s[1] = a
  BY <1>1, Appending
<1>3. \A k \in 1..2 : s[k] = <<a, b>>[k]
  BY <1>2
<1> QED  BY <1>1, <1>2, <1>3, SeqEqual

LEMMA ThreeAppended ==
  ASSUME NEW S, NEW a \in S, NEW b \in S, NEW c \in S
  PROVE  <<a, b>> \o <<c>> = <<a, b, c>>
<1> DEFINE s == <<a, b>> \o <<c>>
<1>1. /\ <<a, b>> \in Seq(S) /\ <<a, b, c>> \in Seq(S)
      /\ Len(<<a, b>>) = 2 /\ Len(<<a, b, c>>) = 3
  OBVIOUS
<1>2. s \in Seq(S) /\ Len(s) = 3 /\ s[3] = c /\ s[1] = a /\ s[2] = b
  BY <1>1, Appending
<1>3. \A k \in 1..3 : s[k] = <<a, b, c>>[k]
  BY <1>2
<1> QED  BY <1>1, <1>2, <1>3, SeqEqual

LEMMA Emitting ==
  ASSUME TypeOK, NEW evs \in Seq(Events), Emit(evs)
  PROVE  /\ Grown(Len(evs))
         /\ \A n \in 1..Len(evs) : etw'[Len(etw) + n] = evs[n]
<1>1. /\ etw' \in Seq(Events) /\ Len(etw') = Len(etw) + Len(evs)
      /\ \A n \in 1..(Len(etw) + Len(evs)) :
           etw'[n] = IF n <= Len(etw) THEN etw[n] ELSE evs[n - Len(etw)]
  BY ConcatProperties DEF TypeOK, Emit
<1>2. Len(etw) \in Nat /\ Len(evs) \in Nat /\ DOMAIN evs = 1..Len(evs)
  BY LenProperties DEF TypeOK
<1>3. \A n \in 1..Len(evs) : etw'[Len(etw) + n] = evs[n]
  <2> TAKE n \in 1..Len(evs)
  <2>1. Len(etw) + n \in 1..(Len(etw) + Len(evs)) /\ (Len(etw) + n) - Len(etw) = n
        /\ ~(Len(etw) + n <= Len(etw))
    BY <1>2
  <2> QED  BY <1>1, <2>1
<1>4. (\E n \in DOMAIN evs : Violation(evs[n]))
         <=> \E n \in (Len(etw) + 1)..(Len(etw) + Len(evs)) : Violation(etw'[n])
  <2>1. ASSUME NEW n \in DOMAIN evs, Violation(evs[n])
        PROVE  \E m \in (Len(etw) + 1)..(Len(etw) + Len(evs)) : Violation(etw'[m])
    <3>1. Len(etw) + n \in (Len(etw) + 1)..(Len(etw) + Len(evs))
      BY <1>2
    <3> QED  BY <1>2, <1>3, <2>1, <3>1
  <2>2. ASSUME NEW m \in (Len(etw) + 1)..(Len(etw) + Len(evs)), Violation(etw'[m])
        PROVE  \E n \in DOMAIN evs : Violation(evs[n])
    <3>1. m - Len(etw) \in 1..Len(evs) /\ Len(etw) + (m - Len(etw)) = m
      BY <1>2
    <3> QED  BY <1>2, <1>3, <2>2, <3>1
  <2> QED  BY <2>1, <2>2
<1> QED
  BY <1>1, <1>2, <1>3, <1>4 DEF Grown, Emit

LEMMA EventTyped ==
  ASSUME NEW id \in EventIds, NEW r \in Requests, r.by \in Pids
  PROVE  Event(id, r.by, r) \in Events /\ Says(Event(id, r.by, r), id, r)
BY DEF Event, Events, Says

LEMMA EmittingOne ==
  ASSUME TypeOK, NEW e \in Events, Emit(<<e>>)
  PROVE  Grown(1) /\ etw'[Len(etw) + 1] = e
<1>1. <<e>> \in Seq(Events) /\ Len(<<e>>) = 1
  OBVIOUS
<1>2. \A n \in 1..1 : etw'[Len(etw) + n] = <<e>>[n]
  BY <1>1, Emitting
<1>3. Grown(1)
  BY <1>1, Emitting
<1> QED  BY <1>2, <1>3

LEMMA EmittingTwo ==
  ASSUME TypeOK, NEW e \in Events, NEW f \in Events, Emit(<<e, f>>)
  PROVE  Grown(2) /\ etw'[Len(etw) + 1] = e /\ etw'[Len(etw) + 2] = f
<1>1. <<e, f>> \in Seq(Events) /\ Len(<<e, f>>) = 2
  OBVIOUS
<1>2. \A n \in 1..2 : etw'[Len(etw) + n] = <<e, f>>[n]
  BY <1>1, Emitting
<1>3. Grown(2)
  BY <1>1, Emitting
<1> QED  BY <1>2, <1>3

LEMMA EmittingThree ==
  ASSUME TypeOK, NEW e \in Events, NEW f \in Events, NEW g \in Events, Emit(<<e, f, g>>)
  PROVE  /\ Grown(3) /\ etw'[Len(etw) + 1] = e /\ etw'[Len(etw) + 2] = f
         /\ etw'[Len(etw) + 3] = g
<1>1. <<e, f, g>> \in Seq(Events) /\ Len(<<e, f, g>>) = 3
  OBVIOUS
<1>2. \A n \in 1..3 : etw'[Len(etw) + n] = <<e, f, g>>[n]
  BY <1>1, Emitting
<1>3. Grown(3)
  BY <1>1, Emitting
<1> QED  BY <1>2, <1>3

\* A create is described by its request, on an object that is not in use.
LEMMA StartOpenLogs ==
  ASSUME TypeOK, NEW p \in Pids, NEW i \in Irps, NEW o \in Objects, NEW x \in Paths,
         NEW d \in BOOLEAN, StartOpen(p, i, o, x, d)
  PROVE  \E r \in Requests :
           /\ r.kind = "open" /\ r.by = p /\ r.irp = i /\ r.obj = o /\ r.path = x
           /\ r.dir = d /\ r.aliases = {x} /\ i \notin DOMAIN opens /\ o \notin BusyObjects
           /\ opens' = Put(opens, i, r)
           /\ Grown(1) /\ Says(etw'[Len(etw) + 1], "Create", r)
<1> DEFINE r == [kind |-> "open", by |-> p, irp |-> i, obj |-> o, key |-> Nil, path |-> x,
                 new |-> Nil, dir |-> d, aliases |-> {x}]
<1>1. r \in Requests
  BY DEF Requests
<1>2. [Request("open", p, i, o, Nil, x) EXCEPT !.dir = d] = r
  BY DEF Request
<1> HIDE DEF r
<1>3. Emit(<<Event("Create", p, r)>>) /\ opens' = Put(opens, i, r)
      /\ i \notin DOMAIN opens /\ o \notin BusyObjects
  BY <1>2 DEF StartOpen
<1>4. r.by = p /\ "Create" \in EventIds
  BY DEF r, EventIds
<1>5. Event("Create", p, r) \in Events /\ Says(Event("Create", p, r), "Create", r)
  BY <1>1, <1>4, EventTyped
<1>6. Grown(1) /\ etw'[Len(etw) + 1] = Event("Create", p, r)
  BY <1>3, <1>5, EmittingOne
<1>7. /\ r.kind = "open" /\ r.irp = i /\ r.obj = o /\ r.path = x /\ r.dir = d
      /\ r.aliases = {x}
  BY DEF r
<1> QED  BY <1>1, <1>3, <1>4, <1>5, <1>6, <1>7

\* A create that fails is completed, not successfully.
LEMMA FailOpenLogs ==
  ASSUME TypeOK, NEW i \in Irps, FailOpen(i)
  PROVE  LET e == etw'[Len(etw) + 1] IN
         /\ i \in DOMAIN opens /\ opens' = Drop(opens, i) /\ Grown(1)
         /\ e.id = "OperationEnd" /\ e.pid = opens[i].by /\ e.req = opens[i] /\ ~e.ok
         /\ e.file = (opens[i].path \notin dirs)
<1> DEFINE f == Event("OperationEnd", opens[i].by, opens[i])
           g == [f EXCEPT !.ok = FALSE]
<1>1. i \in DOMAIN opens /\ opens[i] \in Requests
  BY DEF FailOpen, TypeOK, IsMap
<1>2. f \in Events /\ Says(f, "OperationEnd", opens[i])
  BY <1>1, EventTyped DEF Requests, EventIds
<1>3. /\ g \in Events /\ g.id = "OperationEnd" /\ g.pid = opens[i].by /\ g.req = opens[i]
      /\ ~g.ok /\ g.file = (opens[i].path \notin dirs)
  BY <1>2 DEF Says, Events
<1>4. Emit(<<g>>) /\ opens' = Drop(opens, i)
  BY DEF FailOpen
<1> HIDE DEF g
<1>5. Grown(1) /\ etw'[Len(etw) + 1] = g
  BY <1>3, <1>4, EmittingOne
<1> QED  BY <1>1, <1>3, <1>4, <1>5

\* A create that succeeds is completed after its object was named and announced.
LEMMA CompleteOpenLogs ==
  ASSUME TypeOK, NEW i \in Irps, NEW k \in Keys, NEW new \in BOOLEAN, CompleteOpen(i, k, new)
  PROVE  \E r \in Requests, l \in 1..3 :
           /\ i \in DOMAIN opens /\ opens' = Drop(opens, i)
           /\ objs' = Put(objs, opens[i].obj, [by |-> opens[i].by, path |-> opens[i].path,
                                               key |-> k, aliases |-> {opens[i].path}])
           /\ names' = Put(names, k, opens[i].path)
           /\ r.kind = opens[i].kind /\ r.by = opens[i].by /\ r.irp = opens[i].irp
           /\ r.obj = opens[i].obj /\ r.path = opens[i].path /\ r.dir = opens[i].dir
           /\ r.aliases = opens[i].aliases /\ r.key = k
           /\ Grown(l) /\ Says(etw'[Len(etw) + l], "OperationEnd", r)
           /\ \A n \in (Len(etw) + 1)..(Len(etw) + l - 1) :
                \/ Says(etw'[n], "NameCreate", r)
                \/ Says(etw'[n], "CreateNewFile", r)
<1> DEFINE r == [opens[i] EXCEPT !.key = k]
           e(id) == Event(id, r.by, r)
<1>1. i \in DOMAIN opens /\ opens[i] \in Requests
  BY DEF CompleteOpen, TypeOK, IsMap
<1>2. /\ r \in Requests /\ r.by \in Pids
      /\ r.kind = opens[i].kind /\ r.by = opens[i].by /\ r.irp = opens[i].irp
      /\ r.obj = opens[i].obj /\ r.path = opens[i].path /\ r.dir = opens[i].dir
      /\ r.aliases = opens[i].aliases /\ r.key = k
  BY <1>1 DEF Requests
<1>3. /\ opens' = Drop(opens, i) /\ names' = Put(names, k, opens[i].path)
      /\ objs' = Put(objs, opens[i].obj, [by |-> opens[i].by, path |-> opens[i].path,
                                          key |-> k, aliases |-> {opens[i].path}])
  BY DEF CompleteOpen
<1>4. Emit((IF k \notin DOMAIN names THEN <<Event("NameCreate", opens[i].by, r)>> ELSE <<>>)
           \o (IF new THEN <<Event("CreateNewFile", opens[i].by, r)>> ELSE <<>>)
           \o (IF TRUE THEN <<Event("OperationEnd", opens[i].by, r)>> ELSE <<>>))
  BY DEF CompleteOpen
<1>5. e("NameCreate") \in Events /\ Says(e("NameCreate"), "NameCreate", r)
  BY <1>2, EventTyped DEF EventIds
<1>6. e("CreateNewFile") \in Events /\ Says(e("CreateNewFile"), "CreateNewFile", r)
  BY <1>2, EventTyped DEF EventIds
<1>7. e("OperationEnd") \in Events /\ Says(e("OperationEnd"), "OperationEnd", r)
  BY <1>2, EventTyped DEF EventIds
<1>8. Len(etw) \in Nat
  BY LenProperties DEF TypeOK
<1>9. /\ e("NameCreate") = Event("NameCreate", opens[i].by, r)
      /\ e("CreateNewFile") = Event("CreateNewFile", opens[i].by, r)
      /\ e("OperationEnd") = Event("OperationEnd", opens[i].by, r)
  BY <1>2
<1> HIDE DEF e, r
<1>10. CASE k \notin DOMAIN names /\ new
  <2>a. Emit((<<e("NameCreate")>> \o <<e("CreateNewFile")>>) \o <<e("OperationEnd")>>)
    BY <1>4, <1>9, <1>10
  <2>b. <<e("NameCreate")>> \o <<e("CreateNewFile")>> = <<e("NameCreate"), e("CreateNewFile")>>
    BY <1>5, <1>6, TwoAppended
  <2>c. <<e("NameCreate"), e("CreateNewFile")>> \o <<e("OperationEnd")>>
          = <<e("NameCreate"), e("CreateNewFile"), e("OperationEnd")>>
    BY <1>5, <1>6, <1>7, ThreeAppended
  <2>1. Emit(<<e("NameCreate"), e("CreateNewFile"), e("OperationEnd")>>)
    BY <2>a, <2>b, <2>c
  <2>2. /\ Grown(3) /\ etw'[Len(etw) + 1] = e("NameCreate")
        /\ etw'[Len(etw) + 2] = e("CreateNewFile") /\ etw'[Len(etw) + 3] = e("OperationEnd")
    BY <1>5, <1>6, <1>7, <2>1, EmittingThree
  <2>3. \A n \in (Len(etw) + 1)..(Len(etw) + 3 - 1) :
          Says(etw'[n], "NameCreate", r) \/ Says(etw'[n], "CreateNewFile", r)
    BY <1>5, <1>6, <1>8, <2>2
  <2> QED  BY <1>1, <1>2, <1>3, <1>7, <2>2, <2>3
<1>11. CASE k \notin DOMAIN names /\ ~new
  <2>a. Emit((<<e("NameCreate")>> \o <<>>) \o <<e("OperationEnd")>>)
    BY <1>4, <1>9, <1>11
  <2>b. (<<e("NameCreate")>> \o <<>>) = <<e("NameCreate")>>
    OBVIOUS
  <2>c. <<e("NameCreate")>> \o <<e("OperationEnd")>> = <<e("NameCreate"), e("OperationEnd")>>
    BY <1>5, <1>7, TwoAppended
  <2>1. Emit(<<e("NameCreate"), e("OperationEnd")>>)
    BY <2>a, <2>b, <2>c
  <2>2. /\ Grown(2) /\ etw'[Len(etw) + 1] = e("NameCreate")
        /\ etw'[Len(etw) + 2] = e("OperationEnd")
    BY <1>5, <1>7, <2>1, EmittingTwo
  <2>3. \A n \in (Len(etw) + 1)..(Len(etw) + 2 - 1) :
          Says(etw'[n], "NameCreate", r) \/ Says(etw'[n], "CreateNewFile", r)
    BY <1>5, <1>8, <2>2
  <2> QED  BY <1>1, <1>2, <1>3, <1>7, <2>2, <2>3
<1>12. CASE k \in DOMAIN names /\ new
  <2>a. Emit((<<>> \o <<e("CreateNewFile")>>) \o <<e("OperationEnd")>>)
    BY <1>4, <1>9, <1>12
  <2>b. (<<>> \o <<e("CreateNewFile")>>) = <<e("CreateNewFile")>>
    OBVIOUS
  <2>c. <<e("CreateNewFile")>> \o <<e("OperationEnd")>> = <<e("CreateNewFile"), e("OperationEnd")>>
    BY <1>6, <1>7, TwoAppended
  <2>1. Emit(<<e("CreateNewFile"), e("OperationEnd")>>)
    BY <2>a, <2>b, <2>c
  <2>2. /\ Grown(2) /\ etw'[Len(etw) + 1] = e("CreateNewFile")
        /\ etw'[Len(etw) + 2] = e("OperationEnd")
    BY <1>6, <1>7, <2>1, EmittingTwo
  <2>3. \A n \in (Len(etw) + 1)..(Len(etw) + 2 - 1) :
          Says(etw'[n], "NameCreate", r) \/ Says(etw'[n], "CreateNewFile", r)
    BY <1>6, <1>8, <2>2
  <2> QED  BY <1>1, <1>2, <1>3, <1>7, <2>2, <2>3
<1>13. CASE k \in DOMAIN names /\ ~new
  <2>1. Emit(<<e("OperationEnd")>>)
    BY <1>4, <1>9, <1>13
  <2>2. Grown(1) /\ etw'[Len(etw) + 1] = e("OperationEnd")
    BY <1>7, <2>1, EmittingOne
  <2>3. \A n \in (Len(etw) + 1)..(Len(etw) + 1 - 1) :
          Says(etw'[n], "NameCreate", r) \/ Says(etw'[n], "CreateNewFile", r)
    BY <1>8
  <2> QED  BY <1>1, <1>2, <1>3, <1>7, <2>2, <2>3
<1> QED  BY <1>10, <1>11, <1>12, <1>13

\* What is said of an object that is used is true of its handle.
OfHandle(r, kind, p, i, o) ==
  /\ r.kind = kind /\ r.by = p /\ r.irp = i /\ r.obj = o /\ r.path = objs[o].path
  /\ objs[o].aliases \subseteq r.aliases

LEMMA ObjectRequestTyped ==
  ASSUME TypeOK, NEW p \in Pids, NEW i \in Irps, NEW o \in DOMAIN objs,
         NEW kind \in {"io", "rename", "close"}
  PROVE  /\ ObjectRequest(kind, p, i, o) \in Requests
         /\ OfHandle(ObjectRequest(kind, p, i, o), kind, p, i, o)
         /\ ObjectRequest(kind, p, i, o).aliases = objs[o].aliases
<1>1. o \in Objects /\ objs[o] \in Handles
  BY DEF TypeOK, IsMap
<1> QED  BY <1>1 DEF ObjectRequest, Request, Requests, OfHandle, Handles

LEMMA UseFileLogs ==
  ASSUME TypeOK, NEW p \in Pids, NEW i \in Irps, NEW o \in Objects, UseFile(p, i, o)
  PROVE  \E r \in Requests :
           /\ o \in DOMAIN objs /\ MayUse(p, o) /\ i \notin DOMAIN opens
           /\ OfHandle(r, "io", p, i, o) /\ Grown(2)
           /\ Says(etw'[Len(etw) + 1], "Io", r)
           /\ Says(etw'[Len(etw) + 2], "OperationEnd", r)
<1> DEFINE r == ObjectRequest("io", p, i, o)
<1>1. o \in DOMAIN objs /\ MayUse(p, o) /\ i \notin DOMAIN opens
      /\ Emit(<<Event("Io", p, r), Event("OperationEnd", p, r)>>)
  BY DEF UseFile
<1>2. r \in Requests /\ OfHandle(r, "io", p, i, o) /\ r.by = p
  BY <1>1, ObjectRequestTyped DEF OfHandle
<1> HIDE DEF r
<1>3. Event("Io", p, r) \in Events /\ Says(Event("Io", p, r), "Io", r)
  BY <1>2, EventTyped DEF EventIds
<1>4. /\ Event("OperationEnd", p, r) \in Events
      /\ Says(Event("OperationEnd", p, r), "OperationEnd", r)
  BY <1>2, EventTyped DEF EventIds
<1>5. /\ Grown(2) /\ etw'[Len(etw) + 1] = Event("Io", p, r)
      /\ etw'[Len(etw) + 2] = Event("OperationEnd", p, r)
  BY <1>1, <1>3, <1>4, EmittingTwo
<1> QED  BY <1>1, <1>2, <1>3, <1>4, <1>5

LEMMA RenameFileLogs ==
  ASSUME TypeOK, NEW p \in Pids, NEW i \in Irps, NEW o \in Objects, NEW x \in Paths,
         NEW ok \in BOOLEAN, RenameFile(p, i, o, x, ok)
  PROVE  \E r \in Requests :
           LET e == etw'[Len(etw) + 3] IN
           /\ o \in DOMAIN objs /\ MayUse(p, o) /\ i \notin DOMAIN opens
           /\ objs' = [objs EXCEPT ![o].path = IF ok THEN x ELSE @, ![o].aliases = @ \cup {x}]
           /\ OfHandle(r, "rename", p, i, o) /\ r.new = x /\ Grown(3)
           /\ r.aliases = objs[o].aliases \cup {x}
           /\ Says(etw'[Len(etw) + 1], "Rename", r)
           /\ Says(etw'[Len(etw) + 2], "RenamePath", r)
           /\ e.id = "OperationEnd" /\ e.pid = p /\ e.req = r
           /\ e.file = (r.path \notin dirs)
<1> DEFINE q == ObjectRequest("rename", p, i, o)
           r == [q EXCEPT !.new = x, !.aliases = @ \cup {x}]
           f == Event("OperationEnd", p, r)
           g == [f EXCEPT !.ok = ok]
<1>1. /\ o \in DOMAIN objs /\ MayUse(p, o) /\ i \notin DOMAIN opens
      /\ objs' = [objs EXCEPT ![o].path = IF ok THEN x ELSE @, ![o].aliases = @ \cup {x}]
      /\ Emit(<<Event("Rename", p, r), Event("RenamePath", p, r), g>>)
  BY DEF RenameFile
<1>2. q \in Requests /\ OfHandle(q, "rename", p, i, o) /\ q.aliases = objs[o].aliases
  BY <1>1, ObjectRequestTyped
<1> HIDE DEF q
<1>3. /\ r \in Requests /\ OfHandle(r, "rename", p, i, o) /\ r.by = p /\ r.new = x
      /\ r.aliases = objs[o].aliases \cup {x}
  BY <1>2 DEF OfHandle, Requests
<1> HIDE DEF r
<1>4. Event("Rename", p, r) \in Events /\ Says(Event("Rename", p, r), "Rename", r)
  BY <1>3, EventTyped DEF EventIds
<1>5. Event("RenamePath", p, r) \in Events /\ Says(Event("RenamePath", p, r), "RenamePath", r)
  BY <1>3, EventTyped DEF EventIds
<1>6. f \in Events /\ Says(f, "OperationEnd", r)
  BY <1>3, EventTyped DEF EventIds
<1>7. /\ g \in Events /\ g.id = "OperationEnd" /\ g.pid = p /\ g.req = r
      /\ g.file = (r.path \notin dirs)
  BY <1>3, <1>6 DEF Says, Events
<1> HIDE DEF g
<1>8. /\ Grown(3) /\ etw'[Len(etw) + 1] = Event("Rename", p, r)
      /\ etw'[Len(etw) + 2] = Event("RenamePath", p, r) /\ etw'[Len(etw) + 3] = g
  BY <1>1, <1>4, <1>5, <1>7, EmittingThree
<1> QED  BY <1>1, <1>3, <1>4, <1>5, <1>7, <1>8

LEMMA CloseFileLogs ==
  ASSUME TypeOK, NEW p \in Pids, NEW i \in Irps, NEW o \in Objects, CloseFile(p, i, o)
  PROVE  \E r \in Requests :
           /\ o \in DOMAIN objs /\ (MayUse(p, o) \/ p \notin Monitored)
           /\ i \notin DOMAIN opens /\ objs' = Drop(objs, o)
           /\ OfHandle(r, "close", p, i, o) /\ Grown(2)
           /\ Says(etw'[Len(etw) + 1], "Close", r)
           /\ Says(etw'[Len(etw) + 2], "OperationEnd", r)
<1> DEFINE r == ObjectRequest("close", p, i, o)
<1>1. /\ o \in DOMAIN objs /\ (MayUse(p, o) \/ p \notin Monitored) /\ i \notin DOMAIN opens
      /\ objs' = Drop(objs, o)
      /\ Emit(<<Event("Close", p, r), Event("OperationEnd", p, r)>>)
  BY DEF CloseFile
<1>2. r \in Requests /\ OfHandle(r, "close", p, i, o) /\ r.by = p
  BY <1>1, ObjectRequestTyped DEF OfHandle
<1> HIDE DEF r
<1>3. Event("Close", p, r) \in Events /\ Says(Event("Close", p, r), "Close", r)
  BY <1>2, EventTyped DEF EventIds
<1>4. /\ Event("OperationEnd", p, r) \in Events
      /\ Says(Event("OperationEnd", p, r), "OperationEnd", r)
  BY <1>2, EventTyped DEF EventIds
<1>5. /\ Grown(2) /\ etw'[Len(etw) + 1] = Event("Close", p, r)
      /\ etw'[Len(etw) + 2] = Event("OperationEnd", p, r)
  BY <1>1, <1>3, <1>4, EmittingTwo
<1> QED  BY <1>1, <1>2, <1>3, <1>4, <1>5

LEMMA ForgetNameLogs ==
  ASSUME TypeOK, NEW p \in Pids, NEW k \in Keys, ForgetName(p, k)
  PROVE  \E r \in Requests :
           /\ r.kind = "name" /\ r.by = p /\ r.key = k /\ r.path \in r.aliases
           /\ names' = Drop(names, k)
           /\ Grown(1) /\ Says(etw'[Len(etw) + 1], "NameDelete", r)
<1> DEFINE r == Request("name", p, Nil, Nil, k, names[k])
<1>1. /\ k \in DOMAIN names /\ names' = Drop(names, k)
      /\ Emit(<<Event("NameDelete", p, r)>>)
  BY DEF ForgetName
<1>2. r \in Requests /\ r.kind = "name" /\ r.by = p /\ r.key = k /\ r.path \in r.aliases
  BY <1>1 DEF Request, Requests, TypeOK, IsMap
<1> HIDE DEF r
<1>3. Event("NameDelete", p, r) \in Events /\ Says(Event("NameDelete", p, r), "NameDelete", r)
  BY <1>2, EventTyped DEF EventIds
<1>4. Grown(1) /\ etw'[Len(etw) + 1] = Event("NameDelete", p, r)
  BY <1>1, <1>3, EmittingOne
<1> QED  BY <1>1, <1>2, <1>3, <1>4

------------------------------------------------------------------------------
(* Types, and what is true of requests and events.                         *)

LEMMA StreamLength ==
  ASSUME TypeOK
  PROVE  Len(etw) \in Nat /\ DOMAIN etw = 1..Len(etw) /\ \A n \in DOMAIN etw : etw[n] \in Events
BY LenProperties, ElementOfSeq DEF TypeOK

\* A longer stream is well formed if the new events are.
LEMMA GrownIsWellFormed ==
  ASSUME StreamInv, NEW l \in Nat, Grown(l), dirs' = dirs, dirChanges' = dirChanges,
         \A n \in (Len(etw) + 1)..(Len(etw) + l) :
           WellFormed(etw'[n]) /\ etw'[n].file = (etw'[n].req.path \notin dirs)
  PROVE  /\ \A n \in DOMAIN etw' : WellFormed(etw'[n])
         /\ dirChanges' = 0 =>
              \A n \in DOMAIN etw' : etw'[n].file = (etw'[n].req.path \notin dirs')
<1>1. Len(etw) \in Nat /\ DOMAIN etw = 1..Len(etw)
  BY StreamLength DEF StreamInv
<1>2. DOMAIN etw' = 1..(Len(etw) + l)
  BY LenProperties DEF Grown
<1>3. \A n \in 1..Len(etw) : etw'[n] = etw[n]
  BY DEF Grown
<1>4. \A n \in DOMAIN etw' : n \in 1..Len(etw) \/ n \in (Len(etw) + 1)..(Len(etw) + l)
  BY <1>1, <1>2
<1> QED  BY <1>1, <1>3, <1>4 DEF StreamInv

\* An event that says what its request was is well formed.
LEMMA SaidIsWellFormed ==
  ASSUME NEW r \in Requests, NEW e, NEW id, Says(e, id, r), r.path \in r.aliases,
         r.kind = "open" => r.obj \in Objects /\ r.aliases = {r.path},
         id \in {"NameCreate", "Create", "CreateNewFile"} => r.kind = "open",
         id \in {"Io", "Rename", "RenamePath", "Close"} => r.obj \in Objects,
         id \in {"Rename", "RenamePath"} => r.new \in r.aliases,
         id \in {"NameCreate", "NameDelete"} => r.key \in Keys,
         id \in {"Create", "OperationEnd"} => r.irp \in Irps
  PROVE  WellFormed(e) /\ e.file = (e.req.path \notin dirs)
BY DEF Says, WellFormed

LEMMA InitStream == Init => StreamInv
<1> SUFFICES ASSUME Init PROVE StreamInv
  OBVIOUS
<1>1. etw \in Seq(Events) /\ DOMAIN etw = {}
  BY EmptySeq, LenProperties DEF Init
<1> QED
  BY <1>1 DEF Init, StreamInv, KernelOK, TypeOK, IsMap, EmptyMap

\* The monitor has no part in the steps of the kernel, nor it in the kernel's.
LEMMA KernelStream ==
  ASSUME StreamInv, Kernel
  PROVE  StreamInv'
<1> USE DEF StreamInv
<1>0. Len(etw) \in Nat /\ DOMAIN etw = 1..Len(etw) /\ etw \in Seq(Events)
  BY StreamLength DEF TypeOK
<1>1. ASSUME NEW p \in Pids, NEW i \in Irps, NEW o \in Objects, NEW x \in Paths,
             NEW d \in BOOLEAN, StartOpen(p, i, o, x, d)
      PROVE  StreamInv'
  <2>1. PICK r \in Requests :
           /\ r.kind = "open" /\ r.by = p /\ r.irp = i /\ r.obj = o /\ r.path = x
           /\ r.dir = d /\ r.aliases = {x} /\ i \notin DOMAIN opens /\ o \notin BusyObjects
           /\ opens' = Put(opens, i, r)
           /\ Grown(1) /\ Says(etw'[Len(etw) + 1], "Create", r)
    BY <1>1, StartOpenLogs
  <2>2. /\ UNCHANGED <<objs, names, dirs, lost, dirChanges, intact, monitorVars>>
        /\ ops' = ops + 1
    BY <1>1 DEF StartOpen, StartOp
  <2>3. IsMap(opens', Irps, Requests)
    BY <2>1, PutIsAMap DEF TypeOK
  <2>4. TypeOK'
    BY <2>1, <2>2, <2>3 DEF TypeOK, Grown, monitorVars
  <2>5. KernelOK'
    BY <2>1, <2>2 DEF KernelOK, Put, BusyObjects
  <2>6. WellFormed(etw'[Len(etw) + 1])
        /\ etw'[Len(etw) + 1].file = (etw'[Len(etw) + 1].req.path \notin dirs)
    BY <2>1, SaidIsWellFormed
  <2>7. \A n \in (Len(etw) + 1)..(Len(etw) + 1) :
          WellFormed(etw'[n]) /\ etw'[n].file = (etw'[n].req.path \notin dirs)
    BY <1>0, <2>6
  <2> QED  BY <2>1, <2>2, <2>4, <2>5, <2>7, GrownIsWellFormed
<1>2. ASSUME NEW i \in Irps, FailOpen(i) PROVE StreamInv'
  <2> DEFINE e == etw'[Len(etw) + 1]
  <2>1. /\ i \in DOMAIN opens /\ opens' = Drop(opens, i) /\ Grown(1)
        /\ e.id = "OperationEnd" /\ e.pid = opens[i].by /\ e.req = opens[i] /\ ~e.ok
        /\ e.file = (opens[i].path \notin dirs)
    BY <1>2, FailOpenLogs
  <2>2. UNCHANGED <<objs, names, dirs, ops, lost, dirChanges, intact, monitorVars>>
    BY <1>2 DEF FailOpen
  <2>3. IsMap(opens', Irps, Requests)
    BY <2>1, DropIsAMap DEF TypeOK
  <2>4. TypeOK'
    BY <2>1, <2>2, <2>3 DEF TypeOK, Grown, monitorVars
  <2>5. KernelOK'
    BY <2>1, <2>2 DEF KernelOK, Drop, Restrict
  <2>6. WellFormed(e)
    BY <2>1 DEF WellFormed, KernelOK
  <2>7. \A n \in (Len(etw) + 1)..(Len(etw) + 1) :
          WellFormed(etw'[n]) /\ etw'[n].file = (etw'[n].req.path \notin dirs)
    BY <1>0, <2>1, <2>6
  <2> QED  BY <2>1, <2>2, <2>4, <2>5, <2>7, GrownIsWellFormed
<1>3. ASSUME NEW i \in Irps, NEW k \in Keys, NEW new \in BOOLEAN, CompleteOpen(i, k, new)
      PROVE  StreamInv'
  <2>1. PICK r \in Requests, l \in 1..3 :
           /\ i \in DOMAIN opens /\ opens' = Drop(opens, i)
           /\ objs' = Put(objs, opens[i].obj, [by |-> opens[i].by, path |-> opens[i].path,
                                               key |-> k, aliases |-> {opens[i].path}])
           /\ names' = Put(names, k, opens[i].path)
           /\ r.kind = opens[i].kind /\ r.by = opens[i].by /\ r.irp = opens[i].irp
           /\ r.obj = opens[i].obj /\ r.path = opens[i].path /\ r.dir = opens[i].dir
           /\ r.aliases = opens[i].aliases /\ r.key = k
           /\ Grown(l) /\ Says(etw'[Len(etw) + l], "OperationEnd", r)
           /\ \A n \in (Len(etw) + 1)..(Len(etw) + l - 1) :
                \/ Says(etw'[n], "NameCreate", r)
                \/ Says(etw'[n], "CreateNewFile", r)
    BY <1>3, CompleteOpenLogs
  <2>2. UNCHANGED <<dirs, ops, lost, dirChanges, intact, monitorVars>>
    BY <1>3 DEF CompleteOpen
  <2>3. opens[i] \in Requests /\ opens[i].obj \in Objects
    BY <2>1 DEF TypeOK, IsMap, KernelOK
  <2>4. IsMap(opens', Irps, Requests) /\ IsMap(names', Keys, Paths)
    BY <2>1, <2>3, DropIsAMap, PutIsAMap DEF TypeOK, Requests
  <2>5. [by |-> opens[i].by, path |-> opens[i].path, key |-> k,
         aliases |-> {opens[i].path}] \in Handles
    BY <2>3 DEF Handles, Requests
  <2>6. IsMap(objs', Objects, Handles)
    BY <2>1, <2>3, <2>5, PutIsAMap DEF TypeOK
  <2>7. TypeOK'
    BY <2>1, <2>2, <2>4, <2>6 DEF TypeOK, Grown, monitorVars
  <2>8. KernelOK'
    BY <2>1 DEF KernelOK, Drop, Restrict, Put
  <2>9. /\ r.kind = "open" /\ r.irp = i /\ r.obj \in Objects /\ r.aliases = {r.path}
    BY <2>1 DEF KernelOK
  <2>10. ASSUME NEW n \in (Len(etw) + 1)..(Len(etw) + l)
         PROVE  WellFormed(etw'[n]) /\ etw'[n].file = (etw'[n].req.path \notin dirs)
    <3>1. n = Len(etw) + l \/ n \in (Len(etw) + 1)..(Len(etw) + l - 1)
      BY <1>0
    <3>2. PICK id \in {"NameCreate", "CreateNewFile", "OperationEnd"} : Says(etw'[n], id, r)
      BY <2>1, <3>1
    <3> QED  BY <2>1, <2>9, <3>2, SaidIsWellFormed
  <2> QED  BY <2>1, <2>2, <2>7, <2>8, <2>10, GrownIsWellFormed
<1>4. ASSUME NEW p \in Pids, NEW i \in Irps, NEW o \in Objects, UseFile(p, i, o)
      PROVE  StreamInv'
  <2>1. PICK r \in Requests :
           /\ o \in DOMAIN objs /\ MayUse(p, o) /\ i \notin DOMAIN opens
           /\ OfHandle(r, "io", p, i, o) /\ Grown(2)
           /\ Says(etw'[Len(etw) + 1], "Io", r)
           /\ Says(etw'[Len(etw) + 2], "OperationEnd", r)
    BY <1>4, UseFileLogs
  <2>2. /\ UNCHANGED <<opens, objs, names, dirs, lost, dirChanges, intact, monitorVars>>
        /\ ops' = ops + 1
    BY <1>4 DEF UseFile, StartOp
  <2>3. TypeOK' /\ KernelOK'
    BY <2>1, <2>2 DEF TypeOK, Grown, monitorVars, KernelOK
  <2>4. r.kind = "io" /\ r.obj = o /\ r.irp = i /\ r.path \in r.aliases
    BY <2>1 DEF OfHandle, KernelOK
  <2>5. ASSUME NEW n \in (Len(etw) + 1)..(Len(etw) + 2)
        PROVE  WellFormed(etw'[n]) /\ etw'[n].file = (etw'[n].req.path \notin dirs)
    <3>1. PICK id \in {"Io", "OperationEnd"} : Says(etw'[n], id, r)
      BY <1>0, <2>1
    <3> QED  BY <2>4, <3>1, SaidIsWellFormed
  <2> QED  BY <2>1, <2>2, <2>3, <2>5, GrownIsWellFormed
<1>5. ASSUME NEW p \in Pids, NEW i \in Irps, NEW o \in Objects, NEW x \in Paths,
             NEW ok \in BOOLEAN, RenameFile(p, i, o, x, ok)
      PROVE  StreamInv'
  <2> DEFINE e == etw'[Len(etw) + 3]
  <2>1. PICK r \in Requests :
           /\ o \in DOMAIN objs /\ MayUse(p, o) /\ i \notin DOMAIN opens
           /\ objs' = [objs EXCEPT ![o].path = IF ok THEN x ELSE @, ![o].aliases = @ \cup {x}]
           /\ OfHandle(r, "rename", p, i, o) /\ r.new = x /\ Grown(3)
           /\ r.aliases = objs[o].aliases \cup {x}
           /\ Says(etw'[Len(etw) + 1], "Rename", r)
           /\ Says(etw'[Len(etw) + 2], "RenamePath", r)
           /\ e.id = "OperationEnd" /\ e.pid = p /\ e.req = r
           /\ e.file = (r.path \notin dirs)
    BY <1>5, RenameFileLogs
  <2>2. /\ UNCHANGED <<opens, names, dirs, lost, dirChanges, intact, monitorVars>>
        /\ ops' = ops + 1
    BY <1>5 DEF RenameFile, StartOp
  <2>3. IsMap(objs', Objects, Handles)
    <3>1. objs[o] \in Handles /\ objs \in [DOMAIN objs -> Handles] /\ DOMAIN objs \subseteq Objects
      BY <2>1 DEF TypeOK, IsMap
    <3> DEFINE h == [objs[o] EXCEPT !.path = IF ok THEN x ELSE @, !.aliases = @ \cup {x}]
    <3>2. h \in Handles
      BY <3>1 DEF Handles
    <3>3. objs' = [objs EXCEPT ![o] = h]
      BY <2>1, <3>1 DEF Handles
    <3> HIDE DEF h
    <3> QED  BY <3>1, <3>2, <3>3 DEF IsMap
  <2>4. TypeOK'
    BY <2>1, <2>2, <2>3 DEF TypeOK, Grown, monitorVars
  <2>5. KernelOK'
    <3>1. DOMAIN objs' = DOMAIN objs
      BY <2>1
    <3>2. ASSUME NEW q \in DOMAIN objs PROVE objs'[q].path \in objs'[q].aliases
      <4>1. objs[q] \in Handles
        BY DEF TypeOK, IsMap
      <4>2. CASE q = o  BY <2>1, <4>1, <4>2 DEF KernelOK, Handles
      <4>3. CASE q # o  BY <2>1, <4>3 DEF KernelOK
      <4> QED  BY <4>2, <4>3
    <3> QED  BY <2>2, <3>1, <3>2 DEF KernelOK
  <2>6. r.kind = "rename" /\ r.obj = o /\ r.irp = i /\ r.path \in r.aliases /\ r.by = p
    BY <2>1 DEF OfHandle, KernelOK
  <2>7. ASSUME NEW n \in (Len(etw) + 1)..(Len(etw) + 3)
        PROVE  WellFormed(etw'[n]) /\ etw'[n].file = (etw'[n].req.path \notin dirs)
    <3>1. CASE n = Len(etw) + 3
      BY <2>1, <2>6, <3>1 DEF WellFormed
    <3>2. CASE n # Len(etw) + 3
      <4>1. PICK id \in {"Rename", "RenamePath"} : Says(etw'[n], id, r)
        BY <1>0, <2>1, <3>2
      <4> QED  BY <2>1, <2>6, <4>1, SaidIsWellFormed
    <3> QED  BY <3>1, <3>2
  <2> QED  BY <2>1, <2>2, <2>4, <2>5, <2>7, GrownIsWellFormed
<1>6. ASSUME NEW p \in Pids, NEW i \in Irps, NEW o \in Objects, CloseFile(p, i, o)
      PROVE  StreamInv'
  <2>1. PICK r \in Requests :
           /\ o \in DOMAIN objs /\ (MayUse(p, o) \/ p \notin Monitored)
           /\ i \notin DOMAIN opens /\ objs' = Drop(objs, o)
           /\ OfHandle(r, "close", p, i, o) /\ Grown(2)
           /\ Says(etw'[Len(etw) + 1], "Close", r)
           /\ Says(etw'[Len(etw) + 2], "OperationEnd", r)
    BY <1>6, CloseFileLogs
  <2>2. UNCHANGED <<opens, names, dirs, ops, lost, dirChanges, intact, monitorVars>>
    BY <1>6 DEF CloseFile
  <2>3. IsMap(objs', Objects, Handles)
    BY <2>1, DropIsAMap DEF TypeOK
  <2>4. TypeOK'
    BY <2>1, <2>2, <2>3 DEF TypeOK, Grown, monitorVars
  <2>5. KernelOK'
    BY <2>1, <2>2 DEF KernelOK, Drop, Restrict
  <2>6. r.kind = "close" /\ r.obj = o /\ r.irp = i /\ r.path \in r.aliases
    BY <2>1 DEF OfHandle, KernelOK
  <2>7. ASSUME NEW n \in (Len(etw) + 1)..(Len(etw) + 2)
        PROVE  WellFormed(etw'[n]) /\ etw'[n].file = (etw'[n].req.path \notin dirs)
    <3>1. PICK id \in {"Close", "OperationEnd"} : Says(etw'[n], id, r)
      BY <1>0, <2>1
    <3> QED  BY <2>6, <3>1, SaidIsWellFormed
  <2> QED  BY <2>1, <2>2, <2>4, <2>5, <2>7, GrownIsWellFormed
<1>7. ASSUME NEW p \in Pids, NEW k \in Keys, ForgetName(p, k) PROVE StreamInv'
  <2>1. PICK r \in Requests :
           /\ r.kind = "name" /\ r.by = p /\ r.key = k /\ r.path \in r.aliases
           /\ names' = Drop(names, k)
           /\ Grown(1) /\ Says(etw'[Len(etw) + 1], "NameDelete", r)
    BY <1>7, ForgetNameLogs
  <2>2. UNCHANGED <<opens, objs, dirs, ops, lost, dirChanges, intact, monitorVars>>
    BY <1>7 DEF ForgetName
  <2>3. IsMap(names', Keys, Paths)
    BY <2>1, DropIsAMap DEF TypeOK
  <2>4. TypeOK' /\ KernelOK'
    BY <2>1, <2>2, <2>3 DEF TypeOK, Grown, monitorVars, KernelOK
  <2>5. WellFormed(etw'[Len(etw) + 1])
        /\ etw'[Len(etw) + 1].file = (etw'[Len(etw) + 1].req.path \notin dirs)
    BY <2>1, SaidIsWellFormed
  <2>6. \A n \in (Len(etw) + 1)..(Len(etw) + 1) :
          WellFormed(etw'[n]) /\ etw'[n].file = (etw'[n].req.path \notin dirs)
    BY <1>0, <2>5
  <2> QED  BY <2>1, <2>2, <2>4, <2>6, GrownIsWellFormed
<1>8. ASSUME NEW x \in Paths, ChangeDirectory(x) PROVE StreamInv'
  <2>1. /\ UNCHANGED <<opens, objs, names, ops, lost, owed, intact, etw, monitorVars>>
        /\ dirs' \subseteq Paths /\ dirChanges' = dirChanges + 1
    BY <1>8 DEF ChangeDirectory, TypeOK
  <2>2. dirChanges' \in Nat /\ dirChanges' # 0
    BY <2>1 DEF TypeOK
  <2> QED  BY <2>1, <2>2 DEF TypeOK, monitorVars, KernelOK
<1>9. ASSUME NEW l \in 1..Len(etw), LoseEvent(l) PROVE StreamInv'
  <2>1. /\ etw' = Without(etw, l) /\ lost' = lost + 1
        /\ intact' = (intact /\ ~Correlates(etw[l]))
        /\ UNCHANGED <<opens, objs, names, dirs, ops, dirChanges, owed, monitorVars>>
    BY <1>9 DEF LoseEvent, Without
  <2>2. etw' \in Seq(Events)
    BY <1>0, <2>1, WithoutIsShorter
  <2>4. \A k \in DOMAIN etw' : \E n \in DOMAIN etw : etw'[k] = etw[n]
    BY <1>0, <2>1, WithoutIsWithin
  <2>5. TypeOK' /\ KernelOK'
    BY <2>1, <2>2 DEF TypeOK, monitorVars, KernelOK
  <2> QED  BY <2>1, <2>4, <2>5
<1> QED  BY <1>1, <1>2, <1>3, <1>4, <1>5, <1>6, <1>7, <1>8, <1>9 DEF Kernel

------------------------------------------------------------------------------
(* What the callback does to its tables.                                   *)

LEMMA Delivering ==
  ASSUME TypeOK, NEW ids, Deliver(ids)
  PROVE  /\ Head(etw) = etw[1] /\ Head(etw) \in Events /\ 1 \in DOMAIN etw /\ etw # <<>>
         /\ Head(etw).id \in ids /\ etw' = Tail(etw) /\ etw' \in Seq(Events)
         /\ Len(etw') = Len(etw) - 1 /\ DOMAIN etw' = 1..(Len(etw) - 1)
         /\ \A n \in 1..(Len(etw) - 1) : etw'[n] = etw[n + 1] /\ n + 1 \in DOMAIN etw
         /\ UNCHANGED kernelVars
BY HeadTailProperties, LenProperties, EmptySeq DEF Deliver, TypeOK

Delivery ==
  /\ Head(etw) = etw[1] /\ Head(etw) \in Events /\ 1 \in DOMAIN etw /\ etw # <<>>
  /\ etw' = Tail(etw) /\ etw' \in Seq(Events)
  /\ Len(etw') = Len(etw) - 1 /\ DOMAIN etw' = 1..(Len(etw) - 1)
  /\ \A n \in 1..(Len(etw) - 1) : etw'[n] = etw[n + 1] /\ n + 1 \in DOMAIN etw
  /\ UNCHANGED kernelVars

LEMMA CallbackDelivers ==
  ASSUME TypeOK, Callback
  PROVE  Delivery
<1> SUFFICES \E ids : Deliver(ids)
  BY Delivering DEF Delivery
<1> QED
  BY DEF Callback, NameCreateHandler, NameDeleteHandler, IgnoreForeignEvent, CreateOpenHandler,
         OperationEndHandler, CreateNewFileHandler, DiagnosticHandler, CloseHandler,
         RenameHandler, RenamePathHandler

\* The parts of an event that the handlers use.
LEMMA EventParts ==
  ASSUME NEW e \in Events
  PROVE  /\ e.id \in EventIds /\ e.pid \in Pids /\ e.ok \in BOOLEAN /\ e.file \in BOOLEAN
         /\ e.req \in Requests /\ e.req.path \in Paths /\ e.req.aliases \subseteq Paths
         /\ e.req.by \in Pids /\ e.req.dir \in BOOLEAN
BY DEF Events, Requests

LEMMA Resolving ==
  ASSUME TypeOK, NEW r
  PROVE  ResolveFilePath(r) \in Paths \cup {Nil}
BY DEF TypeOK, IsMap, ResolveFilePath

LEMMA Recording ==
  ASSUME TypeOK, NEW e \in Events, NEW path \in Paths \cup {Nil}, RecordFileEvent(e, path)
  PROVE  /\ recorded' \subseteq Records
         /\ recorded' = recorded \/ recorded' = {[event |-> e, path |-> path]}
BY DEF TypeOK, RecordFileEvent, Records

LEMMA Reacting ==
  ASSUME TypeOK, NEW e \in Events, NEW isValid \in BOOLEAN, React(e, isValid)
  PROVE  requested' \in BOOLEAN /\ cause' \subseteq Events
BY DEF TypeOK, React

LEMMA CallbackTyped ==
  ASSUME StreamInv, Callback
  PROVE  TypeOK'
<1> DEFINE e == Head(etw)
           r == e.req
<1>0. TypeOK /\ Delivery
  BY CallbackDelivers DEF StreamInv
<1>1. /\ e \in Events /\ WellFormed(e)
  BY <1>0 DEF Delivery, StreamInv
<1>2. /\ e.pid \in Pids /\ e.ok \in BOOLEAN /\ r.path \in Paths /\ r.aliases \subseteq Paths
      /\ r.dir \in BOOLEAN
  BY <1>1, EventParts
<1>3. /\ opens' = opens /\ objs' = objs /\ names' = names /\ dirs' = dirs
      /\ ops' = ops /\ lost' = lost /\ dirChanges' = dirChanges
      /\ owed' = owed /\ intact' = intact /\ etw' \in Seq(Events)
  BY <1>0 DEF Delivery, kernelVars
<1>4. SUFFICES /\ IsMap(objectPath', Objects, Paths) /\ IsMap(keyPath', Keys, Paths)
               /\ IsMap(pending', Irps, Pendings)
               /\ requested' \in BOOLEAN /\ cause' \subseteq Events /\ recorded' \subseteq Records
  BY <1>0, <1>3 DEF TypeOK
<1> HIDE DEF e
<1>5. CASE NameCreateHandler
  <2>1. r.key \in Keys
    BY <1>1, <1>5 DEF NameCreateHandler, Deliver, WellFormed, e
  <2>2. /\ keyPath' = Put(keyPath, r.key, r.path)
        /\ UNCHANGED <<objectPath, pending, requested, cause, recorded>>
    BY <1>5 DEF NameCreateHandler, e
  <2> QED  BY <1>0, <1>2, <2>1, <2>2, PutIsAMap DEF TypeOK
<1>6. CASE NameDeleteHandler
  <2>1. /\ keyPath' = Drop(keyPath, r.key)
        /\ UNCHANGED <<objectPath, pending, requested, cause, recorded>>
    BY <1>6 DEF NameDeleteHandler, e
  <2> QED  BY <1>0, <2>1, DropIsAMap DEF TypeOK
<1>7. CASE IgnoreForeignEvent
  BY <1>0, <1>7 DEF IgnoreForeignEvent, monitorVars, TypeOK
<1>8. CASE CreateOpenHandler
  <2> DEFINE create == [path |-> r.path, obj |-> r.obj, pid |-> e.pid]
  <2>1. /\ e.id = "Create" /\ RecordFileEvent(e, r.path)
        /\ objectPath' = Put(objectPath, r.obj, r.path)
        /\ pending' = IF IsTracked(r) THEN Put(pending, r.irp, create) ELSE pending
        /\ UNCHANGED <<keyPath, requested, cause>>
    BY <1>8 DEF CreateOpenHandler, Deliver, SetName, e
  <2>2. r.obj \in Objects /\ r.irp \in Irps
    BY <1>1, <2>1 DEF WellFormed
  <2>3. create \in Pendings
    BY <1>2, <2>2 DEF Pendings
  <2> HIDE DEF create
  <2>4. IsMap(pending', Irps, Pendings)
    BY <1>0, <2>1, <2>2, <2>3, PutIsAMap DEF TypeOK
  <2>5. IsMap(objectPath', Objects, Paths)
    BY <1>0, <1>2, <2>1, <2>2, PutIsAMap DEF TypeOK
  <2>6. recorded' \subseteq Records
    BY <1>0, <1>1, <1>2, <2>1, Recording
  <2> QED  BY <1>0, <2>1, <2>4, <2>5, <2>6 DEF TypeOK
<1>9. CASE OperationEndHandler
  <2> DEFINE tracked == r.irp \in DOMAIN pending
             create == pending[r.irp]
             access == tracked /\ IsAccess(e, create)
  <2>1. /\ pending' = Drop(pending, r.irp)
        /\ objectPath' = IF access THEN Put(objectPath, create.obj, create.path)
                                   ELSE objectPath
        /\ React(e, ~access) /\ UNCHANGED <<keyPath, recorded>>
    BY <1>9 DEF OperationEndHandler, Untrack, SetName, e
  <2>2. tracked => create \in Pendings
    BY <1>0 DEF TypeOK, IsMap
  <2>3. tracked => create.obj \in Objects /\ create.path \in Paths
    BY <2>2 DEF Pendings
  <2>4. (~access) \in BOOLEAN
    OBVIOUS
  <2> HIDE DEF create, access
  <2>5. IsMap(objectPath', Objects, Paths)
    BY <1>0, <2>1, <2>3, PutIsAMap DEF TypeOK, access
  <2>6. IsMap(pending', Irps, Pendings)
    BY <1>0, <2>1, DropIsAMap DEF TypeOK
  <2>7. requested' \in BOOLEAN /\ cause' \subseteq Events
    BY <1>0, <1>1, <2>1, <2>4, Reacting
  <2> QED  BY <1>0, <2>1, <2>5, <2>6, <2>7 DEF TypeOK
<1>10. CASE CreateNewFileHandler
  <2> DEFINE valid == r.dir \/ IsExistingDirectory(r.path) \/ ~IsProtectedOutsideWorkingDir(r.path)
  <2>1. /\ e.id = "CreateNewFile" /\ RecordFileEvent(e, r.path)
        /\ objectPath' = Put(objectPath, r.obj, r.path)
        /\ React(e, valid) /\ UNCHANGED <<keyPath, pending>>
    BY <1>10 DEF CreateNewFileHandler, Deliver, SetName, e
  <2>2. r.obj \in Objects
    BY <1>1, <2>1 DEF WellFormed
  <2>3. valid \in BOOLEAN
    BY <1>2 DEF IsExistingDirectory, IsProtectedOutsideWorkingDir
  <2> HIDE DEF valid
  <2>4. IsMap(objectPath', Objects, Paths)
    BY <1>0, <1>2, <2>1, <2>2, PutIsAMap DEF TypeOK
  <2>5. recorded' \subseteq Records
    BY <1>0, <1>1, <1>2, <2>1, Recording
  <2>6. requested' \in BOOLEAN /\ cause' \subseteq Events
    BY <1>0, <1>1, <2>1, <2>3, Reacting
  <2> QED  BY <1>0, <2>1, <2>4, <2>5, <2>6 DEF TypeOK
<1>11. CASE DiagnosticHandler
  <2>1. RecordFileEvent(e, ResolveFilePath(r))
        /\ UNCHANGED <<objectPath, keyPath, pending, requested, cause>>
    BY <1>11 DEF DiagnosticHandler, e
  <2>2. recorded' \subseteq Records
    BY <1>0, <1>1, <2>1, Recording, Resolving
  <2> QED  BY <1>0, <2>1, <2>2 DEF TypeOK
<1>12. CASE CloseHandler
  <2>1. /\ RecordFileEvent(e, ResolveFilePath(r)) /\ objectPath' = Drop(objectPath, r.obj)
        /\ UNCHANGED <<keyPath, pending, requested, cause>>
    BY <1>12 DEF CloseHandler, EraseName, e
  <2>2. recorded' \subseteq Records
    BY <1>0, <1>1, <2>1, Recording, Resolving
  <2>3. IsMap(objectPath', Objects, Paths)
    BY <1>0, <2>1, DropIsAMap DEF TypeOK
  <2> QED  BY <1>0, <2>1, <2>2, <2>3 DEF TypeOK
<1>13. CASE RenameHandler
  <2> DEFINE valid == ~IsProtectedOutsideWorkingDir(ResolveFilePath(r))
  <2>1. /\ RecordFileEvent(e, ResolveFilePath(r)) /\ React(e, valid)
        /\ UNCHANGED <<objectPath, keyPath, pending>>
    BY <1>13 DEF RenameHandler, e
  <2>2. recorded' \subseteq Records
    BY <1>0, <1>1, <2>1, Recording, Resolving
  <2>3. valid \in BOOLEAN
    OBVIOUS
  <2> HIDE DEF valid
  <2>4. requested' \in BOOLEAN /\ cause' \subseteq Events
    BY <1>0, <1>1, <2>1, <2>3, Reacting
  <2> QED  BY <1>0, <2>1, <2>2, <2>4 DEF TypeOK
<1>14. CASE RenamePathHandler
  <2> DEFINE valid == ~RenameIsProtected(ResolveFilePath(r), r.new)
  <2>1. /\ e.id = "RenamePath" /\ RecordFileEvent(e, r.new) /\ React(e, valid)
        /\ objectPath' = Put(objectPath, r.obj, r.new) /\ UNCHANGED <<keyPath, pending>>
    BY <1>14 DEF RenamePathHandler, Deliver, SetName, e
  <2>2. r.obj \in Objects /\ r.new \in Paths
    BY <1>1, <1>2, <2>1 DEF WellFormed
  <2>3. recorded' \subseteq Records
    BY <1>0, <1>1, <2>1, <2>2, Recording
  <2>4. IsMap(objectPath', Objects, Paths)
    BY <1>0, <2>1, <2>2, PutIsAMap DEF TypeOK
  <2>5. valid \in BOOLEAN
    OBVIOUS
  <2> HIDE DEF valid
  <2>6. requested' \in BOOLEAN /\ cause' \subseteq Events
    BY <1>0, <1>1, <2>1, <2>5, Reacting
  <2> QED  BY <1>0, <2>1, <2>3, <2>4, <2>6 DEF TypeOK
<1> QED
  BY <1>5, <1>6, <1>7, <1>8, <1>9, <1>10, <1>11, <1>12, <1>13, <1>14 DEF Callback

LEMMA CallbackStream ==
  ASSUME StreamInv, Callback
  PROVE  StreamInv'
<1>1. TypeOK' /\ Delivery
  BY CallbackTyped, CallbackDelivers DEF StreamInv
<1>2. KernelOK'
  BY <1>1 DEF Delivery, kernelVars, StreamInv, KernelOK
<1>3. \A k \in DOMAIN etw' : \E n \in DOMAIN etw : etw'[k] = etw[n]
  BY <1>1 DEF Delivery
<1> QED  BY <1>1, <1>2, <1>3 DEF StreamInv, Delivery, kernelVars

\* The create of an IRP: what is pending changes as PendingMove says.
LEMMA CallbackPending ==
  ASSUME StreamInv, CompletionsMatch, Callback, NEW i
  PROVE  Held(pending', i) = IF PendingMove(Head(etw), i).does THEN PendingMove(Head(etw), i).to
                                                               ELSE Held(pending, i)
<1> DEFINE e == Head(etw)
           r == e.req
<1>0. TypeOK /\ Delivery
  BY CallbackDelivers DEF StreamInv
<1>1. WellFormed(e) /\ e = etw[1] /\ e \in Events
  BY <1>0 DEF Delivery, StreamInv
<1> HIDE DEF e
<1>2. CASE CreateOpenHandler
  <2> DEFINE create == [path |-> r.path, obj |-> r.obj, pid |-> e.pid]
  <2>1. /\ e.id = "Create" /\ e.pid \in Monitored
        /\ pending' = IF IsTracked(r) THEN Put(pending, r.irp, create) ELSE pending
    BY <1>2 DEF CreateOpenHandler, Deliver, FromJob, e
  <2>2. r.kind = "open" /\ r.by = e.pid
    BY <1>1, <2>1 DEF WellFormed
  <2>3. TrackedOpen(r) <=> IsTracked(r)
    BY <2>1, <2>2 DEF TrackedOpen
  <2>4. PendingMove(e, i).does <=> IsTracked(r) /\ r.irp = i
    BY <2>1, <2>3 DEF PendingMove
  <2>5. IsTracked(r) => PendingMove(e, i).to = {create}
    BY <2>1, <2>2, <2>3 DEF PendingMove, Capture
  <2> HIDE DEF create
  <2> QED  BY <2>1, <2>4, <2>5, PutIsHeld DEF e
<1>3. CASE OperationEndHandler
  <2>1. e.id = "OperationEnd" /\ pending' = Drop(pending, r.irp)
    BY <1>3 DEF OperationEndHandler, Deliver, Untrack, e
  <2>2. PendingAfter(etw, pending, r.irp, 0, Capture(r))
    <3>1. PendingAfter(etw, pending, r.irp, 1 - 1, Capture(r))
      BY <1>0, <1>1, <2>1 DEF CompletionsMatch, Delivery
    <3> QED  BY <3>1
  <2>3. Held(pending, r.irp) = Capture(r)
    BY <2>2, PendingNext
  <2>4. Held(pending', i) = IF i = r.irp THEN {} ELSE Held(pending, i)
    BY <2>1, DropIsHeld
  <2> QED  BY <2>1, <2>3, <2>4 DEF PendingMove, Capture, e
<1>4. CASE ~CreateOpenHandler /\ ~OperationEndHandler
  <2>1. pending' = pending
    BY <1>4 DEF Callback, NameCreateHandler, NameDeleteHandler, IgnoreForeignEvent,
                CreateNewFileHandler, DiagnosticHandler, CloseHandler, RenameHandler,
                RenamePathHandler, monitorVars
  <2>2. e.id = "Create" => ~FromJob(e)
    BY <1>4 DEF Callback, NameCreateHandler, NameDeleteHandler, IgnoreForeignEvent,
                CreateNewFileHandler, DiagnosticHandler, CloseHandler, RenameHandler,
                RenamePathHandler, Deliver, e
  <2>3. e.id # "OperationEnd"
    BY <1>4 DEF Callback, NameCreateHandler, NameDeleteHandler, IgnoreForeignEvent,
                CreateNewFileHandler, DiagnosticHandler, CloseHandler, RenameHandler,
                RenamePathHandler, Deliver, e
  <2>4. ~PendingMove(e, i).does
    BY <1>1, <2>2, <2>3 DEF PendingMove, TrackedOpen, FromJob, WellFormed
  <2> QED  BY <2>1, <2>4 DEF e
<1> QED  BY <1>2, <1>3, <1>4

\* The name of a file object changes as NameMove says.
LEMMA CallbackNames ==
  ASSUME StreamInv, NamesAreTrue, CompletionsMatch, Callback, NEW o
  PROVE  Held(objectPath', o) = IF NameMove(Head(etw), o).does THEN NameMove(Head(etw), o).to
                                                               ELSE Held(objectPath, o)
<1> DEFINE e == Head(etw)
           r == e.req
<1>0. TypeOK /\ Delivery
  BY CallbackDelivers DEF StreamInv
<1>1. WellFormed(e) /\ e = etw[1] /\ e \in Events
  BY <1>0 DEF Delivery, StreamInv
<1>2. ReliesOnName(e) => r.obj \in DOMAIN objectPath /\ objectPath[r.obj] \in r.aliases
  <2>1. ReliesOnName(e) => NameAfter(etw, objectPath, r.obj, 1 - 1, r.aliases)
    BY <1>0, <1>1 DEF NamesAreTrue, Delivery
  <2>2. ReliesOnName(e) => NameAfter(etw, objectPath, r.obj, 0, r.aliases)
    BY <2>1
  <2> QED  BY <2>2, NameNext
<1> HIDE DEF e
<1>3. CASE CreateOpenHandler
  <2>1. e.id = "Create" /\ FromJob(e) /\ objectPath' = Put(objectPath, r.obj, r.path)
    BY <1>3 DEF CreateOpenHandler, Deliver, SetName, e
  <2>2. Held(objectPath', o) = IF o = r.obj THEN {r.path} ELSE Held(objectPath, o)
    BY <2>1, PutIsHeld
  <2>3. (NameMove(e, o).does <=> r.obj = o) /\ NameMove(e, o).to = {r.path}
    BY <2>1 DEF NameMove
  <2> QED  BY <2>2, <2>3 DEF e
<1>4. CASE OperationEndHandler
  <2> DEFINE tracked == r.irp \in DOMAIN pending
             create == pending[r.irp]
             access == tracked /\ IsAccess(e, create)
  <2>1. /\ e.id = "OperationEnd"
        /\ objectPath' = IF access THEN Put(objectPath, create.obj, create.path)
                                   ELSE objectPath
    BY <1>4 DEF OperationEndHandler, Deliver, SetName, e
  <2>2. Held(pending, r.irp) = Capture(r)
    <3>1. PendingAfter(etw, pending, r.irp, 1 - 1, Capture(r))
      BY <1>0, <1>1, <2>1 DEF CompletionsMatch, Delivery
    <3>2. PendingAfter(etw, pending, r.irp, 0, Capture(r))
      BY <3>1
    <3> QED  BY <3>2, PendingNext
  <2>3. tracked => TrackedOpen(r) /\ create = [path |-> r.path, obj |-> r.obj, pid |-> r.by]
    BY <2>2 DEF Held, Capture
  <2>4. tracked => ReliesOnName(e) /\ r.aliases = {r.path}
    BY <1>1, <2>1, <2>3 DEF ReliesOnName, TrackedOpen, WellFormed, FromJob
  <2>5. tracked => create.obj \in DOMAIN objectPath /\ objectPath[create.obj] = create.path
    BY <1>2, <2>3, <2>4
  <2> HIDE DEF tracked, create
  <2>6. Held(objectPath', o) = Held(objectPath, o)
    <3>1. CASE access
      <4>1. Held(objectPath, create.obj) = {create.path}
        BY <2>5, <3>1 DEF Held
      <4>2. Held(objectPath', o) = IF o = create.obj THEN {create.path}
                                                     ELSE Held(objectPath, o)
        BY <2>1, <3>1, PutIsHeld
      <4> QED  BY <4>1, <4>2
    <3>2. CASE ~access
      BY <2>1, <3>2
    <3> QED  BY <3>1, <3>2
  <2>7. ~NameMove(e, o).does
    BY <2>1 DEF NameMove
  <2> QED  BY <2>6, <2>7 DEF e
<1>5. CASE CreateNewFileHandler
  <2>1. /\ e.id = "CreateNewFile" /\ FromJob(e)
        /\ objectPath' = Put(objectPath, r.obj, r.path)
    BY <1>5 DEF CreateNewFileHandler, Deliver, SetName, e
  <2>2. r.obj \in DOMAIN objectPath /\ objectPath[r.obj] = r.path
    BY <1>1, <1>2, <2>1 DEF ReliesOnName, WellFormed
  <2>3. Held(objectPath', o) = Held(objectPath, o)
    <3>1. Held(objectPath, r.obj) = {r.path}
      BY <2>2 DEF Held
    <3>2. Held(objectPath', o) = IF o = r.obj THEN {r.path} ELSE Held(objectPath, o)
      BY <2>1, PutIsHeld
    <3> QED  BY <3>1, <3>2
  <2>4. ~NameMove(e, o).does
    BY <2>1 DEF NameMove
  <2> QED  BY <2>3, <2>4 DEF e
<1>6. CASE CloseHandler
  <2>1. e.id = "Close" /\ FromJob(e) /\ objectPath' = Drop(objectPath, r.obj)
    BY <1>6 DEF CloseHandler, Deliver, EraseName, e
  <2>2. Held(objectPath', o) = IF o = r.obj THEN {} ELSE Held(objectPath, o)
    BY <2>1, DropIsHeld
  <2>3. (NameMove(e, o).does <=> r.obj = o) /\ NameMove(e, o).to = {}
    BY <2>1 DEF NameMove
  <2> QED  BY <2>2, <2>3 DEF e
<1>7. CASE RenamePathHandler
  <2>1. e.id = "RenamePath" /\ FromJob(e) /\ objectPath' = Put(objectPath, r.obj, r.new)
    BY <1>7 DEF RenamePathHandler, Deliver, SetName, e
  <2>2. Held(objectPath', o) = IF o = r.obj THEN {r.new} ELSE Held(objectPath, o)
    BY <2>1, PutIsHeld
  <2>3. (NameMove(e, o).does <=> r.obj = o) /\ NameMove(e, o).to = {r.new}
    BY <2>1 DEF NameMove
  <2> QED  BY <2>2, <2>3 DEF e
<1>8. CASE NameCreateHandler \/ NameDeleteHandler \/ DiagnosticHandler \/ RenameHandler
  <2>1. /\ e.id \in {"NameCreate", "NameDelete", "Io", "Rename"}
        /\ objectPath' = objectPath
    BY <1>8 DEF NameCreateHandler, NameDeleteHandler, DiagnosticHandler, RenameHandler,
                Deliver, e
  <2> QED  BY <2>1 DEF NameMove, e
<1>9. CASE IgnoreForeignEvent
  BY <1>9 DEF IgnoreForeignEvent, monitorVars, NameMove
<1> QED  BY <1>3, <1>4, <1>5, <1>6, <1>7, <1>8, <1>9 DEF Callback

------------------------------------------------------------------------------
(* The names the table will have are true.                                 *)

\* A longer stream: the events that were there, and the new ones up to the m-th.
LEMMA GrownName ==
  ASSUME TypeOK, NEW l \in Nat, Grown(l), NEW t, NEW o, NEW S,
         NEW n \in Nat, NEW m \in Nat, n <= Len(etw), n <= m, m <= Len(etw) + l,
         NameAfter(etw, t, o, n, S),
         \A k \in (n + 1)..m : ~NameMove(etw'[k], o).does
  PROVE  NameAfter(etw', t, o, m, S)
<1>1. Len(etw) \in Nat /\ DOMAIN etw = 1..Len(etw)
  BY StreamLength
<1>2. DOMAIN etw' = 1..(Len(etw) + l) /\ \A k \in 1..Len(etw) : etw'[k] = etw[k]
  BY LenProperties DEF Grown
<1>3. 1..n \subseteq DOMAIN etw
  BY <1>1
<1>4. 1..m \subseteq DOMAIN etw'
  BY <1>1, <1>2
<1>5. \A k \in 1..n : etw'[k] = etw[k]
  BY <1>1, <1>2
<1> QED  BY <1>3, <1>4, <1>5, NameKept

\* What is left of the stream when an event is lost that the table does not need.
LEMMA ThinnedName ==
  ASSUME StreamInv, NEW l \in 1..Len(etw), ~Correlates(etw[l]), NEW t, NEW o, NEW S,
         NEW n \in 0..Len(etw), NameAfter(etw, t, o, n, S)
  PROVE  NameAfter(Without(etw, l), t, o, IF l <= n THEN n - 1 ELSE n, S)
<1>1. Len(etw) \in Nat /\ DOMAIN etw = 1..Len(etw) /\ etw \in Seq(Events)
  BY StreamLength DEF StreamInv, TypeOK
<1>2. CASE l <= n
  <2>1. n \in l..Len(etw) /\ WellFormed(etw[l])
    BY <1>1, <1>2 DEF StreamInv
  <2>2. NameAfter(Without(etw, l), t, o, n - 1, S)
    BY <1>1, <2>1, NameThinned
  <2> QED  BY <1>2, <2>2
<1>3. CASE ~(l <= n)
  <2>1. DOMAIN Without(etw, l) = 1..(Len(etw) - 1)
    BY <1>1, WithoutIsShorter, LenProperties
  <2>2. \A k \in 1..n : Without(etw, l)[k] = etw[k]
    <3>1. \A k \in 1..(Len(etw) - 1) :
            Without(etw, l)[k] = IF k < l THEN etw[k] ELSE etw[k + 1]
      BY <1>1, WithoutIsShorter
    <3>2. \A k \in 1..n : k \in 1..(Len(etw) - 1) /\ k < l
      BY <1>1, <1>3
    <3> QED  BY <3>1, <3>2
  <2>3. /\ n \in Nat /\ n <= n /\ 1..n \subseteq DOMAIN etw
        /\ 1..n \subseteq DOMAIN Without(etw, l) /\ (n + 1)..n = {}
    BY <1>1, <1>3, <2>1
  <2>4. NameAfter(Without(etw, l), t, o, n, S)
    BY <2>2, <2>3, NameKept
  <2> QED  BY <1>3, <2>4
<1> QED  BY <1>2, <1>3

\* Every event there was relies on a name that is still there for it.
LEMMA OldNamesStay ==
  ASSUME StreamInv, NEW l \in Nat, Grown(l), NamesAreTrue, NEW n \in 1..Len(etw),
         ReliesOnName(etw'[n])
  PROVE  NameAfter(etw', objectPath, etw'[n].req.obj, n - 1, etw'[n].req.aliases)
<1>1. Len(etw) \in Nat /\ DOMAIN etw = 1..Len(etw) /\ etw'[n] = etw[n] /\ TypeOK
  BY StreamLength DEF StreamInv, Grown
<1>2. NameAfter(etw, objectPath, etw[n].req.obj, n - 1, etw[n].req.aliases)
  BY <1>1 DEF NamesAreTrue
<1>3. n - 1 \in 0..Len(etw) /\ n - 1 \in (n - 1)..(Len(etw) + l)
      /\ (Len(etw) + 1)..(n - 1) = {}
  BY <1>1
<1> QED  BY <1>1, <1>2, <1>3, GrownName

\* The new events, the handles and the creates are what remains to be seen.
LEMMA GrownNamesAreTrue ==
  ASSUME StreamInv, NEW l \in Nat, Grown(l), NamesAreTrue, objectPath' = objectPath,
         \A n \in (Len(etw) + 1)..(Len(etw) + l) : ReliesOnName(etw'[n]) =>
           NameAfter(etw', objectPath, etw'[n].req.obj, n - 1, etw'[n].req.aliases),
         \A o \in DOMAIN objs' : objs'[o].by \in Monitored =>
           NameAfter(etw', objectPath, o, Len(etw) + l, objs'[o].aliases),
         \A i \in DOMAIN opens' : opens'[i].by \in Monitored =>
           NameAfter(etw', objectPath, opens'[i].obj, Len(etw) + l, opens'[i].aliases)
  PROVE  NamesAreTrue'
<1>1. Len(etw) \in Nat
  BY StreamLength DEF StreamInv
<1>2. DOMAIN etw' = 1..(Len(etw) + l) /\ Len(etw') = Len(etw) + l
  BY LenProperties DEF Grown
<1>3. ASSUME NEW n \in DOMAIN etw', ReliesOnName(etw'[n])
      PROVE  NameAfter(etw', objectPath, etw'[n].req.obj, n - 1, etw'[n].req.aliases)
  <2>1. CASE n \in 1..Len(etw)
    BY <1>3, <2>1, OldNamesStay
  <2>2. CASE n \in (Len(etw) + 1)..(Len(etw) + l)
    BY <1>3, <2>2
  <2> QED  BY <1>1, <1>2, <2>1, <2>2
<1> QED  BY <1>2, <1>3 DEF NamesAreTrue

LEMMA KernelNames ==
  ASSUME StreamInv, NamesAreTrue, Kernel, intact'
  PROVE  NamesAreTrue'
<1>0. Len(etw) \in Nat /\ DOMAIN etw = 1..Len(etw) /\ etw \in Seq(Events) /\ TypeOK
  BY StreamLength DEF StreamInv, TypeOK
\* What a handle, or a create, relies on, after more events that do not move it.
<1>a. ASSUME NEW l \in Nat, Grown(l), NEW o \in DOMAIN objs, objs[o].by \in Monitored,
             NEW m \in Len(etw)..(Len(etw) + l),
             \A k \in (Len(etw) + 1)..m : ~NameMove(etw'[k], o).does
      PROVE  NameAfter(etw', objectPath, o, m, objs[o].aliases)
  <2>1. Len(etw) \in 0..Len(etw)
    BY <1>0
  <2>2. NameAfter(etw, objectPath, o, Len(etw), objs[o].aliases)
    BY <1>a DEF NamesAreTrue
  <2> QED  BY <1>0, <1>a, <2>1, <2>2, GrownName
<1>b. ASSUME NEW l \in Nat, Grown(l), NEW i \in DOMAIN opens, opens[i].by \in Monitored,
             NEW m \in Len(etw)..(Len(etw) + l),
             \A k \in (Len(etw) + 1)..m : ~NameMove(etw'[k], opens[i].obj).does
      PROVE  NameAfter(etw', objectPath, opens[i].obj, m, opens[i].aliases)
  <2>1. Len(etw) \in 0..Len(etw)
    BY <1>0
  <2>2. NameAfter(etw, objectPath, opens[i].obj, Len(etw), opens[i].aliases)
    BY <1>b DEF NamesAreTrue
  <2> QED  BY <1>0, <1>b, <2>1, <2>2, GrownName
<1>1. ASSUME NEW p \in Pids, NEW i \in Irps, NEW o \in Objects, NEW x \in Paths,
             NEW d \in BOOLEAN, StartOpen(p, i, o, x, d)
      PROVE  NamesAreTrue'
  <2>1. PICK r \in Requests :
           /\ r.kind = "open" /\ r.by = p /\ r.irp = i /\ r.obj = o /\ r.path = x
           /\ r.dir = d /\ r.aliases = {x} /\ i \notin DOMAIN opens /\ o \notin BusyObjects
           /\ opens' = Put(opens, i, r)
           /\ Grown(1) /\ Says(etw'[Len(etw) + 1], "Create", r)
    BY <1>0, <1>1, StartOpenLogs
  <2>2. objs' = objs /\ objectPath' = objectPath
    BY <1>1 DEF StartOpen, monitorVars
  <2>3. \A k \in (Len(etw) + 1)..(Len(etw) + 1) : Says(etw'[k], "Create", r)
    BY <1>0, <2>1
  <2>4. \A n \in (Len(etw) + 1)..(Len(etw) + 1) : ~ReliesOnName(etw'[n])
    BY <2>3 DEF Says, ReliesOnName
  <2>5. \A q : q # o => \A k \in (Len(etw) + 1)..(Len(etw) + 1) : ~NameMove(etw'[k], q).does
    BY <2>1, <2>3 DEF Says, NameMove
  <2>6. /\ \A q \in DOMAIN objs : q # o
        /\ \A j \in DOMAIN opens : opens[j].obj # o
    BY <2>1 DEF BusyObjects
  <2>7. Len(etw) + 1 \in Len(etw)..(Len(etw) + 1)
    BY <1>0
  <2>8. \A q \in DOMAIN objs : objs[q].by \in Monitored =>
          NameAfter(etw', objectPath, q, Len(etw) + 1, objs[q].aliases)
    BY <1>a, <2>1, <2>5, <2>6, <2>7
  <2>9. ASSUME NEW j \in DOMAIN opens', opens'[j].by \in Monitored
        PROVE  NameAfter(etw', objectPath, opens'[j].obj, Len(etw) + 1, opens'[j].aliases)
    <3>1. CASE j = i
      <4>1. opens'[j] = r
        BY <2>1, <3>1 DEF Put
      <4>2. NameMove(etw'[Len(etw) + 1], o).does /\ NameMove(etw'[Len(etw) + 1], o).to = {x}
        BY <2>1, <2>9, <4>1 DEF Says, NameMove, FromJob
      <4>3. /\ Len(etw) + 1 \in Nat /\ Len(etw) + 1 \in 1..(Len(etw) + 1)
            /\ x \in {x} /\ (Len(etw) + 1 + 1)..(Len(etw) + 1) = {}
        BY <1>0
      <4>4. 1..(Len(etw) + 1) \subseteq DOMAIN etw'
        BY <2>1, LenProperties DEF Grown
      <4> QED  BY <2>1, <4>1, <4>2, <4>3, <4>4, NameMoved
    <3>2. CASE j # i
      <4>1. j \in DOMAIN opens /\ opens'[j] = opens[j]
        BY <2>1, <3>2 DEF Put
      <4> QED  BY <1>b, <2>1, <2>5, <2>6, <2>7, <2>9, <4>1
    <3> QED  BY <3>1, <3>2
  <2> QED  BY <2>1, <2>2, <2>4, <2>8, <2>9, GrownNamesAreTrue
<1>2. ASSUME NEW i \in Irps, FailOpen(i) PROVE NamesAreTrue'
  <2> DEFINE e == etw'[Len(etw) + 1]
  <2>1. /\ i \in DOMAIN opens /\ opens' = Drop(opens, i) /\ Grown(1)
        /\ e.id = "OperationEnd" /\ e.pid = opens[i].by /\ e.req = opens[i]
    BY <1>0, <1>2, FailOpenLogs
  <2>2. objs' = objs /\ objectPath' = objectPath
    BY <1>2 DEF FailOpen, monitorVars
  <2>3. \A q : \A k \in (Len(etw) + 1)..(Len(etw) + 1) : ~NameMove(etw'[k], q).does
    <3>1. \A q : ~NameMove(e, q).does
      BY <2>1 DEF NameMove
    <3>2. \A k \in (Len(etw) + 1)..(Len(etw) + 1) : k = Len(etw) + 1
      BY <1>0
    <3> QED  BY <3>1, <3>2
  <2>4. /\ Len(etw) + 1 \in Len(etw)..(Len(etw) + 1) /\ Len(etw) \in Len(etw)..(Len(etw) + 1)
        /\ (Len(etw) + 1)..Len(etw) = {} /\ Len(etw) + 1 - 1 = Len(etw)
    BY <1>0
  <2>5. ReliesOnName(e) => NameAfter(etw', objectPath, e.req.obj, Len(etw), e.req.aliases)
    BY <1>b, <2>1, <2>4 DEF ReliesOnName, FromJob
  <2>6. \A n \in (Len(etw) + 1)..(Len(etw) + 1) : n = Len(etw) + 1
    BY <1>0
  <2>7. \A q \in DOMAIN objs : objs[q].by \in Monitored =>
          NameAfter(etw', objectPath, q, Len(etw) + 1, objs[q].aliases)
    BY <1>a, <2>1, <2>3, <2>4
  <2>8. ASSUME NEW j \in DOMAIN opens', opens'[j].by \in Monitored
        PROVE  NameAfter(etw', objectPath, opens'[j].obj, Len(etw) + 1, opens'[j].aliases)
    <3>1. j \in DOMAIN opens /\ opens'[j] = opens[j]
      BY <2>1 DEF Drop, Restrict
    <3> QED  BY <1>b, <2>1, <2>3, <2>4, <2>8, <3>1
  <2>9. \A n \in (Len(etw) + 1)..(Len(etw) + 1) : ReliesOnName(etw'[n]) =>
          NameAfter(etw', objectPath, etw'[n].req.obj, n - 1, etw'[n].req.aliases)
    BY <2>4, <2>5, <2>6
  <2> QED  BY <2>1, <2>2, <2>7, <2>8, <2>9, GrownNamesAreTrue
<1>3. ASSUME NEW i \in Irps, NEW k \in Keys, NEW new \in BOOLEAN, CompleteOpen(i, k, new)
      PROVE  NamesAreTrue'
  <2>1. PICK r \in Requests, l \in 1..3 :
           /\ i \in DOMAIN opens /\ opens' = Drop(opens, i)
           /\ objs' = Put(objs, opens[i].obj, [by |-> opens[i].by, path |-> opens[i].path,
                                               key |-> k, aliases |-> {opens[i].path}])
           /\ names' = Put(names, k, opens[i].path)
           /\ r.kind = opens[i].kind /\ r.by = opens[i].by /\ r.irp = opens[i].irp
           /\ r.obj = opens[i].obj /\ r.path = opens[i].path /\ r.dir = opens[i].dir
           /\ r.aliases = opens[i].aliases /\ r.key = k
           /\ Grown(l) /\ Says(etw'[Len(etw) + l], "OperationEnd", r)
           /\ \A n \in (Len(etw) + 1)..(Len(etw) + l - 1) :
                \/ Says(etw'[n], "NameCreate", r)
                \/ Says(etw'[n], "CreateNewFile", r)
    BY <1>0, <1>3, CompleteOpenLogs
  <2>2. objectPath' = objectPath /\ l \in Nat
    BY <1>3 DEF CompleteOpen, monitorVars
  <2>3. ASSUME NEW n \in (Len(etw) + 1)..(Len(etw) + l)
        PROVE  etw'[n].req = r /\ etw'[n].pid = r.by
               /\ etw'[n].id \in {"NameCreate", "CreateNewFile", "OperationEnd"}
    <3>1. n = Len(etw) + l \/ n \in (Len(etw) + 1)..(Len(etw) + l - 1)
      BY <1>0
    <3> QED  BY <2>1, <3>1 DEF Says
  <2>4. \A q : \A n \in (Len(etw) + 1)..(Len(etw) + l) : ~NameMove(etw'[n], q).does
    BY <2>3 DEF NameMove
  <2>5. ASSUME NEW n \in (Len(etw) + 1)..(Len(etw) + l), ReliesOnName(etw'[n])
        PROVE  NameAfter(etw', objectPath, etw'[n].req.obj, n - 1, etw'[n].req.aliases)
    <3>1. opens[i].by \in Monitored
      BY <2>1, <2>3, <2>5 DEF ReliesOnName, FromJob
    <3>2. n - 1 \in Len(etw)..(Len(etw) + l)
          /\ (Len(etw) + 1)..(n - 1) \subseteq (Len(etw) + 1)..(Len(etw) + l)
      BY <1>0
    <3>3. NameAfter(etw', objectPath, opens[i].obj, n - 1, opens[i].aliases)
      BY <1>b, <2>1, <2>2, <2>4, <3>1, <3>2
    <3> QED  BY <2>1, <2>3, <3>3
  <2>6. Len(etw) + l \in Len(etw)..(Len(etw) + l)
    BY <1>0
  <2>7. ASSUME NEW q \in DOMAIN objs', objs'[q].by \in Monitored
        PROVE  NameAfter(etw', objectPath, q, Len(etw) + l, objs'[q].aliases)
    <3>1. CASE q = opens[i].obj
      <4>1. objs'[q].by = opens[i].by /\ objs'[q].aliases = opens[i].aliases
        BY <2>1, <3>1 DEF Put, StreamInv, KernelOK
      <4> QED  BY <1>b, <2>1, <2>2, <2>4, <2>6, <2>7, <3>1, <4>1
    <3>2. CASE q # opens[i].obj
      <4>1. q \in DOMAIN objs /\ objs'[q] = objs[q]
        BY <2>1, <3>2 DEF Put
      <4> QED  BY <1>a, <2>1, <2>2, <2>4, <2>6, <2>7, <4>1
    <3> QED  BY <3>1, <3>2
  <2>8. ASSUME NEW j \in DOMAIN opens', opens'[j].by \in Monitored
        PROVE  NameAfter(etw', objectPath, opens'[j].obj, Len(etw) + l, opens'[j].aliases)
    <3>1. j \in DOMAIN opens /\ opens'[j] = opens[j]
      BY <2>1 DEF Drop, Restrict
    <3> QED  BY <1>b, <2>1, <2>2, <2>4, <2>6, <2>8, <3>1
  <2> QED  BY <2>1, <2>2, <2>5, <2>7, <2>8, GrownNamesAreTrue
<1>4. ASSUME NEW p \in Pids, NEW i \in Irps, NEW o \in Objects, UseFile(p, i, o)
      PROVE  NamesAreTrue'
  <2>1. PICK r \in Requests :
           /\ o \in DOMAIN objs /\ MayUse(p, o) /\ i \notin DOMAIN opens
           /\ OfHandle(r, "io", p, i, o) /\ Grown(2)
           /\ Says(etw'[Len(etw) + 1], "Io", r)
           /\ Says(etw'[Len(etw) + 2], "OperationEnd", r)
    BY <1>0, <1>4, UseFileLogs
  <2>2. objs' = objs /\ opens' = opens /\ objectPath' = objectPath
    BY <1>4 DEF UseFile, monitorVars
  <2>3. \A n \in (Len(etw) + 1)..(Len(etw) + 2) :
          Says(etw'[n], "Io", r) \/ Says(etw'[n], "OperationEnd", r)
    BY <1>0, <2>1
  <2>4. \A q : \A n \in (Len(etw) + 1)..(Len(etw) + 2) : ~NameMove(etw'[n], q).does
    BY <2>3 DEF NameMove, Says
  <2>5. Len(etw) + 2 \in Len(etw)..(Len(etw) + 2)
    BY <1>0
  <2>6. ASSUME NEW n \in (Len(etw) + 1)..(Len(etw) + 2), ReliesOnName(etw'[n])
        PROVE  NameAfter(etw', objectPath, etw'[n].req.obj, n - 1, etw'[n].req.aliases)
    <3>1. etw'[n].req = r /\ r.obj = o /\ objs[o].aliases \subseteq r.aliases
          /\ objs[o].by \in Monitored
      BY <2>1, <2>3, <2>6 DEF Says, OfHandle, MayUse, ReliesOnName, FromJob
    <3>2. n - 1 \in Len(etw)..(Len(etw) + 2)
          /\ (Len(etw) + 1)..(n - 1) \subseteq (Len(etw) + 1)..(Len(etw) + 2)
      BY <1>0
    <3>3. NameAfter(etw', objectPath, o, n - 1, objs[o].aliases)
      BY <1>a, <2>1, <2>4, <3>1, <3>2
    <3> QED  BY <3>1, <3>3, NameWidens
  <2>7. \A q \in DOMAIN objs : objs[q].by \in Monitored =>
          NameAfter(etw', objectPath, q, Len(etw) + 2, objs[q].aliases)
    BY <1>a, <2>1, <2>4, <2>5
  <2>8. \A j \in DOMAIN opens : opens[j].by \in Monitored =>
          NameAfter(etw', objectPath, opens[j].obj, Len(etw) + 2, opens[j].aliases)
    BY <1>b, <2>1, <2>4, <2>5
  <2> QED  BY <2>1, <2>2, <2>6, <2>7, <2>8, GrownNamesAreTrue
<1>5. ASSUME NEW p \in Pids, NEW i \in Irps, NEW o \in Objects, NEW x \in Paths,
             NEW ok \in BOOLEAN, RenameFile(p, i, o, x, ok)
      PROVE  NamesAreTrue'
  <2> DEFINE e == etw'[Len(etw) + 3]
  <2>1. PICK r \in Requests :
           /\ o \in DOMAIN objs /\ MayUse(p, o) /\ i \notin DOMAIN opens
           /\ objs' = [objs EXCEPT ![o].path = IF ok THEN x ELSE @, ![o].aliases = @ \cup {x}]
           /\ OfHandle(r, "rename", p, i, o) /\ r.new = x /\ Grown(3)
           /\ r.aliases = objs[o].aliases \cup {x}
           /\ Says(etw'[Len(etw) + 1], "Rename", r)
           /\ Says(etw'[Len(etw) + 2], "RenamePath", r)
           /\ e.id = "OperationEnd" /\ e.pid = p /\ e.req = r
           /\ e.file = (r.path \notin dirs)
    BY <1>0, <1>5, RenameFileLogs
  <2>2. opens' = opens /\ objectPath' = objectPath
    BY <1>5 DEF RenameFile, monitorVars
  <2>3. r.kind = "rename" /\ r.by = p /\ r.obj = o
    BY <2>1 DEF OfHandle
  <2>4. \A n \in (Len(etw) + 1)..(Len(etw) + 3) :
          n = Len(etw) + 1 \/ n = Len(etw) + 2 \/ n = Len(etw) + 3
    BY <1>0
  <2>5. \A q : q # o => \A n \in (Len(etw) + 1)..(Len(etw) + 3) : ~NameMove(etw'[n], q).does
    BY <2>1, <2>3, <2>4 DEF NameMove, Says
  <2>6. ~NameMove(etw'[Len(etw) + 1], o).does /\ ~NameMove(e, o).does
    BY <2>1 DEF NameMove, Says
  <2>7. Len(etw) + 3 \in Len(etw)..(Len(etw) + 3)
    BY <1>0
  <2>8. ASSUME NEW n \in (Len(etw) + 1)..(Len(etw) + 3), ReliesOnName(etw'[n])
        PROVE  NameAfter(etw', objectPath, etw'[n].req.obj, n - 1, etw'[n].req.aliases)
    <3>1. n \in {Len(etw) + 1, Len(etw) + 2}
      BY <2>1, <2>3, <2>4, <2>8 DEF ReliesOnName
    <3>2. etw'[n].req = r /\ objs[o].aliases \subseteq r.aliases /\ objs[o].by \in Monitored
      BY <2>1, <2>3, <2>8, <3>1 DEF Says, MayUse, ReliesOnName, FromJob
    <3>3. n - 1 \in Len(etw)..(Len(etw) + 3)
          /\ \A k \in (Len(etw) + 1)..(n - 1) : k = Len(etw) + 1
      BY <1>0, <3>1
    <3>4. NameAfter(etw', objectPath, o, n - 1, objs[o].aliases)
      BY <1>a, <2>1, <2>6, <3>2, <3>3
    <3> QED  BY <2>3, <3>2, <3>4, NameWidens
  <2>9. ASSUME NEW q \in DOMAIN objs', objs'[q].by \in Monitored
        PROVE  NameAfter(etw', objectPath, q, Len(etw) + 3, objs'[q].aliases)
    <3>1. CASE q = o
      <4>1. objs[o] \in Handles
        BY <1>0, <2>1 DEF TypeOK, IsMap
      <4>2. objs'[o].by = objs[o].by /\ x \in objs'[o].aliases
        BY <2>1, <4>1 DEF Handles
      <4>3. NameMove(etw'[Len(etw) + 2], o).does /\ NameMove(etw'[Len(etw) + 2], o).to = {x}
        BY <2>1, <2>3, <2>9, <3>1, <4>2 DEF Says, NameMove, FromJob, MayUse
      <4>4. /\ Len(etw) + 3 \in Nat /\ Len(etw) + 2 \in 1..(Len(etw) + 3)
            /\ \A k \in (Len(etw) + 2 + 1)..(Len(etw) + 3) : k = Len(etw) + 3
        BY <1>0
      <4>5. 1..(Len(etw) + 3) \subseteq DOMAIN etw'
        BY <2>1, LenProperties DEF Grown
      <4> QED  BY <2>6, <3>1, <4>2, <4>3, <4>4, <4>5, NameMoved
    <3>2. CASE q # o
      <4>1. q \in DOMAIN objs /\ objs'[q] = objs[q]
        BY <2>1, <3>2
      <4> QED  BY <1>a, <2>1, <2>5, <2>7, <2>9, <3>2, <4>1
    <3> QED  BY <3>1, <3>2
  <2>10. ASSUME NEW j \in DOMAIN opens, opens[j].by \in Monitored
         PROVE  NameAfter(etw', objectPath, opens[j].obj, Len(etw) + 3, opens[j].aliases)
    <3>1. opens[j].obj # o
      BY <2>1 DEF StreamInv, KernelOK
    <3> QED  BY <1>b, <2>1, <2>5, <2>7, <2>10, <3>1
  <2> QED  BY <2>1, <2>2, <2>8, <2>9, <2>10, GrownNamesAreTrue
<1>6. ASSUME NEW p \in Pids, NEW i \in Irps, NEW o \in Objects, CloseFile(p, i, o)
      PROVE  NamesAreTrue'
  <2>1. PICK r \in Requests :
           /\ o \in DOMAIN objs /\ (MayUse(p, o) \/ p \notin Monitored)
           /\ i \notin DOMAIN opens /\ objs' = Drop(objs, o)
           /\ OfHandle(r, "close", p, i, o) /\ Grown(2)
           /\ Says(etw'[Len(etw) + 1], "Close", r)
           /\ Says(etw'[Len(etw) + 2], "OperationEnd", r)
    BY <1>0, <1>6, CloseFileLogs
  <2>2. opens' = opens /\ objectPath' = objectPath
    BY <1>6 DEF CloseFile, monitorVars
  <2>3. \A n \in (Len(etw) + 1)..(Len(etw) + 2) : n = Len(etw) + 1 \/ n = Len(etw) + 2
    BY <1>0
  <2>4. r.kind = "close" /\ r.by = p /\ r.obj = o
    BY <2>1 DEF OfHandle
  <2>5. \A q : q # o => \A n \in (Len(etw) + 1)..(Len(etw) + 2) : ~NameMove(etw'[n], q).does
    BY <2>1, <2>3, <2>4 DEF NameMove, Says
  <2>6. /\ Len(etw) + 2 \in Len(etw)..(Len(etw) + 2) /\ Len(etw) \in Len(etw)..(Len(etw) + 2)
        /\ (Len(etw) + 1)..Len(etw) = {} /\ Len(etw) + 1 - 1 = Len(etw)
    BY <1>0
  <2>7. ASSUME NEW n \in (Len(etw) + 1)..(Len(etw) + 2), ReliesOnName(etw'[n])
        PROVE  NameAfter(etw', objectPath, etw'[n].req.obj, n - 1, etw'[n].req.aliases)
    <3>1. n = Len(etw) + 1
      BY <2>1, <2>3, <2>4, <2>7 DEF ReliesOnName, Says
    <3>2. etw'[n].req = r /\ objs[o].aliases \subseteq r.aliases /\ objs[o].by \in Monitored
      BY <2>1, <2>4, <2>7, <3>1 DEF Says, MayUse, ReliesOnName, FromJob, OfHandle
    <3>3. NameAfter(etw', objectPath, o, Len(etw), objs[o].aliases)
      BY <1>a, <2>1, <2>6, <3>2
    <3> QED  BY <2>4, <2>6, <3>1, <3>2, <3>3, NameWidens
  <2>8. ASSUME NEW q \in DOMAIN objs', objs'[q].by \in Monitored
        PROVE  NameAfter(etw', objectPath, q, Len(etw) + 2, objs'[q].aliases)
    <3>1. q \in DOMAIN objs /\ objs'[q] = objs[q] /\ q # o
      BY <2>1 DEF Drop, Restrict
    <3> QED  BY <1>a, <2>1, <2>5, <2>6, <2>8, <3>1
  <2>9. ASSUME NEW j \in DOMAIN opens, opens[j].by \in Monitored
        PROVE  NameAfter(etw', objectPath, opens[j].obj, Len(etw) + 2, opens[j].aliases)
    <3>1. opens[j].obj # o
      BY <2>1 DEF StreamInv, KernelOK
    <3> QED  BY <1>b, <2>1, <2>5, <2>6, <2>9, <3>1
  <2> QED  BY <2>1, <2>2, <2>7, <2>8, <2>9, GrownNamesAreTrue
<1>7. ASSUME NEW p \in Pids, NEW k \in Keys, ForgetName(p, k) PROVE NamesAreTrue'
  <2>1. PICK r \in Requests :
           /\ r.kind = "name" /\ r.by = p /\ r.key = k /\ r.path \in r.aliases
           /\ names' = Drop(names, k)
           /\ Grown(1) /\ Says(etw'[Len(etw) + 1], "NameDelete", r)
    BY <1>0, <1>7, ForgetNameLogs
  <2>2. objs' = objs /\ opens' = opens /\ objectPath' = objectPath
    BY <1>7 DEF ForgetName, monitorVars
  <2>3. \A n \in (Len(etw) + 1)..(Len(etw) + 1) : Says(etw'[n], "NameDelete", r)
    BY <1>0, <2>1
  <2>4. \A n \in (Len(etw) + 1)..(Len(etw) + 1) :
          ~ReliesOnName(etw'[n]) /\ \A q : ~NameMove(etw'[n], q).does
    BY <2>3 DEF Says, ReliesOnName, NameMove
  <2>5. Len(etw) + 1 \in Len(etw)..(Len(etw) + 1)
    BY <1>0
  <2>6. \A q \in DOMAIN objs : objs[q].by \in Monitored =>
          NameAfter(etw', objectPath, q, Len(etw) + 1, objs[q].aliases)
    BY <1>a, <2>1, <2>4, <2>5
  <2>7. \A j \in DOMAIN opens : opens[j].by \in Monitored =>
          NameAfter(etw', objectPath, opens[j].obj, Len(etw) + 1, opens[j].aliases)
    BY <1>b, <2>1, <2>4, <2>5
  <2> QED  BY <2>1, <2>2, <2>4, <2>6, <2>7, GrownNamesAreTrue
<1>8. ASSUME NEW x \in Paths, ChangeDirectory(x) PROVE NamesAreTrue'
  BY <1>8 DEF ChangeDirectory, monitorVars, NamesAreTrue
<1>9. ASSUME NEW l \in 1..Len(etw), LoseEvent(l) PROVE NamesAreTrue'
  <2>1. /\ etw' = Without(etw, l) /\ ~Correlates(etw[l]) /\ objectPath' = objectPath
        /\ objs' = objs /\ opens' = opens
    BY <1>9 DEF LoseEvent, Without, monitorVars
  <2>2. /\ Len(etw') = Len(etw) - 1 /\ DOMAIN etw' = 1..(Len(etw) - 1)
        /\ \A k \in 1..(Len(etw) - 1) : etw'[k] = IF k < l THEN etw[k] ELSE etw[k + 1]
    BY <1>0, <2>1, WithoutIsShorter, LenProperties
  <2>3. ASSUME NEW n \in DOMAIN etw', ReliesOnName(etw'[n])
        PROVE  NameAfter(etw', objectPath, etw'[n].req.obj, n - 1, etw'[n].req.aliases)
    <3> DEFINE m == IF n < l THEN n ELSE n + 1
    <3>1. /\ m \in DOMAIN etw /\ etw'[n] = etw[m] /\ m - 1 \in 0..Len(etw)
          /\ n - 1 = IF l <= m - 1 THEN (m - 1) - 1 ELSE m - 1
      BY <1>0, <2>2
    <3>2. NameAfter(etw, objectPath, etw[m].req.obj, m - 1, etw[m].req.aliases)
      BY <2>3, <3>1 DEF NamesAreTrue
    <3> HIDE DEF m
    <3> QED  BY <2>1, <3>1, <3>2, ThinnedName
  <2>4. /\ Len(etw) \in 0..Len(etw) /\ l <= Len(etw)
    BY <1>0
  <2>5. \A o \in DOMAIN objs : objs[o].by \in Monitored =>
          NameAfter(etw', objectPath, o, Len(etw) - 1, objs[o].aliases)
    BY <2>1, <2>4, ThinnedName DEF NamesAreTrue
  <2>6. \A i \in DOMAIN opens : opens[i].by \in Monitored =>
          NameAfter(etw', objectPath, opens[i].obj, Len(etw) - 1, opens[i].aliases)
    BY <2>1, <2>4, ThinnedName DEF NamesAreTrue
  <2> QED  BY <2>1, <2>2, <2>3, <2>5, <2>6 DEF NamesAreTrue
<1> QED  BY <1>1, <1>2, <1>3, <1>4, <1>5, <1>6, <1>7, <1>8, <1>9 DEF Kernel

\* A delivery: what holds after n events of the stream holds one event earlier now.
LEMMA DeliveredName ==
  ASSUME StreamInv, NamesAreTrue, CompletionsMatch, Callback, NEW o, NEW S,
         NEW n \in 1..Len(etw), NameAfter(etw, objectPath, o, n, S)
  PROVE  NameAfter(etw', objectPath', o, n - 1, S)
<1>1. Delivery /\ etw \in Seq(Events)
  BY CallbackDelivers DEF StreamInv, TypeOK
<1>2. Held(objectPath', o) = IF NameMove(Head(etw), o).does THEN NameMove(Head(etw), o).to
                                                            ELSE Held(objectPath, o)
  BY CallbackNames
<1>3. NameAfter(Tail(etw), objectPath', o, n - 1, S)
  BY <1>1, <1>2, NameDelivered DEF Delivery
<1> QED  BY <1>1, <1>3 DEF Delivery

LEMMA CallbackNamesAreTrue ==
  ASSUME StreamInv, NamesAreTrue, CompletionsMatch, Callback
  PROVE  NamesAreTrue'
<1>1. Delivery /\ Len(etw) \in Nat /\ DOMAIN etw = 1..Len(etw)
  BY CallbackDelivers, StreamLength DEF StreamInv
<1>2. Len(etw) \in 1..Len(etw) /\ Len(etw') = Len(etw) - 1 /\ DOMAIN etw' = 1..(Len(etw) - 1)
  BY <1>1 DEF Delivery
<1>3. ASSUME NEW n \in DOMAIN etw', ReliesOnName(etw'[n])
      PROVE  NameAfter(etw', objectPath', etw'[n].req.obj, n - 1, etw'[n].req.aliases)
  <2>1. n \in 1..Len(etw) /\ etw'[n] = etw[n + 1] /\ n + 1 \in DOMAIN etw
    BY <1>1, <1>2 DEF Delivery
  <2>2. NameAfter(etw, objectPath, etw[n + 1].req.obj, (n + 1) - 1, etw[n + 1].req.aliases)
    BY <1>3, <2>1 DEF NamesAreTrue
  <2>3. (n + 1) - 1 = n
    BY <1>2
  <2>4. NameAfter(etw, objectPath, etw'[n].req.obj, n, etw'[n].req.aliases)
    BY <2>1, <2>2, <2>3
  <2> QED  BY <2>1, <2>4, DeliveredName
<1>4. \A o \in DOMAIN objs : objs[o].by \in Monitored =>
        NameAfter(etw', objectPath', o, Len(etw) - 1, objs[o].aliases)
  BY <1>2, DeliveredName DEF NamesAreTrue
<1>5. \A i \in DOMAIN opens : opens[i].by \in Monitored =>
        NameAfter(etw', objectPath', opens[i].obj, Len(etw) - 1, opens[i].aliases)
  BY <1>2, DeliveredName DEF NamesAreTrue
<1>6. objs' = objs /\ opens' = opens
  BY <1>1 DEF Delivery, kernelVars
<1> QED  BY <1>2, <1>3, <1>4, <1>5, <1>6 DEF NamesAreTrue

------------------------------------------------------------------------------
(* Completions meet the creates they complete.                             *)

\* What the table is going to hold for an IRP once the stream has been delivered.
Carried(i) == IF i \in DOMAIN opens THEN Capture(opens[i]) ELSE {}

LEMMA GrownPending ==
  ASSUME TypeOK, NEW l \in Nat, Grown(l), NEW t, NEW i, NEW h,
         NEW n \in Nat, NEW m \in Nat, n <= Len(etw), n <= m, m <= Len(etw) + l,
         PendingAfter(etw, t, i, n, h),
         \A k \in (n + 1)..m : ~PendingMove(etw'[k], i).does
  PROVE  PendingAfter(etw', t, i, m, h)
<1>1. Len(etw) \in Nat /\ DOMAIN etw = 1..Len(etw)
  BY StreamLength
<1>2. DOMAIN etw' = 1..(Len(etw) + l) /\ \A k \in 1..Len(etw) : etw'[k] = etw[k]
  BY LenProperties DEF Grown
<1>3. 1..n \subseteq DOMAIN etw
  BY <1>1
<1>4. 1..m \subseteq DOMAIN etw'
  BY <1>1, <1>2
<1>5. \A k \in 1..n : etw'[k] = etw[k]
  BY <1>1, <1>2
<1> QED  BY <1>3, <1>4, <1>5, PendingKept

LEMMA ThinnedPending ==
  ASSUME TypeOK, NEW l \in 1..Len(etw), ~Correlates(etw[l]), NEW t, NEW i, NEW h,
         NEW n \in 0..Len(etw), PendingAfter(etw, t, i, n, h)
  PROVE  PendingAfter(Without(etw, l), t, i, IF l <= n THEN n - 1 ELSE n, h)
<1>1. Len(etw) \in Nat /\ DOMAIN etw = 1..Len(etw) /\ etw \in Seq(Events)
  BY StreamLength DEF TypeOK
<1>2. CASE l <= n
  <2>1. n \in l..Len(etw)
    BY <1>1, <1>2
  <2>2. PendingAfter(Without(etw, l), t, i, n - 1, h)
    BY <1>1, <2>1, PendingThinned
  <2> QED  BY <1>2, <2>2
<1>3. CASE ~(l <= n)
  <2>1. DOMAIN Without(etw, l) = 1..(Len(etw) - 1)
    BY <1>1, WithoutIsShorter, LenProperties
  <2>2. \A k \in 1..n : Without(etw, l)[k] = etw[k]
    <3>1. \A k \in 1..(Len(etw) - 1) :
            Without(etw, l)[k] = IF k < l THEN etw[k] ELSE etw[k + 1]
      BY <1>1, WithoutIsShorter
    <3>2. \A k \in 1..n : k \in 1..(Len(etw) - 1) /\ k < l
      BY <1>1, <1>3
    <3> QED  BY <3>1, <3>2
  <2>3. /\ n \in Nat /\ n <= n /\ 1..n \subseteq DOMAIN etw
        /\ 1..n \subseteq DOMAIN Without(etw, l) /\ (n + 1)..n = {}
    BY <1>1, <1>3, <2>1
  <2>4. PendingAfter(Without(etw, l), t, i, n, h)
    BY <2>2, <2>3, PendingKept
  <2> QED  BY <1>3, <2>4
<1> QED  BY <1>2, <1>3

LEMMA GrownCompletionsMatch ==
  ASSUME StreamInv, NEW l \in Nat, Grown(l), CompletionsMatch, pending' = pending,
         \A n \in (Len(etw) + 1)..(Len(etw) + l) : etw'[n].id = "OperationEnd" =>
           PendingAfter(etw', pending, etw'[n].req.irp, n - 1, Capture(etw'[n].req)),
         \A i \in Irps : PendingAfter(etw', pending, i, Len(etw) + l, Carried(i)')
  PROVE  CompletionsMatch'
<1>1. Len(etw) \in Nat /\ DOMAIN etw = 1..Len(etw) /\ TypeOK
  BY StreamLength DEF StreamInv
<1>2. DOMAIN etw' = 1..(Len(etw) + l) /\ Len(etw') = Len(etw) + l
  BY LenProperties DEF Grown
<1>3. ASSUME NEW n \in DOMAIN etw', etw'[n].id = "OperationEnd"
      PROVE  PendingAfter(etw', pending, etw'[n].req.irp, n - 1, Capture(etw'[n].req))
  <2>1. CASE n \in 1..Len(etw)
    <3>1. etw'[n] = etw[n]
      BY <2>1 DEF Grown
    <3>2. PendingAfter(etw, pending, etw[n].req.irp, n - 1, Capture(etw[n].req))
      BY <1>1, <1>3, <2>1, <3>1 DEF CompletionsMatch
    <3>3. /\ n - 1 \in Nat /\ n - 1 <= Len(etw) /\ n - 1 <= n - 1 /\ n - 1 <= Len(etw) + l
          /\ ((n - 1) + 1)..(n - 1) = {}
      BY <1>1, <2>1
    <3> QED  BY <1>1, <3>1, <3>2, <3>3, GrownPending
  <2>2. CASE n \in (Len(etw) + 1)..(Len(etw) + l)
    BY <1>3, <2>2
  <2> QED  BY <1>1, <1>2, <2>1, <2>2
<1> QED  BY <1>2, <1>3 DEF CompletionsMatch, Carried

\* Events that neither begin nor complete a create touch no IRP of one.
LEMMA OtherEventsMatch ==
  ASSUME StreamInv, NEW l \in Nat, Grown(l), CompletionsMatch,
         pending' = pending, opens' = opens,
         \A n \in (Len(etw) + 1)..(Len(etw) + l) :
           /\ etw'[n].req.kind # "open"
           /\ etw'[n].id = "OperationEnd" => etw'[n].req.irp \in Irps \ DOMAIN opens
  PROVE  CompletionsMatch'
<1>1. Len(etw) \in Nat /\ TypeOK
  BY StreamLength DEF StreamInv
<1>2. \A n \in (Len(etw) + 1)..(Len(etw) + l) :
        ~TrackedOpen(etw'[n].req) /\ Capture(etw'[n].req) = {}
  BY DEF TrackedOpen, Capture
<1>3. \A n \in (Len(etw) + 1)..(Len(etw) + l) : \A i : ~PendingMove(etw'[n], i).does
  BY <1>2 DEF PendingMove
<1>4. ASSUME NEW i \in Irps, NEW m \in Len(etw)..(Len(etw) + l)
      PROVE  PendingAfter(etw', pending, i, m, Carried(i))
  <2>1. PendingAfter(etw, pending, i, Len(etw), Carried(i))
    BY DEF CompletionsMatch, Carried
  <2>2. m \in Nat /\ Len(etw) <= m /\ m <= Len(etw) + l
        /\ (Len(etw) + 1)..m \subseteq (Len(etw) + 1)..(Len(etw) + l)
    BY <1>1
  <2> QED  BY <1>1, <1>3, <2>1, <2>2, GrownPending
<1>5. ASSUME NEW n \in (Len(etw) + 1)..(Len(etw) + l), etw'[n].id = "OperationEnd"
      PROVE  PendingAfter(etw', pending, etw'[n].req.irp, n - 1, Capture(etw'[n].req))
  <2>1. n - 1 \in Len(etw)..(Len(etw) + l)
    BY <1>1
  <2>2. Carried(etw'[n].req.irp) = Capture(etw'[n].req)
    BY <1>2, <1>5 DEF Carried
  <2> QED  BY <1>4, <1>5, <2>1, <2>2
<1>6. Len(etw) + l \in Len(etw)..(Len(etw) + l)
  BY <1>1
<1>7. \A i \in Irps : Carried(i)' = Carried(i)
  BY DEF Carried
<1> QED  BY <1>4, <1>5, <1>6, <1>7, GrownCompletionsMatch

\* The events of a create that ends: the last one completes it.
LEMMA CompletionMatches ==
  ASSUME StreamInv, NEW l \in 1..3, Grown(l), CompletionsMatch, pending' = pending,
         NEW i \in Irps, i \in DOMAIN opens, opens' = Drop(opens, i),
         NEW r, r.irp = i, Capture(r) = Capture(opens[i]),
         etw'[Len(etw) + l].id = "OperationEnd", etw'[Len(etw) + l].req = r,
         \A n \in (Len(etw) + 1)..(Len(etw) + l - 1) :
           etw'[n].id \notin {"Create", "OperationEnd"}
  PROVE  CompletionsMatch'
<1>1. Len(etw) \in Nat /\ TypeOK
  BY StreamLength DEF StreamInv
<1> DEFINE last == Len(etw) + l
<1>2. /\ last \in Nat /\ last - 1 \in Nat /\ Len(etw) <= last - 1 /\ Len(etw) <= last
      /\ last - 1 <= Len(etw) + l /\ last <= Len(etw) + l
      /\ last \in 1..last /\ (last + 1)..last = {}
  BY <1>1
<1>3. \A n \in (Len(etw) + 1)..(last - 1) : \A j : ~PendingMove(etw'[n], j).does
  <2>1. \A n \in (Len(etw) + 1)..(last - 1) : etw'[n].id \notin {"Create", "OperationEnd"}
    OBVIOUS
  <2> QED  BY <2>1 DEF PendingMove
<1>4. \A n \in (Len(etw) + 1)..last : n = last \/ n \in (Len(etw) + 1)..(last - 1)
  BY <1>1
<1>5. \A j \in Irps : PendingAfter(etw, pending, j, Len(etw), Carried(j))
  BY DEF CompletionsMatch, Carried
<1>6. PendingAfter(etw', pending, i, last - 1, Capture(r))
  <2>1. Carried(i) = Capture(r)
    BY DEF Carried
  <2>2. PendingAfter(etw, pending, i, Len(etw), Capture(r))
    BY <1>5, <2>1
  <2>3. \A k \in (Len(etw) + 1)..(last - 1) : ~PendingMove(etw'[k], i).does
    BY <1>3
  <2>4. Len(etw) \in Nat /\ Len(etw) <= Len(etw) /\ l \in Nat
    BY <1>1
  <2> QED  BY <1>1, <1>2, <2>2, <2>3, <2>4, GrownPending
<1>7. \A n \in (Len(etw) + 1)..last : etw'[n].id = "OperationEnd" =>
        PendingAfter(etw', pending, etw'[n].req.irp, n - 1, Capture(etw'[n].req))
  BY <1>4, <1>6
<1>8. ASSUME NEW j \in Irps PROVE PendingAfter(etw', pending, j, last, Carried(j)')
  <2>1. CASE PendingMove(etw'[last], j).does
    <3>1. j = i
      BY <2>1 DEF PendingMove
    <3>2. PendingMove(etw'[last], j).to = {} /\ Carried(j)' = {}
      BY <3>1 DEF PendingMove, Carried, Drop, Restrict
    <3>3. 1..last \subseteq DOMAIN etw'
      BY <1>1, LenProperties DEF Grown
    <3>4. \A k \in (last + 1)..last : ~PendingMove(etw'[k], j).does
      BY <1>2
    <3> HIDE DEF last
    <3>5. PendingAfter(etw', pending, j, last, PendingMove(etw'[last], j).to)
      BY <1>2, <2>1, <3>3, <3>4, PendingMoved
    <3> QED  BY <3>2, <3>5
  <2>2. CASE ~PendingMove(etw'[last], j).does
    <3>1. Carried(j)' = Carried(j)
      <4>1. CASE j = i
        <5>1. ~TrackedOpen(r)
          BY <2>2, <4>1 DEF PendingMove
        <5>2. Capture(opens[i]) = {}
          BY <5>1 DEF Capture
        <5> QED  BY <4>1, <5>2 DEF Carried, Drop, Restrict
      <4>2. CASE j # i
        BY <4>2 DEF Carried, Drop, Restrict
      <4> QED  BY <4>1, <4>2
    <3>2. \A k \in (Len(etw) + 1)..last : ~PendingMove(etw'[k], j).does
      BY <1>3, <1>4, <2>2
    <3> QED  BY <1>1, <1>2, <1>5, <3>1, <3>2, GrownPending
  <2> QED  BY <2>1, <2>2
<1> QED  BY <1>7, <1>8, GrownCompletionsMatch

LEMMA KernelCompletions ==
  ASSUME StreamInv, CompletionsMatch, Kernel, intact'
  PROVE  CompletionsMatch'
<1>0. Len(etw) \in Nat /\ DOMAIN etw = 1..Len(etw) /\ etw \in Seq(Events) /\ TypeOK
  BY StreamLength DEF StreamInv, TypeOK
<1>1. ASSUME NEW p \in Pids, NEW i \in Irps, NEW o \in Objects, NEW x \in Paths,
             NEW d \in BOOLEAN, StartOpen(p, i, o, x, d)
      PROVE  CompletionsMatch'
  <2>1. PICK r \in Requests :
           /\ r.kind = "open" /\ r.by = p /\ r.irp = i /\ r.obj = o /\ r.path = x
           /\ r.dir = d /\ r.aliases = {x} /\ i \notin DOMAIN opens /\ o \notin BusyObjects
           /\ opens' = Put(opens, i, r)
           /\ Grown(1) /\ Says(etw'[Len(etw) + 1], "Create", r)
    BY <1>0, <1>1, StartOpenLogs
  <2>2. pending' = pending
    BY <1>1 DEF StartOpen, monitorVars
  <2> DEFINE last == Len(etw) + 1
  <2>3. /\ last \in Nat /\ Len(etw) <= last /\ last <= last /\ last \in 1..last
        /\ \A n \in (Len(etw) + 1)..last : n = last
        /\ (last + 1)..last = {}
    BY <1>0
  <2>4. etw'[last].id = "Create" /\ etw'[last].req = r
    BY <2>1 DEF Says
  <2>5. ASSUME NEW j \in Irps PROVE PendingAfter(etw', pending, j, last, Carried(j)')
    <3>1. CASE PendingMove(etw'[last], j).does
      <4>1. j = i
        BY <2>1, <2>4, <3>1 DEF PendingMove
      <4>2. PendingMove(etw'[last], j).to = Capture(r) /\ Carried(j)' = Capture(r)
        BY <2>1, <2>4, <4>1 DEF PendingMove, Carried, Put
      <4>3. 1..last \subseteq DOMAIN etw'
        BY <1>0, <2>1, LenProperties DEF Grown
      <4>4. \A k \in (last + 1)..last : ~PendingMove(etw'[k], j).does
        BY <2>3
      <4> HIDE DEF last
      <4>5. PendingAfter(etw', pending, j, last, PendingMove(etw'[last], j).to)
        BY <2>3, <3>1, <4>3, <4>4, PendingMoved
      <4> QED  BY <4>2, <4>5
    <3>2. CASE ~PendingMove(etw'[last], j).does
      <4>1. Carried(j)' = Carried(j)
        <5>1. CASE j = i
          <6>1. ~TrackedOpen(r)
            BY <2>1, <2>4, <3>2, <5>1 DEF PendingMove
          <6>2. Capture(r) = {}
            BY <6>1 DEF Capture
          <6> QED  BY <2>1, <5>1, <6>2 DEF Carried, Put
        <5>2. CASE j # i
          BY <2>1, <5>2 DEF Carried, Put
        <5> QED  BY <5>1, <5>2
      <4>2. PendingAfter(etw, pending, j, Len(etw), Carried(j))
        BY DEF CompletionsMatch, Carried
      <4>3. \A k \in (Len(etw) + 1)..last : ~PendingMove(etw'[k], j).does
        BY <2>3, <3>2
      <4> QED  BY <1>0, <2>1, <2>3, <4>1, <4>2, <4>3, GrownPending
    <3> QED  BY <3>1, <3>2
  <2>6. \A n \in (Len(etw) + 1)..last : etw'[n].id # "OperationEnd"
    BY <2>3, <2>4
  <2> QED  BY <2>1, <2>2, <2>5, <2>6, GrownCompletionsMatch
<1>2. ASSUME NEW i \in Irps, FailOpen(i) PROVE CompletionsMatch'
  <2>1. /\ i \in DOMAIN opens /\ opens' = Drop(opens, i) /\ Grown(1)
        /\ etw'[Len(etw) + 1].id = "OperationEnd" /\ etw'[Len(etw) + 1].req = opens[i]
    BY <1>0, <1>2, FailOpenLogs
  <2>2. pending' = pending
    BY <1>2 DEF FailOpen, monitorVars
  <2>3. opens[i].irp = i
    BY <2>1 DEF StreamInv, KernelOK
  <2>4. (Len(etw) + 1)..(Len(etw) + 1 - 1) = {}
    BY <1>0
  <2> QED  BY <2>1, <2>2, <2>3, <2>4, CompletionMatches
<1>3. ASSUME NEW i \in Irps, NEW k \in Keys, NEW new \in BOOLEAN, CompleteOpen(i, k, new)
      PROVE  CompletionsMatch'
  <2>1. PICK r \in Requests, l \in 1..3 :
           /\ i \in DOMAIN opens /\ opens' = Drop(opens, i)
           /\ objs' = Put(objs, opens[i].obj, [by |-> opens[i].by, path |-> opens[i].path,
                                               key |-> k, aliases |-> {opens[i].path}])
           /\ names' = Put(names, k, opens[i].path)
           /\ r.kind = opens[i].kind /\ r.by = opens[i].by /\ r.irp = opens[i].irp
           /\ r.obj = opens[i].obj /\ r.path = opens[i].path /\ r.dir = opens[i].dir
           /\ r.aliases = opens[i].aliases /\ r.key = k
           /\ Grown(l) /\ Says(etw'[Len(etw) + l], "OperationEnd", r)
           /\ \A n \in (Len(etw) + 1)..(Len(etw) + l - 1) :
                \/ Says(etw'[n], "NameCreate", r)
                \/ Says(etw'[n], "CreateNewFile", r)
    BY <1>0, <1>3, CompleteOpenLogs
  <2>2. pending' = pending
    BY <1>3 DEF CompleteOpen, monitorVars
  <2>3. r.irp = i
    BY <2>1 DEF StreamInv, KernelOK
  <2>4. Capture(r) = Capture(opens[i])
    BY <2>1 DEF Capture, TrackedOpen, IsTracked
  <2>5. etw'[Len(etw) + l].id = "OperationEnd" /\ etw'[Len(etw) + l].req = r
    BY <2>1 DEF Says
  <2>6. \A n \in (Len(etw) + 1)..(Len(etw) + l - 1) :
          etw'[n].id \notin {"Create", "OperationEnd"}
    BY <2>1 DEF Says
  <2> QED  BY <2>1, <2>2, <2>3, <2>4, <2>5, <2>6, CompletionMatches
<1>4. ASSUME NEW p \in Pids, NEW i \in Irps, NEW o \in Objects, UseFile(p, i, o)
      PROVE  CompletionsMatch'
  <2>1. PICK r \in Requests :
           /\ o \in DOMAIN objs /\ MayUse(p, o) /\ i \notin DOMAIN opens
           /\ OfHandle(r, "io", p, i, o) /\ Grown(2)
           /\ Says(etw'[Len(etw) + 1], "Io", r)
           /\ Says(etw'[Len(etw) + 2], "OperationEnd", r)
    BY <1>0, <1>4, UseFileLogs
  <2>2. pending' = pending /\ opens' = opens
    BY <1>4 DEF UseFile, monitorVars
  <2>3. \A n \in (Len(etw) + 1)..(Len(etw) + 2) : etw'[n].req = r
    BY <1>0, <2>1 DEF Says
  <2>4. r.kind # "open" /\ r.irp = i
    BY <2>1 DEF OfHandle
  <2> QED  BY <2>1, <2>2, <2>3, <2>4, OtherEventsMatch
<1>5. ASSUME NEW p \in Pids, NEW i \in Irps, NEW o \in Objects, NEW x \in Paths,
             NEW ok \in BOOLEAN, RenameFile(p, i, o, x, ok)
      PROVE  CompletionsMatch'
  <2> DEFINE e == etw'[Len(etw) + 3]
  <2>1. PICK r \in Requests :
           /\ o \in DOMAIN objs /\ MayUse(p, o) /\ i \notin DOMAIN opens
           /\ objs' = [objs EXCEPT ![o].path = IF ok THEN x ELSE @, ![o].aliases = @ \cup {x}]
           /\ OfHandle(r, "rename", p, i, o) /\ r.new = x /\ Grown(3)
           /\ r.aliases = objs[o].aliases \cup {x}
           /\ Says(etw'[Len(etw) + 1], "Rename", r)
           /\ Says(etw'[Len(etw) + 2], "RenamePath", r)
           /\ e.id = "OperationEnd" /\ e.pid = p /\ e.req = r
           /\ e.file = (r.path \notin dirs)
    BY <1>0, <1>5, RenameFileLogs
  <2>2. pending' = pending /\ opens' = opens
    BY <1>5 DEF RenameFile, monitorVars
  <2>3. \A n \in (Len(etw) + 1)..(Len(etw) + 3) :
          n = Len(etw) + 1 \/ n = Len(etw) + 2 \/ n = Len(etw) + 3
    BY <1>0
  <2>4. \A n \in (Len(etw) + 1)..(Len(etw) + 3) : etw'[n].req = r
    BY <2>1, <2>3 DEF Says
  <2>5. r.kind # "open" /\ r.irp = i
    BY <2>1 DEF OfHandle
  <2> QED  BY <2>1, <2>2, <2>4, <2>5, OtherEventsMatch
<1>6. ASSUME NEW p \in Pids, NEW i \in Irps, NEW o \in Objects, CloseFile(p, i, o)
      PROVE  CompletionsMatch'
  <2>1. PICK r \in Requests :
           /\ o \in DOMAIN objs /\ (MayUse(p, o) \/ p \notin Monitored)
           /\ i \notin DOMAIN opens /\ objs' = Drop(objs, o)
           /\ OfHandle(r, "close", p, i, o) /\ Grown(2)
           /\ Says(etw'[Len(etw) + 1], "Close", r)
           /\ Says(etw'[Len(etw) + 2], "OperationEnd", r)
    BY <1>0, <1>6, CloseFileLogs
  <2>2. pending' = pending /\ opens' = opens
    BY <1>6 DEF CloseFile, monitorVars
  <2>3. \A n \in (Len(etw) + 1)..(Len(etw) + 2) : etw'[n].req = r
    BY <1>0, <2>1 DEF Says
  <2>4. r.kind # "open" /\ r.irp = i
    BY <2>1 DEF OfHandle
  <2> QED  BY <2>1, <2>2, <2>3, <2>4, OtherEventsMatch
<1>7. ASSUME NEW p \in Pids, NEW k \in Keys, ForgetName(p, k) PROVE CompletionsMatch'
  <2>1. PICK r \in Requests :
           /\ r.kind = "name" /\ r.by = p /\ r.key = k /\ r.path \in r.aliases
           /\ names' = Drop(names, k)
           /\ Grown(1) /\ Says(etw'[Len(etw) + 1], "NameDelete", r)
    BY <1>0, <1>7, ForgetNameLogs
  <2>2. pending' = pending /\ opens' = opens
    BY <1>7 DEF ForgetName, monitorVars
  <2>3. \A n \in (Len(etw) + 1)..(Len(etw) + 1) :
          etw'[n].req.kind # "open" /\ etw'[n].id # "OperationEnd"
    BY <1>0, <2>1 DEF Says
  <2> QED  BY <2>1, <2>2, <2>3, OtherEventsMatch
<1>8. ASSUME NEW x \in Paths, ChangeDirectory(x) PROVE CompletionsMatch'
  BY <1>8 DEF ChangeDirectory, monitorVars, CompletionsMatch
<1>9. ASSUME NEW l \in 1..Len(etw), LoseEvent(l) PROVE CompletionsMatch'
  <2>1. /\ etw' = Without(etw, l) /\ ~Correlates(etw[l]) /\ pending' = pending
        /\ opens' = opens
    BY <1>9 DEF LoseEvent, Without, monitorVars
  <2>2. /\ Len(etw') = Len(etw) - 1 /\ DOMAIN etw' = 1..(Len(etw) - 1)
        /\ \A k \in 1..(Len(etw) - 1) : etw'[k] = IF k < l THEN etw[k] ELSE etw[k + 1]
    BY <1>0, <2>1, WithoutIsShorter, LenProperties
  <2>3. ASSUME NEW n \in DOMAIN etw', etw'[n].id = "OperationEnd"
        PROVE  PendingAfter(etw', pending, etw'[n].req.irp, n - 1, Capture(etw'[n].req))
    <3> DEFINE m == IF n < l THEN n ELSE n + 1
    <3>1. /\ m \in DOMAIN etw /\ etw'[n] = etw[m] /\ m - 1 \in 0..Len(etw)
          /\ n - 1 = IF l <= m - 1 THEN (m - 1) - 1 ELSE m - 1
      BY <1>0, <2>2
    <3>2. PendingAfter(etw, pending, etw[m].req.irp, m - 1, Capture(etw[m].req))
      BY <2>3, <3>1 DEF CompletionsMatch
    <3> HIDE DEF m
    <3> QED  BY <1>0, <2>1, <3>1, <3>2, ThinnedPending
  <2>4. Len(etw) \in 0..Len(etw) /\ l <= Len(etw)
    BY <1>0
  <2>5. \A i \in Irps : PendingAfter(etw', pending, i, Len(etw) - 1, Carried(i))
    BY <1>0, <2>1, <2>4, ThinnedPending DEF CompletionsMatch, Carried
  <2> QED  BY <2>1, <2>2, <2>3, <2>5 DEF CompletionsMatch, Carried
<1> QED  BY <1>1, <1>2, <1>3, <1>4, <1>5, <1>6, <1>7, <1>8, <1>9 DEF Kernel

LEMMA CallbackCompletions ==
  ASSUME StreamInv, CompletionsMatch, Callback
  PROVE  CompletionsMatch'
<1>1. Delivery /\ Len(etw) \in Nat /\ DOMAIN etw = 1..Len(etw) /\ etw \in Seq(Events)
  BY CallbackDelivers, StreamLength DEF StreamInv, TypeOK
<1>2. Len(etw) \in 1..Len(etw) /\ Len(etw') = Len(etw) - 1 /\ DOMAIN etw' = 1..(Len(etw) - 1)
      /\ etw' = Tail(etw) /\ etw # <<>> /\ opens' = opens
  BY <1>1 DEF Delivery, kernelVars
<1>3. ASSUME NEW i, NEW h, NEW n \in 1..Len(etw), PendingAfter(etw, pending, i, n, h)
      PROVE  PendingAfter(etw', pending', i, n - 1, h)
  <2>1. Held(pending', i) = IF PendingMove(Head(etw), i).does THEN PendingMove(Head(etw), i).to
                                                              ELSE Held(pending, i)
    BY CallbackPending
  <2> QED  BY <1>1, <1>2, <1>3, <2>1, PendingDelivered
<1>4. ASSUME NEW n \in DOMAIN etw', etw'[n].id = "OperationEnd"
      PROVE  PendingAfter(etw', pending', etw'[n].req.irp, n - 1, Capture(etw'[n].req))
  <2>1. n \in 1..Len(etw) /\ etw'[n] = etw[n + 1] /\ n + 1 \in DOMAIN etw
    BY <1>1, <1>2 DEF Delivery
  <2>2. PendingAfter(etw, pending, etw[n + 1].req.irp, (n + 1) - 1, Capture(etw[n + 1].req))
    BY <1>4, <2>1 DEF CompletionsMatch
  <2>3. (n + 1) - 1 = n
    BY <1>2
  <2> QED  BY <1>3, <2>1, <2>2, <2>3
<1>5. \A i \in Irps : PendingAfter(etw', pending', i, Len(etw) - 1, Carried(i))
  BY <1>2, <1>3 DEF CompletionsMatch, Carried
<1> QED  BY <1>2, <1>4, <1>5 DEF CompletionsMatch, Carried

------------------------------------------------------------------------------
(* Names that are not the present ones are protected as the present ones.  *)

LEMMA GrownAlike ==
  ASSUME TypeOK, NEW l \in Nat, Grown(l), NEW t, NEW a, NEW o, NEW path,
         NEW n \in Nat, NEW m \in Nat, n <= Len(etw), n <= m, m <= Len(etw) + l,
         AlikeAfter(etw, t, a, o, n, path),
         \A k \in (n + 1)..m : ~NameMove(etw'[k], o).does
  PROVE  AlikeAfter(etw', t, a, o, m, path)
<1>1. CASE NameAfter(etw, t, o, n, Alike(path))
  <2>1. NameAfter(etw', t, o, m, Alike(path))
    BY <1>1, GrownName
  <2> QED  BY <2>1 DEF AlikeAfter
<1>2. CASE Overdue(etw, a, n)
  <2>1. Len(etw) \in Nat
    BY StreamLength
  <2>2. \A k \in 1..n : etw'[k] = etw[k] /\ k \in 1..m
    BY <2>1 DEF Grown
  <2>3. Overdue(etw', a, m)
    BY <1>2, <2>2 DEF Overdue
  <2> QED  BY <2>3 DEF AlikeAfter
<1> QED  BY <1>1, <1>2 DEF AlikeAfter

LEMMA ThinnedAlike ==
  ASSUME StreamInv, NEW l \in 1..Len(etw), ~Correlates(etw[l]), NEW t, NEW a, NEW o, NEW path,
         NEW n \in 0..Len(etw), AlikeAfter(etw, t, a, o, n, path)
  PROVE  AlikeAfter(Without(etw, l), t, a, o, IF l <= n THEN n - 1 ELSE n, path)
<1> DEFINE m == IF l <= n THEN n - 1 ELSE n
<1>1. CASE NameAfter(etw, t, o, n, Alike(path))
  <2>1. NameAfter(Without(etw, l), t, o, m, Alike(path))
    BY <1>1, ThinnedName
  <2> QED  BY <2>1 DEF AlikeAfter
<1>2. CASE Overdue(etw, a, n)
  <2>1. Len(etw) \in Nat /\ etw \in Seq(Events)
    BY StreamLength DEF StreamInv, TypeOK
  <2>2. \A k \in 1..(Len(etw) - 1) :
          Without(etw, l)[k] = IF k < l THEN etw[k] ELSE etw[k + 1]
    BY <2>1, WithoutIsShorter
  <2>3. ASSUME NEW k \in 1..n, ForbiddenRename(etw[k])
        PROVE  \E j \in 1..m : ForbiddenRename(Without(etw, l)[j])
    <3>1. k # l
      BY <2>3 DEF ForbiddenRename, Violation, Correlates
    <3>2. CASE k < l
      <4>1. k \in 1..m /\ k \in 1..(Len(etw) - 1)
        BY <2>1, <3>2
      <4>2. Without(etw, l)[k] = etw[k]
        BY <2>2, <3>2, <4>1
      <4> QED  BY <2>3, <4>1, <4>2
    <3>3. CASE l < k
      <4>1. k - 1 \in 1..m /\ k - 1 \in 1..(Len(etw) - 1) /\ ~(k - 1 < l) /\ (k - 1) + 1 = k
        BY <2>1, <3>3
      <4>2. Without(etw, l)[k - 1] = etw[k]
        BY <2>2, <4>1
      <4> QED  BY <2>3, <4>1, <4>2
    <3> QED  BY <3>1, <3>2, <3>3
  <2>4. Overdue(Without(etw, l), a, m)
    BY <1>2, <2>3 DEF Overdue
  <2> QED  BY <2>4 DEF AlikeAfter
<1> QED  BY <1>1, <1>2 DEF AlikeAfter

\* The present name itself is like the present name.
LEMMA TrueNameIsAlike ==
  ASSUME NEW s, NEW t, NEW a, NEW o, NEW n, NEW x \in Paths, NameAfter(s, t, o, n, {x})
  PROVE  AlikeAfter(s, t, a, o, n, x)
<1>1. {x} \subseteq Alike(x)
  BY DEF Alike
<1> QED  BY <1>1, NameWidens DEF AlikeAfter

LEMMA GrownNamesAreAlike ==
  ASSUME StreamInv, NEW l \in Nat, Grown(l), NamesAreAlike,
         objectPath' = objectPath, requested' = requested,
         \A n \in (Len(etw) + 1)..(Len(etw) + l) : IsRename(etw'[n]) =>
           AlikeAfter(etw', objectPath, requested, etw'[n].req.obj, n - 1, etw'[n].req.path),
         \A o \in DOMAIN objs' : objs'[o].by \in Monitored =>
           AlikeAfter(etw', objectPath, requested, o, Len(etw) + l, objs'[o].path)
  PROVE  NamesAreAlike'
<1>1. Len(etw) \in Nat /\ DOMAIN etw = 1..Len(etw) /\ TypeOK
  BY StreamLength DEF StreamInv
<1>2. DOMAIN etw' = 1..(Len(etw) + l) /\ Len(etw') = Len(etw) + l
  BY LenProperties DEF Grown
<1>3. ASSUME NEW n \in DOMAIN etw', IsRename(etw'[n])
      PROVE  AlikeAfter(etw', objectPath, requested, etw'[n].req.obj, n - 1, etw'[n].req.path)
  <2>1. CASE n \in 1..Len(etw)
    <3>1. etw'[n] = etw[n]
      BY <2>1 DEF Grown
    <3>2. AlikeAfter(etw, objectPath, requested, etw[n].req.obj, n - 1, etw[n].req.path)
      BY <1>1, <1>3, <2>1, <3>1 DEF NamesAreAlike
    <3>3. /\ n - 1 \in Nat /\ n - 1 <= Len(etw) /\ n - 1 <= n - 1 /\ n - 1 <= Len(etw) + l
          /\ ((n - 1) + 1)..(n - 1) = {}
      BY <1>1, <2>1
    <3> QED  BY <1>1, <3>1, <3>2, <3>3, GrownAlike
  <2>2. CASE n \in (Len(etw) + 1)..(Len(etw) + l)
    BY <1>3, <2>2
  <2> QED  BY <1>1, <1>2, <2>1, <2>2
<1> QED  BY <1>2, <1>3 DEF NamesAreAlike

LEMMA KernelAlike ==
  ASSUME StreamInv, NamesAreTrue, NamesAreAlike, Kernel, intact'
  PROVE  NamesAreAlike'
<1>0. Len(etw) \in Nat /\ DOMAIN etw = 1..Len(etw) /\ etw \in Seq(Events) /\ TypeOK
  BY StreamLength DEF StreamInv, TypeOK
\* What a handle relies on, after more events that do not move it.
<1>a. ASSUME NEW l \in Nat, Grown(l), NEW o \in DOMAIN objs, objs[o].by \in Monitored,
             NEW m \in Len(etw)..(Len(etw) + l),
             \A k \in (Len(etw) + 1)..m : ~NameMove(etw'[k], o).does
      PROVE  AlikeAfter(etw', objectPath, requested, o, m, objs[o].path)
  <2>1. AlikeAfter(etw, objectPath, requested, o, Len(etw), objs[o].path)
    BY <1>a DEF NamesAreAlike
  <2>2. m \in Nat /\ Len(etw) <= m /\ m <= Len(etw) + l /\ Len(etw) <= Len(etw)
    BY <1>0
  <2> QED  BY <1>0, <1>a, <2>1, <2>2, GrownAlike
<1>1. ASSUME NEW p \in Pids, NEW i \in Irps, NEW o \in Objects, NEW x \in Paths,
             NEW d \in BOOLEAN, StartOpen(p, i, o, x, d)
      PROVE  NamesAreAlike'
  <2>1. PICK r \in Requests :
           /\ r.kind = "open" /\ r.by = p /\ r.irp = i /\ r.obj = o /\ r.path = x
           /\ r.dir = d /\ r.aliases = {x} /\ i \notin DOMAIN opens /\ o \notin BusyObjects
           /\ opens' = Put(opens, i, r)
           /\ Grown(1) /\ Says(etw'[Len(etw) + 1], "Create", r)
    BY <1>0, <1>1, StartOpenLogs
  <2>2. objs' = objs /\ objectPath' = objectPath /\ requested' = requested
    BY <1>1 DEF StartOpen, monitorVars
  <2>3. \A k \in (Len(etw) + 1)..(Len(etw) + 1) : Says(etw'[k], "Create", r)
    BY <1>0, <2>1
  <2>4. \A n \in (Len(etw) + 1)..(Len(etw) + 1) : ~IsRename(etw'[n])
    BY <2>3 DEF Says, IsRename
  <2>5. \A q : q # o => \A k \in (Len(etw) + 1)..(Len(etw) + 1) : ~NameMove(etw'[k], q).does
    BY <2>1, <2>3 DEF Says, NameMove
  <2>6. \A q \in DOMAIN objs : q # o
    BY <2>1 DEF BusyObjects
  <2>7. Len(etw) + 1 \in Len(etw)..(Len(etw) + 1)
    BY <1>0
  <2>8. \A q \in DOMAIN objs : objs[q].by \in Monitored =>
          AlikeAfter(etw', objectPath, requested, q, Len(etw) + 1, objs[q].path)
    BY <1>a, <2>1, <2>5, <2>6, <2>7
  <2> QED  BY <2>1, <2>2, <2>4, <2>8, GrownNamesAreAlike
<1>2. ASSUME NEW i \in Irps, FailOpen(i) PROVE NamesAreAlike'
  <2> DEFINE e == etw'[Len(etw) + 1]
  <2>1. Grown(1) /\ e.id = "OperationEnd"
    BY <1>0, <1>2, FailOpenLogs
  <2>2. objs' = objs /\ objectPath' = objectPath /\ requested' = requested
    BY <1>2 DEF FailOpen, monitorVars
  <2>3. \A n \in (Len(etw) + 1)..(Len(etw) + 1) : etw'[n].id = "OperationEnd"
    BY <1>0, <2>1
  <2>4. \A n \in (Len(etw) + 1)..(Len(etw) + 1) :
          ~IsRename(etw'[n]) /\ \A q : ~NameMove(etw'[n], q).does
    BY <2>3 DEF IsRename, NameMove
  <2>5. Len(etw) + 1 \in Len(etw)..(Len(etw) + 1)
    BY <1>0
  <2>6. \A q \in DOMAIN objs : objs[q].by \in Monitored =>
          AlikeAfter(etw', objectPath, requested, q, Len(etw) + 1, objs[q].path)
    BY <1>a, <2>1, <2>4, <2>5
  <2> QED  BY <2>1, <2>2, <2>4, <2>6, GrownNamesAreAlike
<1>3. ASSUME NEW i \in Irps, NEW k \in Keys, NEW new \in BOOLEAN, CompleteOpen(i, k, new)
      PROVE  NamesAreAlike'
  <2>1. PICK r \in Requests, l \in 1..3 :
           /\ i \in DOMAIN opens /\ opens' = Drop(opens, i)
           /\ objs' = Put(objs, opens[i].obj, [by |-> opens[i].by, path |-> opens[i].path,
                                               key |-> k, aliases |-> {opens[i].path}])
           /\ names' = Put(names, k, opens[i].path)
           /\ r.kind = opens[i].kind /\ r.by = opens[i].by /\ r.irp = opens[i].irp
           /\ r.obj = opens[i].obj /\ r.path = opens[i].path /\ r.dir = opens[i].dir
           /\ r.aliases = opens[i].aliases /\ r.key = k
           /\ Grown(l) /\ Says(etw'[Len(etw) + l], "OperationEnd", r)
           /\ \A n \in (Len(etw) + 1)..(Len(etw) + l - 1) :
                \/ Says(etw'[n], "NameCreate", r)
                \/ Says(etw'[n], "CreateNewFile", r)
    BY <1>0, <1>3, CompleteOpenLogs
  <2>2. objectPath' = objectPath /\ requested' = requested /\ l \in Nat
    BY <1>3 DEF CompleteOpen, monitorVars
  <2>3. ASSUME NEW n \in (Len(etw) + 1)..(Len(etw) + l)
        PROVE  etw'[n].id \in {"NameCreate", "CreateNewFile", "OperationEnd"}
    <3>1. n = Len(etw) + l \/ n \in (Len(etw) + 1)..(Len(etw) + l - 1)
      BY <1>0
    <3> QED  BY <2>1, <3>1 DEF Says
  <2>4. \A n \in (Len(etw) + 1)..(Len(etw) + l) :
          ~IsRename(etw'[n]) /\ \A q : ~NameMove(etw'[n], q).does
    BY <2>3 DEF NameMove, IsRename
  <2>5. Len(etw) + l \in Len(etw)..(Len(etw) + l)
    BY <1>0
  <2>6. ASSUME NEW q \in DOMAIN objs', objs'[q].by \in Monitored
        PROVE  AlikeAfter(etw', objectPath, requested, q, Len(etw) + l, objs'[q].path)
    <3>1. CASE q = opens[i].obj
      <4>1. objs'[q].path = opens[i].path /\ objs'[q].aliases = {opens[i].path}
        BY <2>1, <3>1 DEF Put
      <4>2. opens[i].path \in Paths
        BY <1>0, <2>1 DEF TypeOK, IsMap, Requests
      <4>3. Len(etw') = Len(etw) + l
        BY <2>1 DEF Grown
      <4>4. NamesAreTrue'
        BY KernelNames
      <4>5. NameAfter(etw', objectPath', q, Len(etw'), objs'[q].aliases)
        BY <2>6, <4>4 DEF NamesAreTrue
      <4>6. NameAfter(etw', objectPath, q, Len(etw) + l, {opens[i].path})
        BY <2>2, <4>1, <4>3, <4>5
      <4> QED  BY <4>1, <4>2, <4>6, TrueNameIsAlike
    <3>2. CASE q # opens[i].obj
      <4>1. q \in DOMAIN objs /\ objs'[q] = objs[q]
        BY <2>1, <3>2 DEF Put
      <4> QED  BY <1>a, <2>1, <2>2, <2>4, <2>5, <2>6, <4>1
    <3> QED  BY <3>1, <3>2
  <2> QED  BY <2>1, <2>2, <2>4, <2>6, GrownNamesAreAlike
<1>4. ASSUME NEW p \in Pids, NEW i \in Irps, NEW o \in Objects, UseFile(p, i, o)
      PROVE  NamesAreAlike'
  <2>1. PICK r \in Requests :
           /\ o \in DOMAIN objs /\ MayUse(p, o) /\ i \notin DOMAIN opens
           /\ OfHandle(r, "io", p, i, o) /\ Grown(2)
           /\ Says(etw'[Len(etw) + 1], "Io", r)
           /\ Says(etw'[Len(etw) + 2], "OperationEnd", r)
    BY <1>0, <1>4, UseFileLogs
  <2>2. objs' = objs /\ objectPath' = objectPath /\ requested' = requested
    BY <1>4 DEF UseFile, monitorVars
  <2>3. \A n \in (Len(etw) + 1)..(Len(etw) + 2) : etw'[n].id \in {"Io", "OperationEnd"}
    BY <1>0, <2>1 DEF Says
  <2>4. \A n \in (Len(etw) + 1)..(Len(etw) + 2) :
          ~IsRename(etw'[n]) /\ \A q : ~NameMove(etw'[n], q).does
    BY <2>3 DEF NameMove, IsRename
  <2>5. Len(etw) + 2 \in Len(etw)..(Len(etw) + 2)
    BY <1>0
  <2>6. \A q \in DOMAIN objs : objs[q].by \in Monitored =>
          AlikeAfter(etw', objectPath, requested, q, Len(etw) + 2, objs[q].path)
    BY <1>a, <2>1, <2>4, <2>5
  <2> QED  BY <2>1, <2>2, <2>4, <2>6, GrownNamesAreAlike
<1>5. ASSUME NEW p \in Pids, NEW i \in Irps, NEW o \in Objects, NEW x \in Paths,
             NEW ok \in BOOLEAN, RenameFile(p, i, o, x, ok)
      PROVE  NamesAreAlike'
  <2> DEFINE e == etw'[Len(etw) + 3]
             f == etw'[Len(etw) + 2]
  <2>1. PICK r \in Requests :
           /\ o \in DOMAIN objs /\ MayUse(p, o) /\ i \notin DOMAIN opens
           /\ objs' = [objs EXCEPT ![o].path = IF ok THEN x ELSE @, ![o].aliases = @ \cup {x}]
           /\ OfHandle(r, "rename", p, i, o) /\ r.new = x /\ Grown(3)
           /\ r.aliases = objs[o].aliases \cup {x}
           /\ Says(etw'[Len(etw) + 1], "Rename", r)
           /\ Says(f, "RenamePath", r)
           /\ e.id = "OperationEnd" /\ e.pid = p /\ e.req = r
           /\ e.file = (r.path \notin dirs)
    BY <1>0, <1>5, RenameFileLogs
  <2>2. objectPath' = objectPath /\ requested' = requested
    BY <1>5 DEF RenameFile, monitorVars
  <2>3. r.kind = "rename" /\ r.by = p /\ r.obj = o /\ r.path = objs[o].path
    BY <2>1 DEF OfHandle
  <2>4. \A n \in (Len(etw) + 1)..(Len(etw) + 3) :
          n = Len(etw) + 1 \/ n = Len(etw) + 2 \/ n = Len(etw) + 3
    BY <1>0
  <2>5. \A q : q # o => \A n \in (Len(etw) + 1)..(Len(etw) + 3) : ~NameMove(etw'[n], q).does
    BY <2>1, <2>3, <2>4 DEF NameMove, Says
  <2>6. ~NameMove(etw'[Len(etw) + 1], o).does /\ ~NameMove(e, o).does
    BY <2>1 DEF NameMove, Says
  <2>7. Len(etw) + 3 \in Len(etw)..(Len(etw) + 3)
    BY <1>0
  <2>8. ASSUME NEW n \in (Len(etw) + 1)..(Len(etw) + 3), IsRename(etw'[n])
        PROVE  AlikeAfter(etw', objectPath, requested, etw'[n].req.obj, n - 1, etw'[n].req.path)
    <3>1. n \in {Len(etw) + 1, Len(etw) + 2}
      BY <2>1, <2>4, <2>8 DEF IsRename
    <3>2. etw'[n].req = r /\ objs[o].by \in Monitored
      BY <2>1, <2>3, <2>8, <3>1 DEF Says, MayUse, IsRename, FromJob
    <3>3. n - 1 \in Len(etw)..(Len(etw) + 3)
          /\ \A k \in (Len(etw) + 1)..(n - 1) : k = Len(etw) + 1
      BY <1>0, <3>1
    <3>4. AlikeAfter(etw', objectPath, requested, o, n - 1, objs[o].path)
      BY <1>a, <2>1, <2>6, <3>2, <3>3
    <3> QED  BY <2>3, <3>2, <3>4
  <2>9. ASSUME NEW q \in DOMAIN objs', objs'[q].by \in Monitored
        PROVE  AlikeAfter(etw', objectPath, requested, q, Len(etw) + 3, objs'[q].path)
    <3>1. CASE q = o
      <4>1. objs[o] \in Handles
        BY <1>0, <2>1 DEF TypeOK, IsMap
      <4>2. objs'[o].by = objs[o].by /\ objs'[o].path = IF ok THEN x ELSE objs[o].path
        BY <2>1, <4>1 DEF Handles
      <4>3. p \in Monitored
        BY <2>1, <2>9, <3>1, <4>2 DEF MayUse
      <4>4. CASE x \in Alike(objs'[o].path)
        <5>1. NameMove(f, o).does /\ NameMove(f, o).to = {x}
          BY <2>1, <2>3, <4>3 DEF Says, NameMove, FromJob
        <5>2. /\ Len(etw) + 3 \in Nat /\ Len(etw) + 2 \in 1..(Len(etw) + 3)
              /\ \A k \in (Len(etw) + 2 + 1)..(Len(etw) + 3) : k = Len(etw) + 3
          BY <1>0
        <5>3. 1..(Len(etw) + 3) \subseteq DOMAIN etw'
          BY <2>1, LenProperties DEF Grown
        <5>4. NameAfter(etw', objectPath, o, Len(etw) + 3, Alike(objs'[o].path))
          BY <2>6, <4>4, <5>1, <5>2, <5>3, NameMoved
        <5> QED  BY <3>1, <5>4 DEF AlikeAfter
      <4>5. CASE x \notin Alike(objs'[o].path)
        <5>1. {objs[o].path, x} \cap Protected # {}
          BY <4>2, <4>5 DEF Alike
        <5>2. ForbiddenRename(f)
          BY <2>1, <2>3, <4>3, <5>1 DEF ForbiddenRename, Violation, Says
        <5>3. Len(etw) + 2 \in 1..(Len(etw) + 3)
          BY <1>0
        <5> QED  BY <3>1, <5>2, <5>3 DEF AlikeAfter, Overdue
      <4> QED  BY <4>4, <4>5
    <3>2. CASE q # o
      <4>1. q \in DOMAIN objs /\ objs'[q] = objs[q]
        BY <2>1, <3>2
      <4> QED  BY <1>a, <2>1, <2>5, <2>7, <2>9, <3>2, <4>1
    <3> QED  BY <3>1, <3>2
  <2> QED  BY <2>1, <2>2, <2>8, <2>9, GrownNamesAreAlike
<1>6. ASSUME NEW p \in Pids, NEW i \in Irps, NEW o \in Objects, CloseFile(p, i, o)
      PROVE  NamesAreAlike'
  <2>1. PICK r \in Requests :
           /\ o \in DOMAIN objs /\ (MayUse(p, o) \/ p \notin Monitored)
           /\ i \notin DOMAIN opens /\ objs' = Drop(objs, o)
           /\ OfHandle(r, "close", p, i, o) /\ Grown(2)
           /\ Says(etw'[Len(etw) + 1], "Close", r)
           /\ Says(etw'[Len(etw) + 2], "OperationEnd", r)
    BY <1>0, <1>6, CloseFileLogs
  <2>2. objectPath' = objectPath /\ requested' = requested
    BY <1>6 DEF CloseFile, monitorVars
  <2>3. \A n \in (Len(etw) + 1)..(Len(etw) + 2) : n = Len(etw) + 1 \/ n = Len(etw) + 2
    BY <1>0
  <2>4. r.kind = "close" /\ r.by = p /\ r.obj = o
    BY <2>1 DEF OfHandle
  <2>5. \A q : q # o => \A n \in (Len(etw) + 1)..(Len(etw) + 2) : ~NameMove(etw'[n], q).does
    BY <2>1, <2>3, <2>4 DEF NameMove, Says
  <2>6. Len(etw) + 2 \in Len(etw)..(Len(etw) + 2)
    BY <1>0
  <2>7. \A n \in (Len(etw) + 1)..(Len(etw) + 2) : ~IsRename(etw'[n])
    BY <2>1, <2>3 DEF IsRename, Says
  <2>8. ASSUME NEW q \in DOMAIN objs', objs'[q].by \in Monitored
        PROVE  AlikeAfter(etw', objectPath, requested, q, Len(etw) + 2, objs'[q].path)
    <3>1. q \in DOMAIN objs /\ objs'[q] = objs[q] /\ q # o
      BY <2>1 DEF Drop, Restrict
    <3> QED  BY <1>a, <2>1, <2>5, <2>6, <2>8, <3>1
  <2> QED  BY <2>1, <2>2, <2>7, <2>8, GrownNamesAreAlike
<1>7. ASSUME NEW p \in Pids, NEW k \in Keys, ForgetName(p, k) PROVE NamesAreAlike'
  <2>1. PICK r \in Requests :
           /\ r.kind = "name" /\ r.by = p /\ r.key = k /\ r.path \in r.aliases
           /\ names' = Drop(names, k)
           /\ Grown(1) /\ Says(etw'[Len(etw) + 1], "NameDelete", r)
    BY <1>0, <1>7, ForgetNameLogs
  <2>2. objs' = objs /\ objectPath' = objectPath /\ requested' = requested
    BY <1>7 DEF ForgetName, monitorVars
  <2>3. \A n \in (Len(etw) + 1)..(Len(etw) + 1) : Says(etw'[n], "NameDelete", r)
    BY <1>0, <2>1
  <2>4. \A n \in (Len(etw) + 1)..(Len(etw) + 1) :
          ~IsRename(etw'[n]) /\ \A q : ~NameMove(etw'[n], q).does
    BY <2>3 DEF Says, IsRename, NameMove
  <2>5. Len(etw) + 1 \in Len(etw)..(Len(etw) + 1)
    BY <1>0
  <2>6. \A q \in DOMAIN objs : objs[q].by \in Monitored =>
          AlikeAfter(etw', objectPath, requested, q, Len(etw) + 1, objs[q].path)
    BY <1>a, <2>1, <2>4, <2>5
  <2> QED  BY <2>1, <2>2, <2>4, <2>6, GrownNamesAreAlike
<1>8. ASSUME NEW x \in Paths, ChangeDirectory(x) PROVE NamesAreAlike'
  BY <1>8 DEF ChangeDirectory, monitorVars, NamesAreAlike
<1>9. ASSUME NEW l \in 1..Len(etw), LoseEvent(l) PROVE NamesAreAlike'
  <2>1. /\ etw' = Without(etw, l) /\ ~Correlates(etw[l]) /\ objectPath' = objectPath
        /\ objs' = objs /\ requested' = requested
    BY <1>9 DEF LoseEvent, Without, monitorVars
  <2>2. /\ Len(etw') = Len(etw) - 1 /\ DOMAIN etw' = 1..(Len(etw) - 1)
        /\ \A k \in 1..(Len(etw) - 1) : etw'[k] = IF k < l THEN etw[k] ELSE etw[k + 1]
    BY <1>0, <2>1, WithoutIsShorter, LenProperties
  <2>3. ASSUME NEW n \in DOMAIN etw', IsRename(etw'[n])
        PROVE  AlikeAfter(etw', objectPath, requested, etw'[n].req.obj, n - 1, etw'[n].req.path)
    <3> DEFINE m == IF n < l THEN n ELSE n + 1
    <3>1. /\ m \in DOMAIN etw /\ etw'[n] = etw[m] /\ m - 1 \in 0..Len(etw)
          /\ n - 1 = IF l <= m - 1 THEN (m - 1) - 1 ELSE m - 1
      BY <1>0, <2>2
    <3>2. AlikeAfter(etw, objectPath, requested, etw[m].req.obj, m - 1, etw[m].req.path)
      BY <2>3, <3>1 DEF NamesAreAlike
    <3> HIDE DEF m
    <3> QED  BY <2>1, <3>1, <3>2, ThinnedAlike
  <2>4. Len(etw) \in 0..Len(etw) /\ l <= Len(etw)
    BY <1>0
  <2>5. \A o \in DOMAIN objs : objs[o].by \in Monitored =>
          AlikeAfter(etw', objectPath, requested, o, Len(etw) - 1, objs[o].path)
    BY <2>1, <2>4, ThinnedAlike DEF NamesAreAlike
  <2> QED  BY <2>1, <2>2, <2>3, <2>5 DEF NamesAreAlike
<1> QED  BY <1>1, <1>2, <1>3, <1>4, <1>5, <1>6, <1>7, <1>8, <1>9 DEF Kernel

------------------------------------------------------------------------------
(* What a delivery does to the request.                                    *)

\* The request is never taken back; the kernel has no part in it.
LEMMA CallbackKeepsRequest ==
  ASSUME Callback, requested
  PROVE  requested'
BY DEF Callback, NameCreateHandler, NameDeleteHandler, IgnoreForeignEvent, CreateOpenHandler,
       OperationEndHandler, CreateNewFileHandler, DiagnosticHandler, CloseHandler,
       RenameHandler, RenamePathHandler, React, monitorVars

\* The event that is next finds the name it relies on.
LEMMA NextNameIsTrue ==
  ASSUME StreamInv, NamesAreTrue, etw # <<>>, ReliesOnName(etw[1])
  PROVE  /\ ResolveFilePath(etw[1].req) \in etw[1].req.aliases
         /\ ResolveFilePath(etw[1].req) = objectPath[etw[1].req.obj]
<1>1. 1 \in DOMAIN etw
  BY EmptySeq, LenProperties DEF StreamInv, TypeOK
<1>2. NameAfter(etw, objectPath, etw[1].req.obj, 1 - 1, etw[1].req.aliases)
  BY <1>1 DEF NamesAreTrue
<1>3. NameAfter(etw, objectPath, etw[1].req.obj, 0, etw[1].req.aliases)
  BY <1>2
<1>4. etw[1].req.obj \in DOMAIN objectPath
      /\ objectPath[etw[1].req.obj] \in etw[1].req.aliases
  BY <1>3, NameNext
<1> QED  BY <1>4 DEF ResolveFilePath

\* The rename that is next is judged as its true name would be.
LEMMA NextNameIsAlike ==
  ASSUME StreamInv, NamesAreTrue, NamesAreAlike, etw # <<>>, IsRename(etw[1]), ~requested
  PROVE  ResolveFilePath(etw[1].req) \in Protected <=> etw[1].req.path \in Protected
<1>1. 1 \in DOMAIN etw
  BY EmptySeq, LenProperties DEF StreamInv, TypeOK
<1>2. AlikeAfter(etw, objectPath, requested, etw[1].req.obj, 1 - 1, etw[1].req.path)
  BY <1>1 DEF NamesAreAlike
<1>3. NameAfter(etw, objectPath, etw[1].req.obj, 0, Alike(etw[1].req.path))
  BY <1>2 DEF AlikeAfter, Overdue
<1>4. objectPath[etw[1].req.obj] \in Alike(etw[1].req.path)
  BY <1>3, NameNext
<1>5. ResolveFilePath(etw[1].req) = objectPath[etw[1].req.obj]
  BY NextNameIsTrue DEF ReliesOnName, IsRename
<1> QED  BY <1>4, <1>5 DEF Alike

\* The completion that is next finds the create it completes, or none.
LEMMA NextCompletionMatches ==
  ASSUME StreamInv, CompletionsMatch, etw # <<>>, etw[1].id = "OperationEnd"
  PROVE  /\ etw[1].req.irp \in DOMAIN pending <=> TrackedOpen(etw[1].req)
         /\ etw[1].req.irp \in DOMAIN pending =>
              pending[etw[1].req.irp].path = etw[1].req.path
<1>1. 1 \in DOMAIN etw
  BY EmptySeq, LenProperties DEF StreamInv, TypeOK
<1>2. PendingAfter(etw, pending, etw[1].req.irp, 1 - 1, Capture(etw[1].req))
  BY <1>1 DEF CompletionsMatch
<1>3. PendingAfter(etw, pending, etw[1].req.irp, 0, Capture(etw[1].req))
  BY <1>2
<1>4. Held(pending, etw[1].req.irp) = Capture(etw[1].req)
  BY <1>3, PendingNext
<1>5. CASE TrackedOpen(etw[1].req)
  <2>1. Capture(etw[1].req) = {[path |-> etw[1].req.path, obj |-> etw[1].req.obj,
                               pid |-> etw[1].req.by]}
    BY <1>5 DEF Capture
  <2>2. /\ etw[1].req.irp \in DOMAIN pending
        /\ pending[etw[1].req.irp] = [path |-> etw[1].req.path, obj |-> etw[1].req.obj,
                                      pid |-> etw[1].req.by]
    BY <1>4, <2>1 DEF Held
  <2> QED  BY <1>5, <2>2
<1>6. CASE ~TrackedOpen(etw[1].req)
  <2>1. etw[1].req.irp \notin DOMAIN pending
    BY <1>4, <1>6 DEF Held, Capture
  <2> QED  BY <1>6, <2>1
<1> QED  BY <1>5, <1>6

\* A forbidden rename raises the request when its target is delivered.
LEMMA ForbiddenRenameRaises ==
  ASSUME StreamInv, NamesAreTrue, NamesAreAlike, Callback, ForbiddenRename(etw[1])
  PROVE  requested'
<1>1. Delivery
  BY CallbackDelivers DEF StreamInv
<1>2. /\ etw[1] = Head(etw) /\ etw # <<>> /\ etw[1].id = "RenamePath" /\ WellFormed(etw[1])
  BY <1>1 DEF Delivery, ForbiddenRename, StreamInv
<1>3. FromJob(etw[1])
  BY <1>2 DEF ForbiddenRename, Violation, WellFormed, FromJob
<1>4. RenamePathHandler
  BY <1>2, <1>3 DEF Callback, NameCreateHandler, NameDeleteHandler, IgnoreForeignEvent,
                    CreateOpenHandler, OperationEndHandler, CreateNewFileHandler,
                    DiagnosticHandler, CloseHandler, RenameHandler, Deliver
<1>5. CASE requested
  BY <1>5, CallbackKeepsRequest
<1>6. CASE ~requested
  <2>1. ResolveFilePath(etw[1].req) \in Protected <=> etw[1].req.path \in Protected
    BY <1>2, <1>3, <1>6, NextNameIsAlike DEF IsRename
  <2>2. etw[1].req.path \in Protected \/ etw[1].req.new \in Protected
    BY <1>2 DEF ForbiddenRename, Violation
  <2>3. RenameIsProtected(ResolveFilePath(etw[1].req), etw[1].req.new)
    BY <2>1, <2>2 DEF RenameIsProtected, IsProtectedOutsideWorkingDir
  <2> QED  BY <1>2, <1>4, <2>3 DEF RenamePathHandler, React
<1> QED  BY <1>5, <1>6

\* A forbidden open raises it when its completion is, while directories stay ones.
LEMMA DecisiveRaises ==
  ASSUME StreamInv, NamesAreTrue, CompletionsMatch, NamesAreAlike, Callback, dirChanges = 0,
         Decisive(etw[1])
  PROVE  requested'
<1>1. Delivery
  BY CallbackDelivers DEF StreamInv
<1>2. /\ etw[1] = Head(etw) /\ etw # <<>> /\ 1 \in DOMAIN etw
  BY <1>1 DEF Delivery
<1>3. CASE etw[1].id = "RenamePath"
  BY <1>3, ForbiddenRenameRaises DEF Decisive, ForbiddenRename
<1>4. CASE etw[1].id = "OperationEnd"
  <2>1. OperationEndHandler
    BY <1>2, <1>4 DEF Callback, NameCreateHandler, NameDeleteHandler, IgnoreForeignEvent,
                      CreateOpenHandler, CreateNewFileHandler, DiagnosticHandler,
                      CloseHandler, RenameHandler, RenamePathHandler, Deliver
  <2>2. TrackedOpen(etw[1].req) /\ etw[1].ok /\ etw[1].file
    BY <1>4 DEF Decisive, Violation, TrackedOpen, IsTracked, IsProtectedOutsideWorkingDir
  <2>3. /\ etw[1].req.irp \in DOMAIN pending
        /\ pending[etw[1].req.irp].path = etw[1].req.path
    BY <1>2, <1>4, <2>2, NextCompletionMatches
  <2>4. etw[1].req.path \notin dirs
    BY <1>2, <2>2 DEF StreamInv
  <2>5. IsAccess(etw[1], pending[etw[1].req.irp])
    BY <2>2, <2>3, <2>4 DEF IsAccess, IsExistingDirectory
  <2> QED  BY <1>2, <2>1, <2>3, <2>5 DEF OperationEndHandler, React
<1> QED  BY <1>3, <1>4 DEF Decisive

\* What raises the request is a violation.
LEMMA RaisedByViolation ==
  ASSUME StreamInv, NamesAreTrue, CompletionsMatch, NamesAreAlike, Callback, dirChanges = 0,
         ~requested
  PROVE  \/ requested' = FALSE /\ cause' = cause
         \/ requested' = TRUE /\ cause' = {etw[1]} /\ Violation(etw[1])
<1> DEFINE e == etw[1]
           r == e.req
<1>1. Delivery
  BY CallbackDelivers DEF StreamInv
<1>2. /\ e = Head(etw) /\ etw # <<>> /\ 1 \in DOMAIN etw /\ WellFormed(e)
      /\ e.file = (r.path \notin dirs) /\ requested = FALSE
  BY <1>1 DEF Delivery, StreamInv, TypeOK
<1> HIDE DEF e
<1>3. ASSUME NEW isValid \in BOOLEAN, React(e, isValid), ~isValid => Violation(e)
      PROVE  \/ requested' = FALSE /\ cause' = cause
             \/ requested' = TRUE /\ cause' = {e} /\ Violation(e)
  BY <1>2, <1>3 DEF React
<1>4. CASE OperationEndHandler
  <2> DEFINE access == r.irp \in DOMAIN pending /\ IsAccess(e, pending[r.irp])
  <2>1. e.id = "OperationEnd" /\ React(e, ~access)
    BY <1>2, <1>4 DEF OperationEndHandler, Deliver
  <2>2. access => TrackedOpen(r) /\ pending[r.irp].path = r.path
    BY <1>2, <2>1, NextCompletionMatches DEF e
  <2>3. access => Violation(e)
    BY <1>2, <2>1, <2>2 DEF TrackedOpen, IsTracked, IsProtectedOutsideWorkingDir, Violation,
                            IsAccess, IsExistingDirectory
  <2>4. (~access) \in BOOLEAN
    OBVIOUS
  <2> HIDE DEF access
  <2>5. ~(~access) => Violation(e)
    BY <2>3
  <2> DEFINE valid == ~access
  <2>6. valid \in BOOLEAN /\ React(e, valid) /\ (~valid => Violation(e))
    BY <2>1, <2>4, <2>5
  <2> HIDE DEF valid
  <2> QED  BY <1>3, <2>6 DEF e
<1>5. CASE CreateNewFileHandler
  <2> DEFINE valid == r.dir \/ IsExistingDirectory(r.path) \/ ~IsProtectedOutsideWorkingDir(r.path)
  <2>1. e.id = "CreateNewFile" /\ FromJob(e) /\ React(e, valid)
    BY <1>2, <1>5 DEF CreateNewFileHandler, Deliver
  <2>2. r.dir \in BOOLEAN
    BY <1>1, <1>2, EventParts DEF Delivery
  <2>3. valid \in BOOLEAN
    BY <2>2 DEF IsExistingDirectory, IsProtectedOutsideWorkingDir
  <2>4. ~valid => Violation(e)
    BY <1>2, <2>1 DEF Violation, WellFormed, FromJob, IsExistingDirectory,
                      IsProtectedOutsideWorkingDir
  <2> HIDE DEF valid
  <2> QED  BY <1>3, <2>1, <2>3, <2>4 DEF e
<1>6. CASE RenameHandler
  <2> DEFINE valid == ~IsProtectedOutsideWorkingDir(ResolveFilePath(r))
  <2>1. e.id = "Rename" /\ FromJob(e) /\ React(e, valid)
    BY <1>2, <1>6 DEF RenameHandler, Deliver
  <2>2. ResolveFilePath(r) \in Protected <=> r.path \in Protected
    BY <1>2, <2>1, NextNameIsAlike DEF IsRename, e
  <2>3. valid \in BOOLEAN
    OBVIOUS
  <2>4. ~valid => Violation(e)
    BY <1>2, <2>1, <2>2 DEF Violation, WellFormed, FromJob, IsProtectedOutsideWorkingDir
  <2> HIDE DEF valid
  <2> QED  BY <1>3, <2>1, <2>3, <2>4 DEF e
<1>7. CASE RenamePathHandler
  <2> DEFINE valid == ~RenameIsProtected(ResolveFilePath(r), r.new)
  <2>1. e.id = "RenamePath" /\ FromJob(e) /\ React(e, valid)
    BY <1>2, <1>7 DEF RenamePathHandler, Deliver
  <2>2. ResolveFilePath(r) \in Protected <=> r.path \in Protected
    BY <1>2, <2>1, NextNameIsAlike DEF IsRename, e
  <2>3. valid \in BOOLEAN
    OBVIOUS
  <2>4. ~valid => Violation(e)
    BY <1>2, <2>1, <2>2 DEF Violation, WellFormed, FromJob, IsProtectedOutsideWorkingDir,
                            RenameIsProtected
  <2> HIDE DEF valid
  <2> QED  BY <1>3, <2>1, <2>3, <2>4 DEF e
<1>8. CASE ~OperationEndHandler /\ ~CreateNewFileHandler /\ ~RenameHandler /\ ~RenamePathHandler
  <2>1. requested' = requested /\ cause' = cause
    BY <1>8 DEF Callback, NameCreateHandler, NameDeleteHandler, IgnoreForeignEvent,
                CreateOpenHandler, DiagnosticHandler, CloseHandler, monitorVars
  <2> QED  BY <1>2, <2>1
<1> QED  BY <1>4, <1>5, <1>6, <1>7, <1>8 DEF e

\* The history holds a path that is one of the object's.
LEMMA RecordedPathIsTrue ==
  ASSUME StreamInv, NamesAreTrue, RecordTruthful, intact, Callback
  PROVE  \A rec \in recorded' : rec.path \in rec.event.req.aliases
<1> DEFINE e == etw[1]
           r == e.req
<1>1. Delivery
  BY CallbackDelivers DEF StreamInv
<1>2. /\ e = Head(etw) /\ etw # <<>> /\ 1 \in DOMAIN etw /\ WellFormed(e)
  BY <1>1 DEF Delivery, StreamInv
<1> HIDE DEF e
<1>3. ASSUME NEW path, RecordFileEvent(e, path), path \in r.aliases
      PROVE  \A rec \in recorded' : rec.path \in rec.event.req.aliases
  <2>1. \A rec \in recorded : rec.path \in rec.event.req.aliases
    BY DEF RecordTruthful
  <2>2. \A rec \in {[event |-> e, path |-> path]} : rec.path \in rec.event.req.aliases
    BY <1>3
  <2> QED  BY <1>3, <2>1, <2>2 DEF RecordFileEvent
<1>4. CASE CreateOpenHandler \/ CreateNewFileHandler
  <2>1. RecordFileEvent(e, r.path)
    BY <1>2, <1>4 DEF CreateOpenHandler, CreateNewFileHandler
  <2> QED  BY <1>2, <1>3, <2>1 DEF WellFormed
<1>5. CASE DiagnosticHandler \/ CloseHandler \/ RenameHandler
  <2>1. RecordFileEvent(e, ResolveFilePath(r)) /\ ReliesOnName(e)
    BY <1>2, <1>5 DEF DiagnosticHandler, CloseHandler, RenameHandler, Deliver, ReliesOnName
  <2>2. ResolveFilePath(r) \in r.aliases
    BY <1>2, <2>1, NextNameIsTrue DEF e
  <2> QED  BY <1>3, <2>1, <2>2
<1>6. CASE RenamePathHandler
  <2>1. RecordFileEvent(e, r.new) /\ e.id = "RenamePath"
    BY <1>2, <1>6 DEF RenamePathHandler, Deliver
  <2> QED  BY <1>2, <1>3, <2>1 DEF WellFormed
<1>7. CASE NameCreateHandler \/ NameDeleteHandler \/ IgnoreForeignEvent \/ OperationEndHandler
  <2>1. recorded' = recorded
    BY <1>7 DEF NameCreateHandler, NameDeleteHandler, IgnoreForeignEvent, OperationEndHandler,
                monitorVars
  <2> QED  BY <2>1 DEF RecordTruthful
<1> QED  BY <1>4, <1>5, <1>6, <1>7 DEF Callback

LEMMA CallbackAlike ==
  ASSUME StreamInv, NamesAreTrue, CompletionsMatch, NamesAreAlike, Callback
  PROVE  NamesAreAlike'
<1>1. Delivery /\ Len(etw) \in Nat /\ DOMAIN etw = 1..Len(etw)
  BY CallbackDelivers, StreamLength DEF StreamInv
<1>2. Len(etw) \in 1..Len(etw) /\ Len(etw') = Len(etw) - 1 /\ DOMAIN etw' = 1..(Len(etw) - 1)
      /\ objs' = objs
  BY <1>1 DEF Delivery, kernelVars
<1>3. ASSUME NEW o, NEW path, NEW n \in 1..Len(etw),
             AlikeAfter(etw, objectPath, requested, o, n, path)
      PROVE  AlikeAfter(etw', objectPath', requested', o, n - 1, path)
  <2>1. CASE NameAfter(etw, objectPath, o, n, Alike(path))
    <3>1. NameAfter(etw', objectPath', o, n - 1, Alike(path))
      BY <2>1, DeliveredName
    <3> QED  BY <3>1 DEF AlikeAfter
  <2>2. CASE requested
    <3>1. requested'
      BY <2>2, CallbackKeepsRequest
    <3> QED  BY <3>1 DEF AlikeAfter, Overdue
  <2>3. ASSUME NEW m \in 1..n, ForbiddenRename(etw[m])
        PROVE  AlikeAfter(etw', objectPath', requested', o, n - 1, path)
    <3>1. CASE m = 1
      <4>1. requested'
        BY <2>3, <3>1, ForbiddenRenameRaises
      <4> QED  BY <4>1 DEF AlikeAfter, Overdue
    <3>2. CASE m # 1
      <4>1. m - 1 \in 1..(n - 1) /\ m - 1 \in 1..(Len(etw) - 1) /\ (m - 1) + 1 = m
        BY <1>1, <3>2
      <4>2. etw'[m - 1] = etw[m]
        BY <1>1, <4>1 DEF Delivery
      <4> QED  BY <2>3, <4>1, <4>2 DEF AlikeAfter, Overdue
    <3> QED  BY <3>1, <3>2
  <2> QED  BY <1>3, <2>1, <2>2, <2>3 DEF AlikeAfter, Overdue
<1>4. ASSUME NEW n \in DOMAIN etw', IsRename(etw'[n])
      PROVE  AlikeAfter(etw', objectPath', requested', etw'[n].req.obj, n - 1, etw'[n].req.path)
  <2>1. n \in 1..Len(etw) /\ etw'[n] = etw[n + 1] /\ n + 1 \in DOMAIN etw
    BY <1>1, <1>2 DEF Delivery
  <2>2. AlikeAfter(etw, objectPath, requested, etw[n + 1].req.obj, (n + 1) - 1,
                   etw[n + 1].req.path)
    BY <1>4, <2>1 DEF NamesAreAlike
  <2>3. (n + 1) - 1 = n
    BY <1>2
  <2>4. AlikeAfter(etw, objectPath, requested, etw'[n].req.obj, n, etw'[n].req.path)
    BY <2>1, <2>2, <2>3
  <2> QED  BY <1>3, <2>1, <2>4
<1>5. \A o \in DOMAIN objs : objs[o].by \in Monitored =>
        AlikeAfter(etw', objectPath', requested', o, Len(etw) - 1, objs[o].path)
  BY <1>2, <1>3 DEF NamesAreAlike
<1> QED  BY <1>2, <1>4, <1>5 DEF NamesAreAlike

------------------------------------------------------------------------------
(* The history variables tell the truth about the violations.              *)

LEMMA GrownAlertsAreDue ==
  ASSUME StreamInv, NEW l \in Nat, Grown(l), AlertsAreDue,
         requested' = requested, dirChanges' = dirChanges,
         \A n \in (Len(etw) + 1)..(Len(etw) + l) : Violation(etw'[n]) =>
           \E m \in (Len(etw) + 1)..(Len(etw) + l) : Decisive(etw'[m])
  PROVE  AlertsAreDue'
<1>1. Len(etw) \in Nat /\ DOMAIN etw = 1..Len(etw)
  BY StreamLength DEF StreamInv
<1>2. DOMAIN etw' = 1..(Len(etw) + l)
  BY LenProperties DEF Grown
<1>3. /\ \A n \in 1..Len(etw) : etw'[n] = etw[n] /\ n \in DOMAIN etw'
      /\ \A n \in (Len(etw) + 1)..(Len(etw) + l) : n \in DOMAIN etw'
      /\ \A n \in DOMAIN etw' : n \in 1..Len(etw) \/ n \in (Len(etw) + 1)..(Len(etw) + l)
  BY <1>1, <1>2 DEF Grown
<1>4. ASSUME NEW n \in DOMAIN etw', Violation(etw'[n]) PROVE owed'
  <2>1. CASE n \in 1..Len(etw)
    <3>1. owed
      BY <1>1, <1>3, <1>4, <2>1 DEF AlertsAreDue
    <3> QED  BY <3>1 DEF Grown
  <2>2. CASE n \in (Len(etw) + 1)..(Len(etw) + l)
    BY <1>4, <2>2 DEF Grown
  <2> QED  BY <1>3, <2>1, <2>2
<1>5. ASSUME dirChanges' = 0, owed'
      PROVE  requested' \/ \E n \in DOMAIN etw' : Decisive(etw'[n])
  <2>1. CASE owed
    BY <1>1, <1>3, <1>5, <2>1 DEF AlertsAreDue
  <2>2. CASE ~owed
    <3>1. \E n \in (Len(etw) + 1)..(Len(etw) + l) : Violation(etw'[n])
      BY <1>5, <2>2 DEF Grown
    <3> QED  BY <1>3, <3>1
  <2> QED  BY <2>1, <2>2
<1> QED  BY <1>4, <1>5 DEF AlertsAreDue

LEMMA KernelAlerts ==
  ASSUME StreamInv, AlertsAreDue, Kernel, intact'
  PROVE  AlertsAreDue'
<1>0. Len(etw) \in Nat /\ DOMAIN etw = 1..Len(etw) /\ etw \in Seq(Events) /\ TypeOK
  BY StreamLength DEF StreamInv, TypeOK
<1>1. ASSUME NEW p \in Pids, NEW i \in Irps, NEW o \in Objects, NEW x \in Paths,
             NEW d \in BOOLEAN, StartOpen(p, i, o, x, d)
      PROVE  AlertsAreDue'
  <2>1. PICK r \in Requests : Grown(1) /\ Says(etw'[Len(etw) + 1], "Create", r)
    BY <1>0, <1>1, StartOpenLogs
  <2>2. requested' = requested /\ dirChanges' = dirChanges
    BY <1>1 DEF StartOpen, monitorVars
  <2>3. \A n \in (Len(etw) + 1)..(Len(etw) + 1) : ~Violation(etw'[n])
    BY <1>0, <2>1 DEF Says, Violation
  <2> QED  BY <2>1, <2>2, <2>3, GrownAlertsAreDue
<1>2. ASSUME NEW i \in Irps, FailOpen(i) PROVE AlertsAreDue'
  <2> DEFINE e == etw'[Len(etw) + 1]
  <2>1. Grown(1) /\ e.id = "OperationEnd" /\ ~e.ok
    BY <1>0, <1>2, FailOpenLogs
  <2>2. requested' = requested /\ dirChanges' = dirChanges
    BY <1>2 DEF FailOpen, monitorVars
  <2>3. ~Violation(e)
    BY <2>1 DEF Violation
  <2>4. \A n \in (Len(etw) + 1)..(Len(etw) + 1) : ~Violation(etw'[n])
    BY <1>0, <2>3
  <2> QED  BY <2>1, <2>2, <2>4, GrownAlertsAreDue
<1>3. ASSUME NEW i \in Irps, NEW k \in Keys, NEW new \in BOOLEAN, CompleteOpen(i, k, new)
      PROVE  AlertsAreDue'
  <2>1. PICK r \in Requests, l \in 1..3 :
           /\ Grown(l) /\ Says(etw'[Len(etw) + l], "OperationEnd", r)
           /\ \A n \in (Len(etw) + 1)..(Len(etw) + l - 1) :
                \/ Says(etw'[n], "NameCreate", r)
                \/ Says(etw'[n], "CreateNewFile", r)
    BY <1>0, <1>3, CompleteOpenLogs
  <2>2. requested' = requested /\ dirChanges' = dirChanges /\ l \in Nat
    BY <1>3 DEF CompleteOpen, monitorVars
  <2>3. ASSUME NEW n \in (Len(etw) + 1)..(Len(etw) + l), Violation(etw'[n])
        PROVE  Decisive(etw'[Len(etw) + l])
    <3>1. n = Len(etw) + l \/ n \in (Len(etw) + 1)..(Len(etw) + l - 1)
      BY <1>0
    <3>2. PICK id \in {"NameCreate", "CreateNewFile", "OperationEnd"} : Says(etw'[n], id, r)
      BY <2>1, <3>1
    <3> QED  BY <2>1, <2>3, <3>2 DEF Says, Violation, Decisive
  <2>4. Len(etw) + l \in (Len(etw) + 1)..(Len(etw) + l)
    BY <1>0
  <2> QED  BY <2>1, <2>2, <2>3, <2>4, GrownAlertsAreDue
<1>4. ASSUME NEW p \in Pids, NEW i \in Irps, NEW o \in Objects, UseFile(p, i, o)
      PROVE  AlertsAreDue'
  <2>1. PICK r \in Requests :
           /\ OfHandle(r, "io", p, i, o) /\ Grown(2)
           /\ Says(etw'[Len(etw) + 1], "Io", r)
           /\ Says(etw'[Len(etw) + 2], "OperationEnd", r)
    BY <1>0, <1>4, UseFileLogs
  <2>2. requested' = requested /\ dirChanges' = dirChanges
    BY <1>4 DEF UseFile, monitorVars
  <2>3. \A n \in (Len(etw) + 1)..(Len(etw) + 2) :
          etw'[n].id \in {"Io", "OperationEnd"} /\ etw'[n].req = r
    BY <1>0, <2>1 DEF Says
  <2>4. \A n \in (Len(etw) + 1)..(Len(etw) + 2) : ~Violation(etw'[n])
    BY <2>1, <2>3 DEF Violation, OfHandle
  <2> QED  BY <2>1, <2>2, <2>4, GrownAlertsAreDue
<1>5. ASSUME NEW p \in Pids, NEW i \in Irps, NEW o \in Objects, NEW x \in Paths,
             NEW ok \in BOOLEAN, RenameFile(p, i, o, x, ok)
      PROVE  AlertsAreDue'
  <2> DEFINE e == etw'[Len(etw) + 3]
             f == etw'[Len(etw) + 2]
  <2>1. PICK r \in Requests :
           /\ o \in DOMAIN objs /\ MayUse(p, o) /\ i \notin DOMAIN opens
           /\ objs' = [objs EXCEPT ![o].path = IF ok THEN x ELSE @, ![o].aliases = @ \cup {x}]
           /\ OfHandle(r, "rename", p, i, o) /\ r.new = x /\ Grown(3)
           /\ r.aliases = objs[o].aliases \cup {x}
           /\ Says(etw'[Len(etw) + 1], "Rename", r)
           /\ Says(f, "RenamePath", r)
           /\ e.id = "OperationEnd" /\ e.pid = p /\ e.req = r
           /\ e.file = (r.path \notin dirs)
    BY <1>0, <1>5, RenameFileLogs
  <2>2. requested' = requested /\ dirChanges' = dirChanges
    BY <1>5 DEF RenameFile, monitorVars
  <2>3. ASSUME NEW n \in (Len(etw) + 1)..(Len(etw) + 3), Violation(etw'[n])
        PROVE  Decisive(f)
    <3>1. ~Violation(e)
      BY <2>1 DEF Violation, OfHandle
    <3>2. n = Len(etw) + 1 \/ n = Len(etw) + 2 \/ n = Len(etw) + 3
      BY <1>0
    <3>3. n = Len(etw) + 1 \/ n = Len(etw) + 2
      BY <2>3, <3>1, <3>2
    <3> QED  BY <2>1, <2>3, <3>3 DEF Says, Violation, Decisive
  <2>4. Len(etw) + 2 \in (Len(etw) + 1)..(Len(etw) + 3)
    BY <1>0
  <2> QED  BY <2>1, <2>2, <2>3, <2>4, GrownAlertsAreDue
<1>6. ASSUME NEW p \in Pids, NEW i \in Irps, NEW o \in Objects, CloseFile(p, i, o)
      PROVE  AlertsAreDue'
  <2>1. PICK r \in Requests :
           /\ OfHandle(r, "close", p, i, o) /\ Grown(2)
           /\ Says(etw'[Len(etw) + 1], "Close", r)
           /\ Says(etw'[Len(etw) + 2], "OperationEnd", r)
    BY <1>0, <1>6, CloseFileLogs
  <2>2. requested' = requested /\ dirChanges' = dirChanges
    BY <1>6 DEF CloseFile, monitorVars
  <2>3. \A n \in (Len(etw) + 1)..(Len(etw) + 2) :
          etw'[n].id \in {"Close", "OperationEnd"} /\ etw'[n].req = r
    BY <1>0, <2>1 DEF Says
  <2>4. \A n \in (Len(etw) + 1)..(Len(etw) + 2) : ~Violation(etw'[n])
    BY <2>1, <2>3 DEF Violation, OfHandle
  <2> QED  BY <2>1, <2>2, <2>4, GrownAlertsAreDue
<1>7. ASSUME NEW p \in Pids, NEW k \in Keys, ForgetName(p, k) PROVE AlertsAreDue'
  <2>1. PICK r \in Requests : Grown(1) /\ Says(etw'[Len(etw) + 1], "NameDelete", r)
    BY <1>0, <1>7, ForgetNameLogs
  <2>2. requested' = requested /\ dirChanges' = dirChanges
    BY <1>7 DEF ForgetName, monitorVars
  <2>3. \A n \in (Len(etw) + 1)..(Len(etw) + 1) : ~Violation(etw'[n])
    BY <1>0, <2>1 DEF Says, Violation
  <2> QED  BY <2>1, <2>2, <2>3, GrownAlertsAreDue
<1>8. ASSUME NEW x \in Paths, ChangeDirectory(x) PROVE AlertsAreDue'
  <2>1. etw' = etw /\ owed' = owed /\ dirChanges' # 0
    BY <1>0, <1>8 DEF ChangeDirectory, TypeOK
  <2> QED  BY <2>1 DEF AlertsAreDue
<1>9. ASSUME NEW l \in 1..Len(etw), LoseEvent(l) PROVE AlertsAreDue'
  <2>1. /\ etw' = Without(etw, l) /\ ~Correlates(etw[l]) /\ owed' = owed
        /\ dirChanges' = dirChanges /\ requested' = requested
    BY <1>9 DEF LoseEvent, Without, monitorVars
  <2>2. /\ DOMAIN etw' = 1..(Len(etw) - 1)
        /\ \A k \in 1..(Len(etw) - 1) : etw'[k] = IF k < l THEN etw[k] ELSE etw[k + 1]
    BY <1>0, <2>1, WithoutIsShorter, LenProperties
  <2>3. \A k \in DOMAIN etw' : \E n \in DOMAIN etw : etw'[k] = etw[n]
    BY <1>0, <2>1, WithoutIsWithin
  <2>4. ASSUME NEW n \in DOMAIN etw, Decisive(etw[n])
        PROVE  \E k \in DOMAIN etw' : Decisive(etw'[k])
    <3>1. n # l
      BY <2>1, <2>4 DEF Decisive, Violation, Correlates
    <3>2. CASE n < l
      <4>1. n \in DOMAIN etw' /\ etw'[n] = etw[n]
        BY <1>0, <2>2, <3>2
      <4> QED  BY <2>4, <4>1
    <3>3. CASE l < n
      <4>1. n - 1 \in 1..(Len(etw) - 1) /\ ~(n - 1 < l) /\ (n - 1) + 1 = n
        BY <1>0, <3>3
      <4>2. n - 1 \in DOMAIN etw' /\ etw'[n - 1] = etw[n]
        BY <2>2, <4>1
      <4> QED  BY <2>4, <4>2
    <3> QED  BY <1>0, <3>1, <3>2, <3>3
  <2> QED  BY <2>1, <2>3, <2>4 DEF AlertsAreDue
<1> QED  BY <1>1, <1>2, <1>3, <1>4, <1>5, <1>6, <1>7, <1>8, <1>9 DEF Kernel

LEMMA CallbackAlerts ==
  ASSUME StreamInv, NamesAreTrue, CompletionsMatch, NamesAreAlike, AlertsAreDue, Callback
  PROVE  AlertsAreDue'
<1>1. Delivery /\ Len(etw) \in Nat /\ DOMAIN etw = 1..Len(etw)
  BY CallbackDelivers, StreamLength DEF StreamInv
<1>2. DOMAIN etw' = 1..(Len(etw) - 1) /\ owed' = owed /\ dirChanges' = dirChanges
  BY <1>1 DEF Delivery, kernelVars
<1>3. \A k \in DOMAIN etw' : \E n \in DOMAIN etw : etw'[k] = etw[n]
  BY <1>1 DEF Delivery
<1>4. ASSUME dirChanges = 0, owed
      PROVE  requested' \/ \E n \in DOMAIN etw' : Decisive(etw'[n])
  <2>1. CASE requested
    BY <2>1, CallbackKeepsRequest
  <2>2. ASSUME NEW n \in DOMAIN etw, Decisive(etw[n])
        PROVE  requested' \/ \E k \in DOMAIN etw' : Decisive(etw'[k])
    <3>1. CASE n = 1
      BY <1>4, <2>2, <3>1, DecisiveRaises
    <3>2. CASE n # 1
      <4>1. n - 1 \in 1..(Len(etw) - 1) /\ (n - 1) + 1 = n
        BY <1>1, <3>2
      <4>2. n - 1 \in DOMAIN etw' /\ etw'[n - 1] = etw[n]
        BY <1>1, <1>2, <4>1 DEF Delivery
      <4> QED  BY <2>2, <4>2
    <3> QED  BY <3>1, <3>2
  <2> QED  BY <1>4, <2>1, <2>2 DEF AlertsAreDue
<1> QED  BY <1>2, <1>3, <1>4 DEF AlertsAreDue

------------------------------------------------------------------------------
(* The inductive invariant holds in every reachable state.                 *)

LEMMA InitMonitor == Init => MonitorInv
<1> SUFFICES ASSUME Init PROVE MonitorInv
  OBVIOUS
<1>1. StreamInv
  BY InitStream
<1>2. /\ etw = <<>> /\ DOMAIN etw = {} /\ Len(etw) = 0
      /\ DOMAIN opens = {} /\ DOMAIN objs = {} /\ DOMAIN pending = {}
      /\ owed = FALSE /\ cause = {} /\ recorded = {}
  BY EmptySeq, LenProperties DEF Init, EmptyMap
<1>3. NamesAreTrue
  BY <1>2 DEF NamesAreTrue
<1>4. CompletionsMatch
  BY <1>2, PendingNext DEF CompletionsMatch, Held
<1>5. NamesAreAlike /\ AlertsAreDue
  BY <1>2 DEF NamesAreAlike, AlertsAreDue
<1>6. AlertSound /\ RecordTruthful
  BY <1>2 DEF AlertSound, RecordTruthful
<1> QED  BY <1>1, <1>3, <1>4, <1>5, <1>6 DEF MonitorInv

\* What the kernel never does: touch the monitor, repair a loss, take an access back.
LEMMA KernelLeavesMonitor ==
  ASSUME TypeOK, Kernel
  PROVE  /\ cause' = cause /\ recorded' = recorded /\ requested' = requested
         /\ intact' => intact
         /\ dirChanges' = 0 => dirChanges = 0
         /\ owed' = owed \/ owed' = TRUE
         /\ intact' = intact \/ lost < MaxLost
         /\ dirChanges' = dirChanges \/ dirChanges < MaxDirChanges
<1> USE DEF monitorVars
<1>1. ASSUME NEW evs, Emit(evs) PROVE owed' = owed \/ owed' = TRUE
  <2>1. owed \in BOOLEAN
    BY DEF TypeOK
  <2>2. owed' = (owed \/ \E n \in DOMAIN evs : Violation(evs[n]))
    BY <1>1 DEF Emit
  <2>3. CASE \E n \in DOMAIN evs : Violation(evs[n])
    BY <2>2, <2>3
  <2>4. CASE ~\E n \in DOMAIN evs : Violation(evs[n])
    BY <2>1, <2>2, <2>4
  <2> QED  BY <2>3, <2>4
<1>2. ASSUME NEW p \in Pids, NEW i \in Irps, NEW o \in Objects, NEW x \in Paths,
             NEW d \in BOOLEAN, StartOpen(p, i, o, x, d)
      PROVE  (\E evs : Emit(evs)) /\ UNCHANGED <<monitorVars, intact, dirChanges>>
  BY <1>2 DEF StartOpen
<1>3. ASSUME NEW i \in Irps, FailOpen(i)
      PROVE  (\E evs : Emit(evs)) /\ UNCHANGED <<monitorVars, intact, dirChanges>>
  BY <1>3 DEF FailOpen
<1>4. ASSUME NEW i \in Irps, NEW k \in Keys, NEW n \in BOOLEAN, CompleteOpen(i, k, n)
      PROVE  (\E evs : Emit(evs)) /\ UNCHANGED <<monitorVars, intact, dirChanges>>
  BY <1>4 DEF CompleteOpen
<1>5. ASSUME NEW p \in Pids, NEW i \in Irps, NEW o \in Objects,
             UseFile(p, i, o) \/ CloseFile(p, i, o)
      PROVE  (\E evs : Emit(evs)) /\ UNCHANGED <<monitorVars, intact, dirChanges>>
  BY <1>5 DEF UseFile, CloseFile
<1>6. ASSUME NEW p \in Pids, NEW i \in Irps, NEW o \in Objects, NEW x \in Paths,
             NEW ok \in BOOLEAN, RenameFile(p, i, o, x, ok)
      PROVE  (\E evs : Emit(evs)) /\ UNCHANGED <<monitorVars, intact, dirChanges>>
  BY <1>6 DEF RenameFile
<1>7. ASSUME NEW p \in Pids, NEW k \in Keys, ForgetName(p, k)
      PROVE  (\E evs : Emit(evs)) /\ UNCHANGED <<monitorVars, intact, dirChanges>>
  BY <1>7 DEF ForgetName
<1>8. ASSUME NEW x \in Paths, ChangeDirectory(x)
      PROVE  UNCHANGED <<monitorVars, intact, owed>> /\ dirChanges' # 0
             /\ dirChanges < MaxDirChanges
  BY <1>8 DEF ChangeDirectory, TypeOK
<1>9. ASSUME NEW n \in 1..Len(etw), LoseEvent(n)
      PROVE  UNCHANGED <<monitorVars, owed, dirChanges>> /\ (intact' => intact)
             /\ lost < MaxLost
  BY <1>9 DEF LoseEvent
<1> QED  BY <1>1, <1>2, <1>3, <1>4, <1>5, <1>6, <1>7, <1>8, <1>9 DEF Kernel

LEMMA KernelMonitor ==
  ASSUME MonitorInv, Kernel
  PROVE  MonitorInv'
<1>1. /\ cause' = cause /\ recorded' = recorded
      /\ intact' => intact
      /\ dirChanges' = 0 => dirChanges = 0
  BY KernelLeavesMonitor DEF MonitorInv, StreamInv
<1>2. StreamInv'
  BY KernelStream DEF MonitorInv
<1>3. ASSUME intact'
      PROVE  NamesAreTrue' /\ CompletionsMatch' /\ NamesAreAlike' /\ AlertsAreDue'
  <2>1. intact
    BY <1>1, <1>3
  <2> QED
    BY <1>3, <2>1, KernelNames, KernelCompletions, KernelAlike, KernelAlerts DEF MonitorInv
<1>4. AlertSound' /\ RecordTruthful'
  BY <1>1 DEF MonitorInv, AlertSound, RecordTruthful
<1> QED  BY <1>2, <1>3, <1>4 DEF MonitorInv

LEMMA CallbackMonitor ==
  ASSUME MonitorInv, Callback
  PROVE  MonitorInv'
<1>1. Delivery
  BY CallbackDelivers DEF MonitorInv, StreamInv
<1>2. intact' = intact /\ dirChanges' = dirChanges
  BY <1>1 DEF Delivery, kernelVars
<1>3. StreamInv'
  BY CallbackStream DEF MonitorInv
<1>4. ASSUME intact
      PROVE  NamesAreTrue' /\ CompletionsMatch' /\ NamesAreAlike' /\ AlertsAreDue'
  BY <1>4, CallbackNamesAreTrue, CallbackCompletions, CallbackAlike, CallbackAlerts
     DEF MonitorInv
<1>5. ASSUME intact, dirChanges = 0 PROVE \A e \in cause' : Violation(e)
  <2>1. \A e \in cause : Violation(e)
    BY <1>5 DEF MonitorInv, AlertSound
  <2>2. CASE ~requested
    BY <1>5, <2>1, <2>2, RaisedByViolation DEF MonitorInv
  <2>3. CASE requested
    <3>1. cause' = cause
      BY <2>3 DEF Callback, NameCreateHandler, NameDeleteHandler, IgnoreForeignEvent,
                  CreateOpenHandler, OperationEndHandler, CreateNewFileHandler,
                  DiagnosticHandler, CloseHandler, RenameHandler, RenamePathHandler, React,
                  monitorVars
    <3> QED  BY <2>1, <3>1
  <2> QED  BY <2>2, <2>3
<1>6. ASSUME intact PROVE \A rec \in recorded' : rec.path \in rec.event.req.aliases
  BY <1>6, RecordedPathIsTrue DEF MonitorInv
<1>7. AlertSound'
  <2>1. intact /\ dirChanges = 0 => \A e \in cause' : Violation(e)
    BY <1>5
  <2> QED  BY <1>2, <2>1 DEF AlertSound, Violation
<1>8. RecordTruthful'
  BY <1>2, <1>6 DEF RecordTruthful
<1> QED  BY <1>2, <1>3, <1>4, <1>7, <1>8 DEF MonitorInv

LEMMA StutterMonitor ==
  ASSUME MonitorInv, UNCHANGED vars
  PROVE  MonitorInv'
BY DEF vars, kernelVars, monitorVars, MonitorInv, StreamInv, TypeOK, KernelOK, NamesAreTrue,
       CompletionsMatch, NamesAreAlike, AlertsAreDue, AlertSound, RecordTruthful

\* The invariant is inductive: what the tables will hold when an event is due is right,
\* as long as no event they are built from has been lost.
THEOREM MonitorInvariant == Spec => []MonitorInv
<1>1. MonitorInv /\ [Next]_vars => MonitorInv'
  BY KernelMonitor, CallbackMonitor, StutterMonitor DEF Next
<1> QED  BY InitMonitor, <1>1, PTL DEF Spec

------------------------------------------------------------------------------
(* What follows for the program.                                           *)

\* Every variable has its type; the tables hold addresses the kernel uses and paths.
THEOREM TypeCorrect == Spec => []TypeOK
<1>1. MonitorInv => TypeOK
  BY DEF MonitorInv, StreamInv
<1> QED  BY MonitorInvariant, <1>1, PTL

\* The request is raised by a violation and by nothing else, however the kernel reuses
\* IRPs and file objects and however far the callback lags behind.
THEOREM AlertsAreSound == Spec => []AlertSound
<1>1. MonitorInv => AlertSound
  BY DEF MonitorInv
<1> QED  BY MonitorInvariant, <1>1, PTL

\* Once every logged event has been handled, an access has raised the request.
THEOREM AlertsAreComplete == Spec => []NoMissedAlert
<1>1. MonitorInv => NoMissedAlert
  <2> SUFFICES ASSUME MonitorInv, intact, dirChanges = 0, etw = <<>>, owed PROVE requested
    BY DEF NoMissedAlert
  <2>1. DOMAIN etw = {}
    BY EmptySeq, LenProperties DEF MonitorInv, StreamInv, TypeOK
  <2> QED  BY <2>1 DEF MonitorInv, AlertsAreDue
<1> QED  BY MonitorInvariant, <1>1, PTL

\* An entry of the correlation table outlives neither its IRP nor its completion.
THEOREM TableDoesNotLeak == Spec => []PendingIsOpen
<1>1. MonitorInv => PendingIsOpen
  <2> SUFFICES ASSUME MonitorInv, intact, NEW i \in DOMAIN pending, i \notin DOMAIN opens
               PROVE  \E n \in DOMAIN etw : etw[n].id = "OperationEnd" /\ etw[n].req.irp = i
    BY DEF PendingIsOpen
  <2> DEFINE moves == [m \in DOMAIN etw |-> PendingMove(etw[m], i)]
  <2>1. i \in Irps /\ DOMAIN etw = 1..Len(etw)
    BY StreamLength DEF MonitorInv, StreamInv, TypeOK, IsMap
  <2>2. Settles(moves, Held(pending, i), Len(etw), {{}})
    BY <2>1 DEF MonitorInv, CompletionsMatch, PendingAfter
  <2>3. Held(pending, i) \notin {{}}
    BY DEF Held
  <2>4. PICK m \in 1..Len(etw) : moves[m].does /\ moves[m].to \in {{}}
    BY <2>2, <2>3 DEF Settles
  <2>5. PendingMove(etw[m], i).does /\ PendingMove(etw[m], i).to = {}
    BY <2>1, <2>4
  <2>6. TrackedOpen(etw[m].req) /\ etw[m].req.irp = i /\ etw[m].id \in {"Create", "OperationEnd"}
    BY <2>5 DEF PendingMove
  <2>7. etw[m].id # "Create"
    BY <2>5, <2>6 DEF PendingMove, Capture
  <2> QED  BY <2>1, <2>6, <2>7
<1> QED  BY MonitorInvariant, <1>1, PTL

\* The path stored with a file event is one its file object had or was asked to take.
THEOREM RecordsAreTrue == Spec => []RecordTruthful
<1>1. MonitorInv => RecordTruthful
  BY DEF MonitorInv
<1> QED  BY MonitorInvariant, <1>1, PTL

------------------------------------------------------------------------------
(* The monitor implements the policy, as far as steps go.                  *)

\* While no event the tables need has been lost and no directory has changed, a step
\* of the monitor is a step of the policy: an access is committed, or the request is
\* raised once, after one.  That it is raised in the end is checked by TLC.
LEMMA StepImplementsPolicy ==
  ASSUME MonitorInv, [Next]_vars, intact', dirChanges' = 0
  PROVE  [Policy!Next]_Policy!vars
<1> USE DEF Policy!Next, Policy!Commit, Policy!Raise, Policy!vars
<1>1. CASE Kernel
  <2>1. requested' = requested /\ (owed' = owed \/ owed' = TRUE)
    BY <1>1, KernelLeavesMonitor DEF MonitorInv, StreamInv
  <2> QED  BY <2>1
<1>2. CASE Callback
  <2>1. Delivery
    BY <1>2, CallbackDelivers DEF MonitorInv, StreamInv
  <2>2. owed' = owed /\ intact /\ dirChanges = 0 /\ 1 \in DOMAIN etw
    BY <2>1 DEF Delivery, kernelVars
  <2>3. CASE requested
    <3>1. requested' /\ requested' \in BOOLEAN /\ requested \in BOOLEAN
      BY <1>2, <2>3, CallbackKeepsRequest, CallbackTyped DEF MonitorInv, StreamInv, TypeOK
    <3> QED  BY <2>2, <2>3, <3>1
  <2>4. CASE ~requested
    <3>1. \/ requested' = FALSE
          \/ requested' = TRUE /\ Violation(etw[1])
      BY <1>2, <2>2, <2>4, RaisedByViolation DEF MonitorInv
    <3>2. Violation(etw[1]) => owed
      BY <2>2 DEF MonitorInv, AlertsAreDue
    <3>3. requested = FALSE
      BY <2>4 DEF MonitorInv, StreamInv, TypeOK
    <3> QED  BY <2>2, <3>1, <3>2, <3>3
  <2> QED  BY <2>3, <2>4
<1>3. CASE UNCHANGED vars
  BY <1>3 DEF vars, kernelVars, monitorVars
<1> QED  BY <1>1, <1>2, <1>3 DEF Next

THEOREM StepsImplementPolicy ==
  Spec => Policy!Init /\ [][intact' /\ dirChanges' = 0 => [Policy!Next]_Policy!vars]_vars
<1>1. Init => Policy!Init
  BY DEF Init, Policy!Init
<1>2. MonitorInv /\ [Next]_vars => [intact' /\ dirChanges' = 0 => [Policy!Next]_Policy!vars]_vars
  BY StepImplementsPolicy
<1> QED  BY <1>1, <1>2, MonitorInvariant, PTL DEF Spec

\* Without losses and without such changes that is every step.
THEOREM PolicyStepsHold ==
  ASSUME MaxLost = 0, MaxDirChanges = 0
  PROVE  Spec => Policy!Init /\ [][Policy!Next]_Policy!vars
<1> DEFINE Whole == MonitorInv /\ intact = TRUE /\ dirChanges = 0
<1>1. Init => Whole /\ Policy!Init
  BY InitMonitor DEF Init, Policy!Init
<1>2. Whole /\ [Next]_vars => Whole'
  <2> SUFFICES ASSUME Whole, [Next]_vars PROVE Whole'
    OBVIOUS
  <2>1. MonitorInv'
    BY KernelMonitor, CallbackMonitor, StutterMonitor DEF Next
  <2>2. CASE Kernel
    <3>1. lost \in Nat /\ TypeOK
      BY DEF MonitorInv, StreamInv, TypeOK
    <3>2. intact' = intact \/ lost < MaxLost
      BY <2>2, <3>1, KernelLeavesMonitor
    <3>3. dirChanges' = dirChanges \/ dirChanges < MaxDirChanges
      BY <2>2, <3>1, KernelLeavesMonitor
    <3>4. ~(lost < MaxLost)
      BY <3>1
    <3>5. ~(dirChanges < MaxDirChanges)
      OBVIOUS
    <3> QED  BY <2>1, <3>2, <3>3, <3>4, <3>5
  <2>3. CASE Callback
    BY <2>1, <2>3, CallbackDelivers DEF MonitorInv, StreamInv, Delivery, kernelVars
  <2>4. CASE UNCHANGED vars
    BY <2>1, <2>4 DEF vars, kernelVars
  <2> QED  BY <2>2, <2>3, <2>4 DEF Next
<1>3. Whole /\ Whole' /\ [Next]_vars => [Policy!Next]_Policy!vars
  BY StepImplementsPolicy
<1> HIDE DEF Whole
<1> QED  BY <1>1, <1>2, <1>3, PTL DEF Spec
==============================================================================
