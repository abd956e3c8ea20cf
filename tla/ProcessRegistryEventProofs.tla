---------------------- MODULE ProcessRegistryEventProofs ----------------------
(***************************************************************************)
(* What the store says of processes that run, and which entry an event is  *)
(* credited to, although events are handled late and ids are reused.       *)
(*                                                                         *)
(* The inductive invariant is about the order in which things wait in the  *)
(* trace: an event of a process stands before the one of its end, and all  *)
(* events of a process stand before those of the next holder of its id.    *)
(***************************************************************************)
EXTENDS ProcessRegistryProofs

USE ProcessRegistryAssumption

------------------------------------------------------------------------------
(* The inductive invariant.                                                *)

Ends(e, l) == e.kind = "stop" /\ e.birth = l

Unmaps(e, l, base) == Ends(e, l) \/ (e.kind = "unload" /\ e.birth = l /\ e.base = base)

\* The end of process l, or of one of its images, is still in the trace, behind
\* the n-th event.
EndAfter(l, n) == \E m \in DOMAIN etw : m > n /\ Ends(etw[m], l)

UnmapAfter(l, base, n) == \E m \in DOMAIN etw : m > n /\ Unmaps(etw[m], l, base)

\* Of two processes with one id, the earlier one is gone.
IdsReturn == \A l, m \in Births : l < m /\ life[l].pid = life[m].pid => life[l].state = "gone"

EventsInOrder ==
  \A n, m \in DOMAIN etw : n < m /\ etw[n].pid = etw[m].pid => etw[n].birth <= etw[m].birth

\* Event e waits at place n: every process with its id that has ended since then
\* is still to be reported as ended, and an image it loads is mapped or still to be
\* reported as unmapped.
EndsFollow(e, n) ==
  \A l \in Births :
    life[l].pid = e.pid /\ l >= e.birth /\ ~Running(l) => EndAfter(l, n) \/ Ends(e, l)

LoadHolds(e, n) ==
  e.kind = "load" => e.base \in life[e.birth].images \/ UnmapAfter(e.birth, e.base, n)

Traced(e, n) == EndsFollow(e, n) /\ LoadHolds(e, n)

EventsTraced == \A n \in DOMAIN etw : Traced(etw[n], n)

\* Before the trace is open there is only the root, and nothing is recorded.
RootOnly ==
  /\ etw = <<>> /\ DOMAIN store = {}
  /\ \A l \in Births : l = 1 /\ Running(l) /\ life[l].inJob

Busy == handler.pc \in {"enrich", "register", "update"}

AboutImage == handler.event.kind \in {"load", "unload"}

\* The event in the handler stands before all that are still in the trace, and a
\* process is read from the living only when its id has no entry.
HandlerInOrder ==
  /\ handler.event.birth \in Births
  /\ life[handler.event.birth].pid = handler.event.pid
  /\ handler.event.kind # "stop"
  /\ Traced(handler.event, 0)
  /\ \A n \in DOMAIN etw :
       etw[n].pid = handler.event.pid => handler.event.birth <= etw[n].birth
  /\ handler.pc # "enrich" /\ handler.birth # 0 => handler.birth >= handler.event.birth
  /\ ~AboutImage => handler.pc = "register" /\ handler.birth = handler.event.birth
  /\ AboutImage /\ handler.pc # "update" => EntriesOf(handler.event.pid) = {}
  /\ handler.pc = "update" =>
       \A k \in EntriesOf(handler.event.pid) : store[k].birth = handler.birth

HandlerInv == (handler.pc = "bootstrap" => RootOnly) /\ (Busy => HandlerInOrder)

\* An entry marked running is that of a running process, or its stop event waits.
RunningOrEnds ==
  \A k \in DOMAIN store :
    store[k].running /\ ~Running(store[k].birth) => EndAfter(store[k].birth, 0)

RunningAreOfJob ==
  \A k \in DOMAIN store : Running(store[k].birth) => life[store[k].birth].inJob

ImagesHold ==
  \A k \in DOMAIN store : \A i \in store[k].loaded :
    i.owner = store[k].birth => i.base \in life[i.owner].images \/ UnmapAfter(i.owner, i.base, 0)

\* Entry k is that of a later process with the id of entry j.
LaterHolder(k, j) == store[k].pid = store[j].pid /\ store[k].birth > store[j].birth

\* While events of a process wait, a later holder of its id has an entry only if it
\* got that entry first; and then no image is credited to the earlier process.
OvertakenOnly ==
  \A n \in DOMAIN etw : \A j, k \in DOMAIN store :
    store[j].birth = etw[n].birth /\ LaterHolder(k, j) => k < j

OvertakenAreEmpty ==
  \A j, k \in DOMAIN store : LaterHolder(k, j) /\ k < j => store[j].loaded = {}

TraceInOrder == IdsReturn /\ EventsInOrder /\ EventsTraced

StoreInOrder ==
  RunningOrEnds /\ RunningAreOfJob /\ ImagesHold /\ OvertakenOnly /\ OvertakenAreEmpty

EventInv == TraceInOrder /\ HandlerInv /\ StoreInOrder

------------------------------------------------------------------------------
(* The trace grows at its end and shrinks at its front.                    *)

LEMMA Places ==
  ASSUME TypeOK
  PROVE  /\ Births = 1..Len(life) /\ Len(life) \in Nat
         /\ \A l \in Births : life[l] \in Lifetimes /\ l \in Nat \ {0}
         /\ DOMAIN etw = 1..Len(etw) /\ Len(etw) \in Nat
         /\ \A n \in DOMAIN etw : etw[n] \in Logs /\ n \in Nat \ {0}
         /\ \A k \in DOMAIN store : store[k] \in Entries /\ k \in Nat /\ k < nextKey
<1>1. Births = 1..Len(life) /\ Len(life) \in Nat /\ \A l \in Births : life[l] \in Lifetimes
  BY ElementOfSeq, LenProperties DEF TypeOK, Births
<1>2. DOMAIN etw = 1..Len(etw) /\ Len(etw) \in Nat /\ \A n \in DOMAIN etw : etw[n] \in Logs
  BY ElementOfSeq, LenProperties DEF TypeOK
<1>3. \A k \in DOMAIN store : store[k] \in Entries /\ k \in Nat /\ k < nextKey
  BY DEF TypeOK
<1> QED  BY <1>1, <1>2, <1>3

LEMMA Appended ==
  ASSUME TypeOK, NEW e \in Logs, etw' = Append(etw, e)
  PROVE  /\ DOMAIN etw' = DOMAIN etw \cup {Len(etw) + 1}
         /\ \A n \in DOMAIN etw : etw'[n] = etw[n] /\ n < Len(etw) + 1
         /\ etw'[Len(etw) + 1] = e /\ Len(etw) \in Nat
<1>1. DOMAIN etw = 1..Len(etw) /\ Len(etw) \in Nat
  BY Places
<1>2. /\ Len(etw') = Len(etw) + 1 /\ etw' \in Seq(Logs)
      /\ \A n \in 1..Len(etw) : etw'[n] = etw[n]
      /\ etw'[Len(etw) + 1] = e
  BY AppendProperties DEF TypeOK
<1>3. DOMAIN etw' = 1..(Len(etw) + 1)
  BY <1>2, LenProperties
<1> QED  BY <1>1, <1>2, <1>3

\* Whatever waits stays in place when an event is logged, and the new event is
\* behind all places.
LEMMA AppendKeeps ==
  ASSUME TypeOK, NEW e \in Logs, etw' = Append(etw, e), NEW n \in Nat, n <= Len(etw)
  PROVE  /\ \A l : EndAfter(l, n) \/ Ends(e, l) => EndAfter(l, n)'
         /\ \A l, b : UnmapAfter(l, b, n) \/ Unmaps(e, l, b) => UnmapAfter(l, b, n)'
<1>1. /\ \A m \in DOMAIN etw : m \in DOMAIN etw' /\ etw'[m] = etw[m]
      /\ Len(etw) + 1 \in DOMAIN etw' /\ etw'[Len(etw) + 1] = e /\ Len(etw) + 1 > n
  BY Appended
<1> QED  BY <1>1 DEF EndAfter, UnmapAfter

LEMMA TailPlaces ==
  ASSUME TypeOK, NEW kinds, Receive(kinds)
  PROVE  /\ \A n \in DOMAIN etw' : etw'[n] = etw[n + 1] /\ n + 1 \in DOMAIN etw /\ n \in Nat \ {0}
         /\ \A n \in DOMAIN etw : n = 1 \/ (n - 1 \in DOMAIN etw' /\ etw'[n - 1] = etw[n])
         /\ Head(etw) = etw[1] /\ 1 \in DOMAIN etw /\ Head(etw) \in Logs
         /\ Head(etw).kind \in kinds /\ life' = life
<1>1. DOMAIN etw = 1..Len(etw) /\ Len(etw) \in Nat
  BY Places
<1>2. etw # <<>> /\ etw' = Tail(etw) /\ Head(etw).kind \in kinds
  BY DEF Receive
<1>3. /\ DOMAIN etw' = 1..(Len(etw) - 1)
      /\ \A n \in 1..(Len(etw) - 1) : etw'[n] = etw[n + 1]
  BY <1>2, HeadTailProperties, LenProperties DEF TypeOK
<1> QED  BY <1>1, <1>2, <1>3, Receiving

\* What waits behind place n waits behind place n - 1 once the head is taken.
LEMMA TailKeeps ==
  ASSUME TypeOK, NEW kinds, Receive(kinds), NEW n \in Nat
  PROVE  /\ \A l : EndAfter(l, n + 1) => EndAfter(l, n)'
         /\ \A l, b : UnmapAfter(l, b, n + 1) => UnmapAfter(l, b, n)'
<1>1. \A m \in DOMAIN etw : m > n + 1 => m - 1 \in DOMAIN etw' /\ m - 1 > n /\ etw'[m - 1] = etw[m]
  BY TailPlaces, Places
<1> QED  BY <1>1 DEF EndAfter, UnmapAfter

\* What waits at all still waits, unless it was the head.
LEMMA HeadLeaves ==
  ASSUME TypeOK, NEW kinds, Receive(kinds)
  PROVE  /\ \A l : EndAfter(l, 0) => EndAfter(l, 0)' \/ Ends(Head(etw), l)
         /\ \A l, b : UnmapAfter(l, b, 0) => UnmapAfter(l, b, 0)' \/ Unmaps(Head(etw), l, b)
         /\ \A l, b : EndAfter(l, 1) => EndAfter(l, 0)' /\ UnmapAfter(l, b, 0)'
<1>1. \A m \in DOMAIN etw : m = 1 \/ (m - 1 \in DOMAIN etw' /\ m - 1 > 0 /\ etw'[m - 1] = etw[m])
  BY TailPlaces, Places
<1>2. Head(etw) = etw[1]
  BY TailPlaces
<1>3. \A l, b : EndAfter(l, 0)' => UnmapAfter(l, b, 0)'
  BY DEF EndAfter, UnmapAfter, Unmaps
<1>4. \A l : EndAfter(l, 1) => EndAfter(l, 0)'
  BY <1>1 DEF EndAfter
<1> QED  BY <1>1, <1>2, <1>3, <1>4 DEF EndAfter, UnmapAfter

------------------------------------------------------------------------------
(* The operating system logs an event about the process that changes.      *)

\* Event e is logged, about a process that is running, or starting, and that is the
\* only one left of all that had its id.
LogStep(e) ==
  /\ e \in Logs /\ etw' = Append(etw, e)
  /\ UNCHANGED <<store, handler>> /\ handler.pc # "bootstrap"
  /\ Births \subseteq Births' /\ e.birth \in Births' /\ life'[e.birth].pid = e.pid
  /\ \A l \in Births' : l # e.birth => l \in Births /\ life'[l] = life[l]
  /\ \A l \in Births' : l # e.birth /\ life'[l].pid = e.pid
                          => l < e.birth /\ life[l].state = "gone"
  /\ ~Running(e.birth)' => e.kind = "stop"
  /\ e.kind = "load" => e.base \in life'[e.birth].images
  /\ e.birth \in Births =>
       /\ life'[e.birth].inJob = life[e.birth].inJob
       /\ Running(e.birth) /\ life[e.birth].pid = e.pid
       /\ \A b \in life[e.birth].images :
            b \in life'[e.birth].images \/ Unmaps(e, e.birth, b)

LEMMA OthersGone ==
  ASSUME TypeOK, IdsReturn, NEW l \in Births, Running(l)
  PROVE  \A m \in Births : m # l /\ life[m].pid = life[l].pid => m < l /\ life[m].state = "gone"
<1> SUFFICES ASSUME NEW m \in Births, m # l, life[m].pid = life[l].pid
             PROVE  m < l /\ life[m].state = "gone"
  OBVIOUS
<1>1. l \in Nat /\ m \in Nat
  BY Places
<1>2. ~(l < m)
  BY DEF IdsReturn, Running
<1> QED  BY <1>1, <1>2 DEF IdsReturn

LEMMA SpawnLogs ==
  ASSUME TypeOK, IdsReturn, NEW pid \in Pids, NEW inJob \in BOOLEAN, Spawn(pid, inJob)
  PROVE  \E e \in Logs : LogStep(e)
<1> DEFINE start == [kind |-> "start", pid |-> pid, birth |-> Len(life) + 1, base |-> 0]
<1>1. /\ Births = 1..Len(life) /\ Len(life) \in Nat
      /\ Births' = 1..(Len(life) + 1)
      /\ \A l \in Births : life'[l] = life[l]
      /\ life'[Len(life) + 1] = Process(pid, inJob)
  BY Places, AppendProperties, LenProperties DEF Spawn, Process, Lifetimes, TypeOK, Births
<1>2. PICK e \in Logs : e = start
  <2>1. start \in Logs
    BY <1>1 DEF Logs
  <2> QED  BY <2>1, Zenon
<1>3. e.kind = "start" /\ e.pid = pid /\ e.birth = Len(life) + 1 /\ e.birth \notin Births
  BY <1>1, <1>2
<1>4. /\ etw' = Append(etw, e) /\ UNCHANGED <<store, handler>> /\ handler.pc # "bootstrap"
      /\ Holders(pid) = {}
  BY <1>2 DEF Spawn, Log, Started
<1>5. \A l \in Births : life[l].pid = pid => life[l].state = "gone"
  BY <1>4 DEF Holders
<1>6. \A l \in Births' : l # e.birth => l \in Births /\ l < e.birth
  BY <1>1, <1>3
<1>7. Births \subseteq Births' /\ e.birth \in Births'
  BY <1>1, <1>3
<1>8. Running(e.birth)' /\ life'[e.birth].pid = e.pid
  BY <1>1, <1>3 DEF Running, Process
<1> QED  BY <1>1, <1>3, <1>4, <1>5, <1>6, <1>7, <1>8 DEF LogStep

LEMMA ExitLogs ==
  ASSUME TypeOK, IdsReturn, NEW l \in Births, Exit(l)
  PROVE  \E e \in Logs : LogStep(e)
<1>lives. life[l] \in Lifetimes /\ l \in Nat
  BY Places
<1>1. PICK e \in Logs : e = Logged("stop", l, 0)
  <2>1. Logged("stop", l, 0) \in Logs
    BY <1>lives DEF Logged, Logs, Lifetimes
  <2> QED  BY <2>1, Zenon
<1>2. e.kind = "stop" /\ e.pid = life[l].pid /\ e.birth = l
  BY <1>1 DEF Logged
<1>3. /\ etw' = Append(etw, e) /\ UNCHANGED <<store, handler>> /\ handler.pc # "bootstrap"
      /\ Running(l)
  BY <1>1 DEF Exit, Log, Started
<1>4. /\ Births' = Births
      /\ \A m \in Births : m # l => life'[m] = life[m]
      /\ life'[l] = [life[l] EXCEPT !.state = "zombie", !.images = {}]
  BY DEF Exit, Births, TypeOK
<1>5. life'[l].pid = life[l].pid /\ life'[l].inJob = life[l].inJob
  BY <1>4, <1>lives DEF Lifetimes
<1>6. \A m \in Births : m # l /\ life[m].pid = e.pid => m < l /\ life[m].state = "gone"
  BY <1>2, <1>3, OthersGone
<1>7. \A b \in life[l].images : Unmaps(e, l, b)
  BY <1>2 DEF Unmaps, Ends
<1>8. Births' = Births /\ \A m \in Births : m # l => life'[m] = life[m]
  BY <1>4
<1> QED  BY <1>2, <1>3, <1>5, <1>6, <1>7, <1>8 DEF LogStep

LEMMA ActLogs ==
  ASSUME TypeOK, IdsReturn, NEW l \in Births,
         NEW kind \in {"rundown", "file", "load", "unload"}, NEW base \in Bases \cup {0},
         Act(l, kind, base)
  PROVE  \E e \in Logs : LogStep(e)
<1>lives. life[l] \in Lifetimes /\ l \in Nat
  BY Places
<1>1. PICK e \in Logs : e = Logged(kind, l, base)
  <2>1. Logged(kind, l, base) \in Logs
    BY <1>lives DEF Logged, Logs, Lifetimes
  <2> QED  BY <2>1, Zenon
<1>2. e.kind = kind /\ e.pid = life[l].pid /\ e.birth = l /\ e.base = base
  BY <1>1 DEF Logged
<1>3. /\ etw' = Append(etw, e) /\ UNCHANGED <<store, handler>> /\ handler.pc # "bootstrap"
      /\ Running(l)
  BY <1>1 DEF Act, Log, Started
<1> DEFINE new == IF kind = "load" THEN life[l].images \cup {base}
                  ELSE IF kind = "unload" THEN life[l].images \ {base} ELSE life[l].images
<1>4. life' = [life EXCEPT ![l] = [life[l] EXCEPT !.images = new]]
  BY DEF Act
<1>5. kind = "load" => base \in new
  OBVIOUS
<1>6. \A b \in life[l].images : b \in new \/ (kind = "unload" /\ b = base)
  OBVIOUS
<1> HIDE DEF new
<1>7. /\ Births' = Births
      /\ \A m \in Births : m # l => life'[m] = life[m]
      /\ life'[l] = [life[l] EXCEPT !.images = new]
  BY <1>4 DEF Births, TypeOK
<1>8. /\ life'[l].pid = life[l].pid /\ life'[l].inJob = life[l].inJob
      /\ life'[l].state = life[l].state /\ life'[l].images = new
  BY <1>7, <1>lives DEF Lifetimes
<1>9. \A m \in Births : m # l /\ life[m].pid = e.pid => m < l /\ life[m].state = "gone"
  BY <1>2, <1>3, OthersGone
<1>10. \A b \in life[l].images : b \in life'[l].images \/ Unmaps(e, l, b)
  BY <1>2, <1>6, <1>8 DEF Unmaps
<1>11. Running(l)'
  BY <1>3, <1>8 DEF Running
<1>12. e.kind = "load" => e.base \in life'[l].images
  BY <1>2, <1>5, <1>8
<1>13. Births' = Births /\ \A m \in Births : m # l => life'[m] = life[m]
  BY <1>7
<1> QED  BY <1>2, <1>3, <1>8, <1>9, <1>10, <1>11, <1>12, <1>13 DEF LogStep

\* What is held about process l is held by the next state too.
LEMMA LogKeepsEnds ==
  ASSUME TypeOK, NEW e \in Logs, LogStep(e), NEW n \in Nat, n <= Len(etw),
         NEW f, f.birth \in Births, EndsFollow(f, n)
  PROVE  EndsFollow(f, n)'
<1> SUFFICES ASSUME NEW l \in Births', life'[l].pid = f.pid, l >= f.birth, ~Running(l)'
             PROVE  EndAfter(l, n)' \/ Ends(f, l)
  BY DEF EndsFollow
<1>1. CASE l = e.birth
  BY <1>1, AppendKeeps DEF LogStep, Ends
<1>2. CASE l # e.birth
  <2>1. l \in Births /\ life'[l] = life[l]
    BY <1>2 DEF LogStep
  <2>2. EndAfter(l, n) \/ Ends(f, l)
    BY <2>1 DEF EndsFollow, Running
  <2> QED  BY <2>2, AppendKeeps DEF LogStep
<1> QED  BY <1>1, <1>2

LEMMA LogKeepsImages ==
  ASSUME TypeOK, NEW e \in Logs, LogStep(e), NEW n \in Nat, n <= Len(etw),
         NEW l \in Births, NEW b, b \in life[l].images \/ UnmapAfter(l, b, n)
  PROVE  b \in life'[l].images \/ UnmapAfter(l, b, n)'
<1>1. CASE UnmapAfter(l, b, n)
  BY <1>1, AppendKeeps DEF LogStep
<1>2. CASE b \in life[l].images /\ l # e.birth
  BY <1>2 DEF LogStep
<1>3. CASE b \in life[l].images /\ l = e.birth
  BY <1>3, AppendKeeps DEF LogStep
<1> QED  BY <1>1, <1>2, <1>3

LEMMA LogKeepsTraced ==
  ASSUME TypeOK, NEW e \in Logs, LogStep(e), NEW n \in Nat, n <= Len(etw),
         NEW f, f.birth \in Births, Traced(f, n)
  PROVE  Traced(f, n)'
<1>1. EndsFollow(f, n)'
  BY LogKeepsEnds DEF Traced
<1>2. LoadHolds(f, n)'
  BY LogKeepsImages DEF Traced, LoadHolds
<1> QED  BY <1>1, <1>2 DEF Traced

LEMMA LogKeepsTrace ==
  ASSUME TypeOK, EventsTruthful, TraceInOrder, NEW e \in Logs, LogStep(e)
  PROVE  TraceInOrder'
<1>1. IdsReturn'
  <2> SUFFICES ASSUME NEW l \in Births', NEW m \in Births', l < m, life'[l].pid = life'[m].pid
               PROVE  life'[l].state = "gone"
    BY DEF IdsReturn
  <2>0. l \in Nat /\ m \in Nat /\ e.birth \in Nat /\ \A k \in Births' : k \in Nat
    <3>1. \A k \in Births' : k \in Births \/ k = e.birth
      BY DEF LogStep
    <3>2. e.birth \in Nat
      BY DEF Logs
    <3> QED  BY <3>1, <3>2, Places
  <2>1. CASE m = e.birth
    <3>1. l # e.birth /\ life'[l].pid = e.pid
      BY <2>0, <2>1 DEF LogStep
    <3> QED  BY <3>1 DEF LogStep
  <2>2. CASE m # e.birth
    <3>1. l # e.birth
      BY <2>0, <2>2 DEF LogStep
    <3> QED  BY <2>2, <3>1 DEF LogStep, TraceInOrder, IdsReturn
  <2> QED  BY <2>1, <2>2
<1>places. /\ DOMAIN etw' = DOMAIN etw \cup {Len(etw) + 1}
           /\ \A n \in DOMAIN etw : etw'[n] = etw[n] /\ n < Len(etw) + 1 /\ n \in Nat
           /\ etw'[Len(etw) + 1] = e /\ Len(etw) \in Nat
  BY Appended, Places DEF LogStep
<1>2. EventsInOrder'
  <2> SUFFICES ASSUME NEW n \in DOMAIN etw', NEW m \in DOMAIN etw', n < m,
                      etw'[n].pid = etw'[m].pid
               PROVE  etw'[n].birth <= etw'[m].birth
    BY DEF EventsInOrder
  <2>1. n \in DOMAIN etw
    BY <1>places
  <2>2. CASE m \in DOMAIN etw
    BY <2>1, <2>2, <1>places DEF TraceInOrder, EventsInOrder
  <2>3. CASE m = Len(etw) + 1
    <3>1. /\ etw'[n] = etw[n] /\ etw'[m] = e /\ etw[n].birth \in Births
          /\ life[etw[n].birth].pid = e.pid
      BY <2>1, <2>3, <1>places DEF EventsTruthful, Truthful
    <3>2. etw[n].birth \in Births' /\ (etw[n].birth # e.birth =>
             life'[etw[n].birth] = life[etw[n].birth])
      BY <3>1 DEF LogStep
    <3>3. etw[n].birth # e.birth => etw[n].birth < e.birth
      BY <3>1, <3>2 DEF LogStep
    <3>4. etw[n].birth \in Nat /\ e.birth \in Nat
      BY <3>1, Places DEF Logs
    <3> QED  BY <3>1, <3>3, <3>4
  <2> QED  BY <2>2, <2>3, <1>places
<1>3. EventsTraced'
  <2> SUFFICES ASSUME NEW n \in DOMAIN etw' PROVE Traced(etw[n], n)'
    BY DEF EventsTraced
  <2>0. ASSUME NEW f, f = etw'[n], Traced(f, n)' PROVE Traced(etw[n], n)'
    BY <2>0 DEF Traced, EndsFollow, LoadHolds
  <2>1. CASE n \in DOMAIN etw
    <3>1. /\ etw'[n] = etw[n] /\ etw[n].birth \in Births /\ Traced(etw[n], n)
          /\ n \in Nat /\ n <= Len(etw) /\ etw[n] \in Logs
      BY <2>1, <1>places, Places DEF EventsTruthful, Truthful, TraceInOrder, EventsTraced
    <3>2. PICK f \in Logs : f = etw[n]
      BY <3>1
    <3>3. f.birth \in Births /\ Traced(f, n)
      BY <3>1, <3>2
    <3>4. Traced(f, n)'
      BY <3>1, <3>3, LogKeepsTraced
    <3> QED  BY <3>1, <3>2, <3>4, <2>0
  <2>2. CASE n = Len(etw) + 1
    <3>1. etw'[n] = e
      BY <2>2, <1>places
    <3>2. EndsFollow(e, n)'
      <4> SUFFICES ASSUME NEW l \in Births', life'[l].pid = e.pid, l >= e.birth, ~Running(l)'
                   PROVE  Ends(e, l)
        BY DEF EndsFollow
      <4>1. e.birth \in Nat /\ (l # e.birth => l \in Nat /\ l < e.birth)
        BY Places DEF LogStep, Logs
      <4>2. l = e.birth
        BY <4>1
      <4> QED  BY <4>2 DEF LogStep, Ends
    <3>3. LoadHolds(e, n)'
      BY DEF LogStep, LoadHolds
    <3>4. Traced(e, n)'
      BY <3>2, <3>3 DEF Traced
    <3> QED  BY <3>1, <3>4, <2>0
  <2> QED  BY <2>1, <2>2, <1>places
<1> QED  BY <1>1, <1>2, <1>3 DEF TraceInOrder

LEMMA LogKeepsHandler ==
  ASSUME TypeOK, TruthInv, HandlerInv, NEW e \in Logs, LogStep(e)
  PROVE  HandlerInv'
<1> SUFFICES ASSUME Busy PROVE HandlerInOrder'
  BY DEF HandlerInv, LogStep, Busy
<1>1. HandlerInOrder /\ handler' = handler /\ store' = store
  BY DEF HandlerInv, LogStep
<1>2. PICK f \in Logs : f = handler.event
  BY DEF TypeOK
<1>3. f.birth \in Births /\ life[f.birth].pid = f.pid /\ Traced(f, 0)
  BY <1>1, <1>2 DEF HandlerInOrder
<1>4. f.birth \in Births' /\ life'[f.birth].pid = f.pid
  BY <1>3 DEF LogStep
<1>5. Traced(f, 0)'
  BY <1>3, Places, LogKeepsTraced
<1>6. Traced(handler.event, 0)'
  BY <1>1, <1>2, <1>5 DEF Traced, EndsFollow, LoadHolds
<1>7. \A n \in DOMAIN etw' : etw'[n].pid = f.pid => f.birth <= etw'[n].birth
  <2> SUFFICES ASSUME NEW n \in DOMAIN etw', etw'[n].pid = f.pid PROVE f.birth <= etw'[n].birth
    OBVIOUS
  <2>1. n \in DOMAIN etw => etw'[n] = etw[n]
    BY Appended DEF LogStep
  <2>2. n \notin DOMAIN etw => etw'[n] = e
    BY Appended DEF LogStep
  <2>3. f.pid = e.pid => f.birth <= e.birth
    <3>1. f.birth \in Nat /\ e.birth \in Nat
      BY DEF Logs
    <3>2. f.pid = e.pid /\ f.birth # e.birth => f.birth < e.birth
      BY <1>4 DEF LogStep
    <3> QED  BY <3>1, <3>2
  <2>4. n \in DOMAIN etw => f.birth <= etw'[n].birth
    BY <2>1, <1>1, <1>2 DEF HandlerInOrder
  <2> QED  BY <2>2, <2>3, <2>4
<1>8. /\ AboutImage' = AboutImage /\ f = handler'.event
      /\ EntriesOf(handler.event.pid)' = EntriesOf(handler.event.pid)
  BY <1>1, <1>2 DEF AboutImage, EntriesOf
<1> QED  BY <1>1, <1>2, <1>3, <1>4, <1>6, <1>7, <1>8 DEF HandlerInOrder

LEMMA LogKeepsStore ==
  ASSUME TypeOK, TruthInv, StoreInOrder, NEW e \in Logs, LogStep(e)
  PROVE  StoreInOrder'
<1>store. store' = store /\ \A k \in DOMAIN store : store[k].birth \in Births
  BY DEF LogStep, TruthInv, StoreTruthful
<1>zero. 0 \in Nat /\ 0 <= Len(etw)
  BY Places
<1>1. RunningOrEnds'
  <2> SUFFICES ASSUME NEW k \in DOMAIN store, store[k].running, ~Running(store[k].birth)'
               PROVE  EndAfter(store[k].birth, 0)'
    BY <1>store DEF RunningOrEnds, Running, EndAfter
  <2>1. PICK l \in Births : l = store[k].birth
    BY <1>store
  <2>2. ~Running(l)'
    BY <2>1, <1>store DEF Running
  <2>3. EndAfter(l, 0)'
    <3>1. CASE l = e.birth
      BY <2>2, <3>1, <1>zero, AppendKeeps DEF LogStep, Ends
    <3>2. CASE l # e.birth
      <4>1. l \in Births /\ life'[l] = life[l]
        BY <3>2 DEF LogStep
      <4>2. EndAfter(l, 0)
        BY <2>1, <2>2, <4>1 DEF StoreInOrder, RunningOrEnds, Running
      <4> QED  BY <4>2, <1>zero, AppendKeeps DEF LogStep
    <3> QED  BY <3>1, <3>2
  <2> QED  BY <2>1, <2>3, <1>store DEF EndAfter
<1>2. RunningAreOfJob'
  <2> SUFFICES ASSUME NEW k \in DOMAIN store, Running(store[k].birth)'
               PROVE  life'[store[k].birth].inJob
    BY <1>store DEF RunningAreOfJob, Running
  <2>1. PICK l \in Births : l = store[k].birth
    BY <1>store
  <2>2. Running(l) => life[l].inJob
    BY <2>1 DEF StoreInOrder, RunningAreOfJob
  <2>3. Running(l)'
    BY <2>1, <1>store DEF Running
  <2>4. Running(l) /\ life'[l].inJob = life[l].inJob
    BY <2>3 DEF LogStep, Running
  <2> QED  BY <2>1, <2>2, <2>4
<1>3. ImagesHold'
  <2> SUFFICES ASSUME NEW k \in DOMAIN store, NEW i \in store[k].loaded,
                      i.owner = store[k].birth
               PROVE  i.base \in life'[i.owner].images \/ UnmapAfter(i.owner, i.base, 0)'
    BY <1>store DEF ImagesHold
  <2>1. i.base \in life[i.owner].images \/ UnmapAfter(i.owner, i.base, 0)
    BY DEF StoreInOrder, ImagesHold
  <2> QED  BY <2>1, <1>store, <1>zero, LogKeepsImages
<1>4. OvertakenOnly'
  <2> SUFFICES ASSUME NEW n \in DOMAIN etw', NEW j \in DOMAIN store, NEW k \in DOMAIN store,
                      store[j].birth = etw'[n].birth, LaterHolder(k, j)
               PROVE  k < j
    BY <1>store DEF OvertakenOnly, LaterHolder
  <2>1. CASE n \in DOMAIN etw
    BY <2>1, Appended DEF LogStep, StoreInOrder, OvertakenOnly
  <2>2. CASE n \notin DOMAIN etw
    <3>1. etw'[n] = e
      BY <2>2, Appended DEF LogStep
    <3>2. /\ store[j].birth = e.birth /\ store[k].birth \in Births /\ store[k].birth \in Nat
          /\ life[store[k].birth].pid = store[k].pid /\ life[store[j].birth].pid = store[j].pid
      BY <3>1, Places DEF TruthInv, StoreTruthful
    <3>3. e.birth \in Births /\ life[e.birth].pid = e.pid /\ e.birth \in Nat
      BY <3>2, <1>store, Places DEF LogStep
    <3>4. store[k].birth # e.birth /\ ~(store[k].birth < e.birth)
      BY <3>2, <3>3 DEF LaterHolder
    <3>5. life'[store[k].birth].pid = e.pid /\ store[k].birth \in Births'
      BY <3>2, <3>3, <3>4 DEF LogStep, LaterHolder
    <3> QED  BY <3>4, <3>5 DEF LogStep
  <2> QED  BY <2>1, <2>2
<1>5. OvertakenAreEmpty'
  BY <1>store DEF StoreInOrder, OvertakenAreEmpty, LaterHolder
<1> QED  BY <1>1, <1>2, <1>3, <1>4, <1>5 DEF StoreInOrder

\* A step that changes neither the trace nor what runs, is mapped or is recorded.
LEMMA QuietStep ==
  ASSUME TypeOK, TruthInv, EventInv, UNCHANGED <<etw, store, handler>>, Births' = Births,
         \A l \in Births :
           /\ life'[l].pid = life[l].pid /\ life'[l].inJob = life[l].inJob
           /\ life'[l].images = life[l].images /\ (Running(l)' <=> Running(l))
           /\ life[l].state = "gone" => life'[l].state = "gone"
  PROVE  EventInv'
<1>after. \A l, b, n : /\ EndAfter(l, n)' <=> EndAfter(l, n)
                       /\ UnmapAfter(l, b, n)' <=> UnmapAfter(l, b, n)
  BY DEF EndAfter, UnmapAfter
<1>traced. ASSUME NEW f, f.birth \in Births, NEW n, Traced(f, n) PROVE Traced(f, n)'
  <2>1. EndsFollow(f, n)'
    BY <1>after, <1>traced DEF Traced, EndsFollow
  <2>2. LoadHolds(f, n)'
    BY <1>after, <1>traced DEF Traced, LoadHolds
  <2> QED  BY <2>1, <2>2 DEF Traced
<1>1. TraceInOrder'
  <2>1. IdsReturn' /\ EventsInOrder'
    BY DEF EventInv, TraceInOrder, IdsReturn, EventsInOrder
  <2>2. EventsTraced'
    <3> SUFFICES ASSUME NEW n \in DOMAIN etw PROVE Traced(etw[n], n)'
      BY DEF EventsTraced
    <3>1. PICK f : f = etw[n]
      OBVIOUS
    <3>2. f.birth \in Births /\ Traced(f, n)
      BY <3>1 DEF TruthInv, EventsTruthful, Truthful, EventInv, TraceInOrder, EventsTraced
    <3>3. Traced(f, n)'
      BY <3>2, <1>traced
    <3> QED  BY <3>1, <3>3 DEF Traced, EndsFollow, LoadHolds
  <2> QED  BY <2>1, <2>2 DEF TraceInOrder
<1>2. HandlerInv'
  <2>1. handler.pc = "bootstrap" => RootOnly'
    <3>1. handler.pc = "bootstrap" => RootOnly
      BY DEF EventInv, HandlerInv
    <3> QED  BY <3>1 DEF RootOnly
  <2>2. ASSUME Busy PROVE HandlerInOrder'
    <3>1. HandlerInOrder
      BY <2>2 DEF EventInv, HandlerInv
    <3>2. PICK f : f = handler.event
      OBVIOUS
    <3>3. Traced(f, 0)'
      BY <3>1, <3>2, <1>traced DEF HandlerInOrder
    <3>4. Traced(handler.event, 0)'
      BY <3>2, <3>3 DEF Traced, EndsFollow, LoadHolds
    <3>5. AboutImage' = AboutImage /\ EntriesOf(handler.event.pid)' = EntriesOf(handler.event.pid)
      BY DEF AboutImage, EntriesOf
    <3> QED  BY <3>1, <3>4, <3>5 DEF HandlerInOrder
  <2> QED  BY <2>1, <2>2 DEF HandlerInv, Busy
<1>3. StoreInOrder'
  <2>births. \A k \in DOMAIN store : store[k].birth \in Births
    BY DEF TruthInv, StoreTruthful
  <2>1. RunningOrEnds'
    <3> SUFFICES ASSUME NEW k \in DOMAIN store, store[k].running, ~Running(store[k].birth)'
                 PROVE  EndAfter(store[k].birth, 0)'
      BY DEF RunningOrEnds
    <3>1. PICK l \in Births : l = store[k].birth
      BY <2>births
    <3>2. ~Running(l)
      BY <3>1 DEF Running
    <3>3. EndAfter(l, 0)'
      BY <3>1, <3>2, <1>after DEF EventInv, StoreInOrder, RunningOrEnds
    <3> QED  BY <3>1, <3>3 DEF EndAfter
  <2>2. RunningAreOfJob'
    <3> SUFFICES ASSUME NEW k \in DOMAIN store, Running(store[k].birth)'
                 PROVE  life'[store[k].birth].inJob
      BY DEF RunningAreOfJob
    <3>1. PICK l \in Births : l = store[k].birth
      BY <2>births
    <3>2. Running(l)
      BY <3>1 DEF Running
    <3> QED  BY <3>1, <3>2 DEF EventInv, StoreInOrder, RunningAreOfJob
  <2>3. ImagesHold'
    <3> SUFFICES ASSUME NEW k \in DOMAIN store, NEW i \in store[k].loaded, i.owner = store[k].birth
                 PROVE  i.base \in life'[i.owner].images \/ UnmapAfter(i.owner, i.base, 0)'
      BY DEF ImagesHold
    <3>1. i.base \in life[i.owner].images \/ UnmapAfter(i.owner, i.base, 0)
      BY DEF EventInv, StoreInOrder, ImagesHold
    <3> QED  BY <3>1, <2>births, <1>after
  <2>4. OvertakenOnly' /\ OvertakenAreEmpty'
    BY DEF EventInv, StoreInOrder, OvertakenOnly, OvertakenAreEmpty, LaterHolder
  <2> QED  BY <2>1, <2>2, <2>3, <2>4 DEF StoreInOrder
<1> QED  BY <1>1, <1>2, <1>3 DEF EventInv

LEMMA LogKeeps ==
  ASSUME TypeOK, TruthInv, EventInv, NEW e \in Logs, LogStep(e)
  PROVE  EventInv'
<1>1. TraceInOrder'
  BY LogKeepsTrace DEF TruthInv, EventInv
<1>2. HandlerInv'
  BY LogKeepsHandler DEF EventInv
<1>3. StoreInOrder'
  BY LogKeepsStore DEF EventInv
<1> QED  BY <1>1, <1>2, <1>3 DEF EventInv

\* The operating system and the monitor thread keep the order of events.
LEMMA SystemKeeps ==
  ASSUME TypeOK, TruthInv, EventInv, OperatingSystem \/ MonitorJob \/ UNCHANGED vars
  PROVE  EventInv'
<1>0. IdsReturn
  BY DEF EventInv, TraceInOrder
<1>1. ASSUME NEW pid \in Pids, NEW inJob \in BOOLEAN, Spawn(pid, inJob)
      PROVE  EventInv'
  BY <1>0, <1>1, SpawnLogs, LogKeeps
<1>2. ASSUME NEW l \in Births, Exit(l)
      PROVE  EventInv'
  BY <1>0, <1>2, ExitLogs, LogKeeps
<1>3. ASSUME NEW l \in Births, NEW kind \in {"rundown", "file", "load", "unload"},
             NEW base \in Bases \cup {0}, Act(l, kind, base)
      PROVE  EventInv'
  BY <1>0, <1>3, ActLogs, LogKeeps
<1>4. ASSUME NEW l \in Births, Reap(l)
      PROVE  EventInv'
  <2>1. life' = [life EXCEPT ![l] = [life[l] EXCEPT !.state = "gone"]]
    BY <1>4 DEF Reap
  <2>2. /\ Births' = Births
        /\ \A m \in Births : m # l => life'[m] = life[m]
        /\ life'[l] = [life[l] EXCEPT !.state = "gone"]
    BY <2>1 DEF Births, TypeOK
  <2>3. /\ life'[l].pid = life[l].pid /\ life'[l].inJob = life[l].inJob
        /\ life'[l].images = life[l].images /\ life'[l].state = "gone"
        /\ life[l].state = "zombie"
    BY <1>4, <2>2, Places DEF Lifetimes, Reap
  <2>4. \A m \in Births :
           /\ life'[m].pid = life[m].pid /\ life'[m].inJob = life[m].inJob
           /\ life'[m].images = life[m].images /\ (Running(m)' <=> Running(m))
           /\ life[m].state = "gone" => life'[m].state = "gone"
    <3> SUFFICES ASSUME NEW m \in Births
                 PROVE  /\ life'[m].pid = life[m].pid /\ life'[m].inJob = life[m].inJob
                        /\ life'[m].images = life[m].images /\ (Running(m)' <=> Running(m))
                        /\ life[m].state = "gone" => life'[m].state = "gone"
      OBVIOUS
    <3>1. CASE m = l
      BY <2>3, <3>1 DEF Running
    <3>2. CASE m # l
      BY <2>2, <3>2 DEF Running
    <3> QED  BY <3>1, <3>2
  <2>5. UNCHANGED <<etw, store, handler>> /\ Births' = Births
    BY <1>4, <2>2 DEF Reap
  <2> QED  BY <2>4, <2>5, QuietStep
<1>5. CASE MonitorJob \/ UNCHANGED vars
  <2>1. UNCHANGED <<life, etw, store, handler>>
    BY <1>5 DEF MonitorJob, vars, osVars
  <2>2. Births' = Births
    BY <2>1 DEF Births
  <2> QED  BY <2>1, <2>2, QuietStep DEF Running
<1>6. CASE OperatingSystem
  BY <1>6, <1>1, <1>2, <1>3, <1>4 DEF OperatingSystem, Pids
<1> QED  BY <1>5, <1>6

------------------------------------------------------------------------------
(* The trace thread takes events and fills the store.                      *)

\* Taking the oldest event keeps the order of the others.
LEMMA TakingKeepsTrace ==
  ASSUME TypeOK, TruthInv, TraceInOrder, NEW kinds, Receive(kinds)
  PROVE  TraceInOrder'
<1>life. life' = life /\ Births' = Births
  BY TailPlaces DEF Births
<1>1. IdsReturn'
  BY <1>life DEF TraceInOrder, IdsReturn
<1>2. EventsInOrder'
  <2> SUFFICES ASSUME NEW n \in DOMAIN etw', NEW m \in DOMAIN etw', n < m,
                      etw'[n].pid = etw'[m].pid
               PROVE  etw'[n].birth <= etw'[m].birth
    BY DEF EventsInOrder
  <2>1. /\ etw'[n] = etw[n + 1] /\ n + 1 \in DOMAIN etw
        /\ etw'[m] = etw[m + 1] /\ m + 1 \in DOMAIN etw /\ n + 1 < m + 1
    BY TailPlaces
  <2> QED  BY <2>1 DEF TraceInOrder, EventsInOrder
<1>3. EventsTraced'
  <2> SUFFICES ASSUME NEW n \in DOMAIN etw' PROVE Traced(etw[n], n)'
    BY DEF EventsTraced
  <2>1. etw'[n] = etw[n + 1] /\ n + 1 \in DOMAIN etw /\ n \in Nat
    BY TailPlaces
  <2>2. PICK f : f = etw[n + 1]
    OBVIOUS
  <2>3. Traced(f, n + 1)
    BY <2>1, <2>2 DEF TraceInOrder, EventsTraced
  <2>4. EndsFollow(f, n)' /\ LoadHolds(f, n)'
    BY <2>1, <2>3, <1>life, TailKeeps DEF Traced, EndsFollow, LoadHolds, Running
  <2> QED  BY <2>1, <2>2, <2>4 DEF Traced, EndsFollow, LoadHolds
<1> QED  BY <1>1, <1>2, <1>3 DEF TraceInOrder

LEMMA SameTraceKeeps ==
  ASSUME TraceInOrder, UNCHANGED <<life, etw>>
  PROVE  TraceInOrder'
BY DEF TraceInOrder, IdsReturn, EventsInOrder, EventsTraced, Traced, EndsFollow, LoadHolds,
   EndAfter, UnmapAfter, Births, Running

\* The event that is taken is traced in the handler as it was in front of the trace.
LEMMA HeadIsTraced ==
  ASSUME TypeOK, TruthInv, TraceInOrder, NEW kinds, Receive(kinds), NEW e, e = Head(etw)
  PROVE  /\ e \in Logs /\ e.kind \in kinds
         /\ e.birth \in Births /\ life[e.birth].pid = e.pid
         /\ Traced(e, 1) /\ Traced(e, 0)'
         /\ \A n \in DOMAIN etw' : etw'[n].pid = e.pid => e.birth <= etw'[n].birth
<1>1. e \in Logs
  BY TailPlaces
<1>2. e.kind \in kinds /\ e = etw[1] /\ 1 \in DOMAIN etw /\ life' = life /\ Births' = Births
  BY TailPlaces DEF Births
<1>3. e.birth \in Births /\ life[e.birth].pid = e.pid
  BY <1>2 DEF TruthInv, EventsTruthful, Truthful
<1>4. Traced(e, 1)
  BY <1>2 DEF TraceInOrder, EventsTraced
<1>5. EndsFollow(e, 0)' /\ LoadHolds(e, 0)'
  <2>1. /\ \A l : EndAfter(l, 0 + 1) => EndAfter(l, 0)'
        /\ \A l, b : UnmapAfter(l, b, 0 + 1) => UnmapAfter(l, b, 0)'
    BY TailKeeps
  <2> QED  BY <1>2, <1>4, <2>1 DEF Traced, EndsFollow, LoadHolds, Running
<1>6. \A n \in DOMAIN etw' : etw'[n].pid = e.pid => e.birth <= etw'[n].birth
  <2> SUFFICES ASSUME NEW n \in DOMAIN etw', etw'[n].pid = e.pid
               PROVE  e.birth <= etw'[n].birth
    OBVIOUS
  <2>1. etw'[n] = etw[n + 1] /\ n + 1 \in DOMAIN etw /\ 1 < n + 1
    BY TailPlaces, Places
  <2> QED  BY <1>2, <2>1 DEF TraceInOrder, EventsInOrder
<1>7. Traced(e, 0)'
  BY <1>5 DEF Traced
<1> QED  BY <1>1, <1>2, <1>3, <1>4, <1>6, <1>7

\* An event that is taken leaves the store true, if nothing in the store waited for it.
LEMMA TakingKeepsStore ==
  ASSUME TypeOK, TruthInv, TraceInOrder, StoreInOrder, NEW kinds, Receive(kinds), store' = store,
         \A k \in DOMAIN store : store[k].birth = Head(etw).birth =>
            /\ Head(etw).kind = "stop" => ~store[k].running /\ store[k].loaded = {}
            /\ Head(etw).kind = "unload" => store[k].loaded = {} \/ ~Running(store[k].birth)
  PROVE  StoreInOrder'
<1>head. PICK e \in Logs : e = Head(etw)
  BY TailPlaces
<1>life. life' = life /\ \A l : Running(l)' <=> Running(l)
  BY TailPlaces DEF Running
<1>1. RunningOrEnds'
  <2> SUFFICES ASSUME NEW k \in DOMAIN store, store[k].running, ~Running(store[k].birth)
               PROVE  EndAfter(store[k].birth, 0)'
    BY <1>life DEF RunningOrEnds
  <2>1. PICK l : l = store[k].birth
    OBVIOUS
  <2>2. EndAfter(l, 0)
    BY <2>1 DEF StoreInOrder, RunningOrEnds
  <2>3. ~Ends(Head(etw), l)
    BY <2>1 DEF Ends
  <2>4. EndAfter(l, 0)'
    BY <2>2, <2>3, HeadLeaves
  <2> QED  BY <2>1, <2>4 DEF EndAfter
<1>2. RunningAreOfJob'
  BY <1>life DEF StoreInOrder, RunningAreOfJob
<1>3. ImagesHold'
  <2> SUFFICES ASSUME NEW k \in DOMAIN store, NEW i \in store[k].loaded,
                      i.owner = store[k].birth
               PROVE  i.base \in life[i.owner].images \/ UnmapAfter(i.owner, i.base, 0)'
    BY <1>life DEF ImagesHold
  <2>1. i.base \in life[i.owner].images \/ UnmapAfter(i.owner, i.base, 0)
    BY DEF StoreInOrder, ImagesHold
  <2>2. CASE UnmapAfter(i.owner, i.base, 0) /\ Unmaps(Head(etw), i.owner, i.base)
    <3>1. e.birth = store[k].birth /\ e.kind \in {"stop", "unload"}
      BY <1>head, <2>2 DEF Unmaps, Ends
    <3>2. e.kind = "unload" /\ ~Running(e.birth)
      BY <1>head, <3>1
    <3>3. EndsFollow(e, 1) /\ e.birth \in Births /\ life[e.birth].pid = e.pid
      BY <1>head, HeadIsTraced DEF Traced
    <3>4. EndAfter(e.birth, 1)
      BY <3>2, <3>3, Places DEF EndsFollow, Ends
    <3> QED  BY <3>1, <3>4, HeadLeaves
  <2> QED  BY <2>1, <2>2, HeadLeaves
<1>4. OvertakenOnly'
  <2> SUFFICES ASSUME NEW n \in DOMAIN etw', NEW j \in DOMAIN store, NEW k \in DOMAIN store,
                      store[j].birth = etw'[n].birth, LaterHolder(k, j)
               PROVE  k < j
    BY DEF OvertakenOnly, LaterHolder
  <2> QED  BY TailPlaces DEF StoreInOrder, OvertakenOnly
<1>5. OvertakenAreEmpty'
  BY DEF StoreInOrder, OvertakenAreEmpty, LaterHolder
<1> QED  BY <1>1, <1>2, <1>3, <1>4, <1>5 DEF StoreInOrder

\* Whoever has the id of a running process is that process, so it is judged itself.
LEMMA RunningIsJudged ==
  ASSUME TypeOK, IdsReturn, NEW l \in Births, Running(l),
         NEW verdict \in BOOLEAN, IsProcessInJob(life[l].pid, verdict)
  PROVE  verdict <=> life[l].inJob
<1>1. \A m \in Births : m # l /\ life[m].pid = life[l].pid => life[m].state = "gone"
  BY OthersGone
<1>2. Holders(life[l].pid) = {l}
  BY <1>1 DEF Holders, Running
<1>3. life[l].pid \in RunningJobPids <=> life[l].inJob
  <2>1. life[l].inJob => life[l].pid \in RunningJobPids
    BY DEF RunningJobPids
  <2>2. ASSUME NEW m \in Births, life[m].inJob, Running(m), life[m].pid = life[l].pid
        PROVE  life[l].inJob
    BY <1>1, <2>2 DEF Running
  <2> QED  BY <2>1, <2>2 DEF RunningJobPids
<1>4. life[l].inJob \in BOOLEAN
  BY Places DEF Lifetimes
<1> QED  BY <1>2, <1>3, <1>4 DEF IsProcessInJob, EndedJobPid

LEMMA BootstrapKeeps ==
  ASSUME TypeOK, TruthInv, EventInv, BootstrapRootProcess
  PROVE  EventInv'
<1>1. RootOnly /\ 1 \in Births
  BY DEF EventInv, HandlerInv, BootstrapRootProcess, TruthInv, HandlerTruthful
<1>2. life' = life /\ etw' = etw /\ handler'.pc = "idle" /\ Births' = Births
  BY DEF BootstrapRootProcess, Idle, osVars, Births
<1>3. \A k \in DOMAIN store' : k = nextKey /\ store'[k] = Entry(Root, 1)
  <2>1. Insert(Root, 1) /\ Root \in Pids /\ 1 \in Nat
    BY DEF BootstrapRootProcess, Pids
  <2>2. DOMAIN store = {}
    BY <1>1 DEF RootOnly
  <2>3. \A k \in DOMAIN store' \ DOMAIN store : k = nextKey /\ store'[k] = Entry(Root, 1)
    BY <2>1, Inserting
  <2> QED  BY <2>2, <2>3
<1>4. \A k \in DOMAIN store' :
         k = nextKey /\ store'[k].birth = 1 /\ store'[k].loaded = {} /\ store'[k].running
  BY <1>3 DEF Entry
<1>5. Running(1) /\ Running(1)' /\ life'[1].inJob /\ DOMAIN etw' = {}
  BY <1>1, <1>2 DEF RootOnly, Running
<1>6. RunningOrEnds' /\ RunningAreOfJob'
  <2>1. \A k \in DOMAIN store' : Running(store[k].birth)'
    BY <1>4, <1>5 DEF Running
  <2>2. \A k \in DOMAIN store' : life'[store'[k].birth].inJob
    BY <1>4, <1>5
  <2> QED  BY <2>1, <2>2 DEF RunningOrEnds, RunningAreOfJob
<1>7. ImagesHold' /\ OvertakenOnly' /\ OvertakenAreEmpty'
  BY <1>4, <1>5 DEF ImagesHold, OvertakenOnly, OvertakenAreEmpty
<1>8. TraceInOrder'
  BY <1>2, SameTraceKeeps DEF EventInv
<1>9. HandlerInv'
  BY <1>2 DEF HandlerInv, Busy
<1> QED  BY <1>6, <1>7, <1>8, <1>9 DEF EventInv, StoreInOrder

LEMMA DropsKeep ==
  ASSUME TypeOK, TruthInv, EventInv, DropForeignEvent \/ DropFileEvent
  PROVE  EventInv'
<1> DEFINE kinds == {"start", "rundown", "load", "unload", "file"}
<1>1. Receive(kinds) /\ "stop" \notin kinds
  BY DEF DropForeignEvent, DropFileEvent, Receive
<1>2. PICK e \in Logs : e = Head(etw)
  BY <1>1, TailPlaces
<1>3. /\ e.kind \in kinds /\ e.birth \in Births /\ life[e.birth].pid = e.pid
      /\ TraceInOrder /\ StoreInOrder
  BY <1>1, <1>2, HeadIsTraced DEF EventInv
<1>4. store' = store /\ handler' = handler /\ handler.pc = "idle"
  BY DEF DropForeignEvent, DropFileEvent, Receive
<1>5. e.kind = "unload" => IsProcessInJob(e.pid, FALSE)
  BY <1>2 DEF DropForeignEvent, DropFileEvent, Receive
<1>6. \A k \in DOMAIN store :
         store[k].birth = e.birth => (e.kind = "unload" => ~Running(store[k].birth))
  <2> SUFFICES ASSUME NEW k \in DOMAIN store, store[k].birth = e.birth, e.kind = "unload",
                      Running(e.birth)
               PROVE  FALSE
    OBVIOUS
  <2>1. life[e.birth].inJob
    BY <1>3 DEF StoreInOrder, RunningAreOfJob
  <2>2. IsProcessInJob(life[e.birth].pid, FALSE) /\ IdsReturn
    BY <1>3, <1>5 DEF TraceInOrder
  <2> QED  BY <1>3, <2>1, <2>2, RunningIsJudged
<1>7. TraceInOrder'
  BY <1>1, <1>3, TakingKeepsTrace
<1>8. StoreInOrder'
  BY <1>1, <1>2, <1>3, <1>4, <1>6, TakingKeepsStore
<1>9. HandlerInv'
  BY <1>4 DEF HandlerInv, Busy
<1> QED  BY <1>7, <1>8, <1>9 DEF EventInv

LEMMA AcceptKeeps ==
  ASSUME TypeOK, TruthInv, EventInv, RegisterProcessEvent \/ ResolveUnknown
  PROVE  EventInv'
<1> DEFINE kinds == {"start", "rundown", "load", "unload"}
<1>1. Receive(kinds) /\ "stop" \notin kinds
  BY DEF RegisterProcessEvent, ResolveUnknown, Receive
<1>2. PICK e \in Logs : e = Head(etw)
  BY <1>1, TailPlaces
<1>3. /\ e.kind \in kinds /\ e.birth \in Births /\ life[e.birth].pid = e.pid
      /\ Traced(e, 0)' /\ e.kind # "stop"
      /\ \A n \in DOMAIN etw' : etw'[n].pid = e.pid => e.birth <= etw'[n].birth
  BY <1>1, <1>2, HeadIsTraced DEF EventInv
<1>4. /\ store' = store /\ life' = life /\ Births' = Births
      /\ TraceInOrder /\ StoreInOrder
  BY <1>1, TailPlaces DEF RegisterProcessEvent, ResolveUnknown, Births, EventInv
<1>5. /\ handler'.event = e
      /\ \/ /\ e.kind \in {"start", "rundown"}
            /\ handler'.pc = "register" /\ handler'.birth = e.birth
         \/ e.kind \in {"load", "unload"} /\ handler'.pc = "enrich" /\ EntriesOf(e.pid) = {}
  <2>1. CASE RegisterProcessEvent
    <3>1. handler' = [pc |-> "register", event |-> e, birth |-> e.birth]
      BY <1>2, <2>1 DEF RegisterProcessEvent
    <3>2. e.kind \in {"start", "rundown"}
      BY <1>2, <2>1 DEF RegisterProcessEvent, Receive
    <3> QED  BY <3>1, <3>2
  <2>2. CASE ResolveUnknown
    <3>1. handler' = [pc |-> "enrich", event |-> e, birth |-> 0] /\ EntriesOf(e.pid) = {}
      BY <1>2, <2>2 DEF ResolveUnknown
    <3>2. e.kind \in {"load", "unload"}
      BY <1>2, <2>2 DEF ResolveUnknown, Receive
    <3> QED  BY <3>1, <3>2
  <2> QED  BY <2>1, <2>2
<1>6. HandlerInv'
  <2>1. Traced(handler.event, 0)'
    BY <1>3, <1>5 DEF Traced, EndsFollow, LoadHolds
  <2>2. AboutImage' <=> e.kind \in {"load", "unload"}
    BY <1>5 DEF AboutImage
  <2>3. EntriesOf(handler.event.pid)' = EntriesOf(e.pid)
    BY <1>4, <1>5 DEF EntriesOf
  <2>4. e.birth \in Nat
    BY DEF Logs
  <2>5. HandlerInOrder'
    BY <1>3, <1>4, <1>5, <2>1, <2>2, <2>3, <2>4 DEF HandlerInOrder
  <2> QED  BY <1>5, <2>5 DEF HandlerInv
<1>7. TraceInOrder'
  BY <1>1, <1>4, TakingKeepsTrace
<1>8. \A k \in DOMAIN store :
         store[k].birth = e.birth => (e.kind = "unload" => store[k].loaded = {})
  BY <1>3, <1>5 DEF TruthInv, StoreTruthful, EntriesOf
<1>9. StoreInOrder'
  BY <1>1, <1>2, <1>3, <1>4, <1>8, TakingKeepsStore
<1> QED  BY <1>6, <1>7, <1>9 DEF EventInv

LEMMA SameStoreKeeps ==
  ASSUME StoreInOrder, UNCHANGED <<life, etw, store>>
  PROVE  StoreInOrder'
BY DEF StoreInOrder, RunningOrEnds, RunningAreOfJob, ImagesHold, OvertakenOnly,
   OvertakenAreEmpty, LaterHolder, EndAfter, UnmapAfter, Running

LEMMA EnrichKeeps ==
  ASSUME TypeOK, TruthInv, EventInv, EnrichLiveProcess
  PROVE  EventInv'
<1>1. UNCHANGED <<life, etw, store>> /\ Births' = Births /\ handler.pc = "enrich"
  BY DEF EnrichLiveProcess, osVars, Births
<1>2. PICK birth \in Holders(handler.event.pid) \cup {0} :
        handler' = [handler EXCEPT !.pc = "register", !.birth = birth]
  BY DEF EnrichLiveProcess
<1>3. /\ handler'.pc = "register" /\ handler'.birth = birth
      /\ handler'.event = handler.event
  BY <1>2 DEF TypeOK
<1>4. HandlerInOrder
  BY <1>1 DEF EventInv, HandlerInv, Busy
<1>5. PICK e \in Logs : e = handler.event
  BY DEF TypeOK
<1>6. birth # 0 => birth >= e.birth
  <2> SUFFICES ASSUME birth \in Holders(e.pid), ~(birth >= e.birth) PROVE FALSE
    BY <1>5
  <2>1. /\ birth \in Births /\ e.birth \in Births /\ life[birth].pid = life[e.birth].pid
        /\ life[birth].state # "gone" /\ birth \in Nat /\ e.birth \in Nat
    BY <1>4, <1>5, Places DEF Holders, HandlerInOrder
  <2>2. birth < e.birth
    BY <2>1
  <2> QED  BY <2>1, <2>2 DEF EventInv, TraceInOrder, IdsReturn
<1>7. Traced(e, 0)'
  BY <1>1, <1>4, <1>5 DEF HandlerInOrder, Traced, EndsFollow, LoadHolds, EndAfter, UnmapAfter,
     Running
<1>8. Traced(handler.event, 0)'
  BY <1>3, <1>5, <1>7 DEF Traced, EndsFollow, LoadHolds
<1>9. AboutImage' /\ AboutImage /\ EntriesOf(handler.event.pid)' = {}
  BY <1>1, <1>3, <1>4 DEF AboutImage, EntriesOf, HandlerInOrder
<1>10. HandlerInOrder'
  BY <1>1, <1>3, <1>4, <1>5, <1>6, <1>8, <1>9 DEF HandlerInOrder
<1>11. HandlerInv'
  BY <1>3, <1>10 DEF HandlerInv
<1> QED  BY <1>1, <1>11, SameTraceKeeps, SameStoreKeeps DEF EventInv

\* A process that gets an entry is the handler's, and whatever that entry says holds.
LEMMA RegisterKeepsStore ==
  ASSUME TypeOK, TruthInv, EventInv, Register
  PROVE  StoreInOrder'
<1>1. UNCHANGED <<life, etw>> /\ handler.pc = "register" /\ handler.birth # 0
  BY DEF Register, osVars
<1>2. HandlerInOrder /\ StoreInOrder /\ IdsReturn
  BY <1>1 DEF EventInv, HandlerInv, Busy, TraceInOrder
<1>3. PICK e \in Logs, b \in Nat : e = handler.event /\ b = handler.birth
  BY DEF TypeOK
<1>4. b \in Births /\ life[b].pid = e.pid /\ e.pid \in Pids
  BY <1>1, <1>3 DEF TruthInv, HandlerTruthful, Logs
<1>5. Insert(e.pid, b) /\ IsProcessInJob(e.pid, TRUE)
  BY <1>3 DEF Register
<1>6. /\ DOMAIN store \subseteq DOMAIN store'
      /\ \A k \in DOMAIN store : store'[k] = store[k] /\ k \in Nat /\ k < nextKey
      /\ \A k \in DOMAIN store' \ DOMAIN store : k = nextKey /\ store'[k] = Entry(e.pid, b)
  BY <1>4, <1>5, Inserting, Places
<1>7. \A k \in DOMAIN store' \ DOMAIN store :
         /\ k = nextKey /\ store'[k].pid = e.pid /\ store'[k].birth = b
         /\ store'[k].loaded = {}
  BY <1>6 DEF Entry
<1>after. \A l, c : EndAfter(l, 0)' = EndAfter(l, 0) /\ UnmapAfter(l, c, 0)' = UnmapAfter(l, c, 0)
  BY <1>1 DEF EndAfter, UnmapAfter
<1>new. /\ ~Running(b) => EndAfter(b, 0)
        /\ Running(b) => life[b].inJob
  <2>1. ~Running(b) => EndAfter(b, 0)
    BY <1>1, <1>2, <1>3, <1>4 DEF HandlerInOrder, Traced, EndsFollow, Ends
  <2>2. Running(b) => life[b].inJob
    BY <1>2, <1>4, <1>5, RunningIsJudged
  <2> QED  BY <2>1, <2>2
<1>8. RunningOrEnds'
  <2> SUFFICES ASSUME NEW k \in DOMAIN store', store'[k].running, ~Running(store'[k].birth)
               PROVE  EndAfter(store'[k].birth, 0)
    <3>1. \A l : Running(l)' <=> Running(l)
      BY <1>1 DEF Running
    <3> QED  BY <1>1, <3>1 DEF RunningOrEnds, Running, EndAfter
  <2>1. CASE k \in DOMAIN store
    BY <2>1, <1>2, <1>6 DEF StoreInOrder, RunningOrEnds
  <2>2. CASE k \notin DOMAIN store
    BY <2>2, <1>7, <1>new
  <2> QED  BY <2>1, <2>2
<1>9. RunningAreOfJob'
  <2> SUFFICES ASSUME NEW k \in DOMAIN store', Running(store'[k].birth)
               PROVE  life[store'[k].birth].inJob
    BY <1>1 DEF RunningAreOfJob, Running
  <2>1. CASE k \in DOMAIN store
    BY <2>1, <1>2, <1>6 DEF StoreInOrder, RunningAreOfJob
  <2>2. CASE k \notin DOMAIN store
    BY <2>2, <1>7, <1>new
  <2> QED  BY <2>1, <2>2
<1>10. ImagesHold'
  <2> SUFFICES ASSUME NEW k \in DOMAIN store', NEW i \in store'[k].loaded,
                      i.owner = store'[k].birth
               PROVE  i.base \in life[i.owner].images \/ UnmapAfter(i.owner, i.base, 0)
    BY <1>1, <1>after DEF ImagesHold
  <2>1. k \in DOMAIN store
    BY <1>7
  <2> QED  BY <2>1, <1>2, <1>6 DEF StoreInOrder, ImagesHold
<1>11. OvertakenOnly'
  <2> SUFFICES ASSUME NEW n \in DOMAIN etw, NEW j \in DOMAIN store', NEW k \in DOMAIN store',
                      store'[j].birth = etw[n].birth, store'[k].pid = store'[j].pid,
                      store'[k].birth > store'[j].birth
               PROVE  k < j
    BY <1>1 DEF OvertakenOnly, LaterHolder
  <2>1. CASE j \in DOMAIN store /\ k \in DOMAIN store
    BY <2>1, <1>2, <1>6 DEF StoreInOrder, OvertakenOnly, LaterHolder
  <2>2. CASE j \notin DOMAIN store
    <3>1. k \in DOMAIN store
      BY <2>2, <1>4, <1>7, Places
    <3> QED  BY <2>2, <3>1, <1>6
  <2>3. CASE j \in DOMAIN store /\ k \notin DOMAIN store
    <3>1. store[j].birth = etw[n].birth /\ store[j].pid = e.pid /\ b > etw[n].birth
      BY <2>3, <1>6, <1>7
    <3>2. etw[n].pid = e.pid
      BY <2>3, <3>1 DEF TruthInv, StoreTruthful, EventsTruthful, Truthful
    <3>3. ~AboutImage
      BY <1>1, <1>2, <1>3, <2>3, <3>1 DEF HandlerInOrder, EntriesOf
    <3>4. b = e.birth /\ e.birth <= etw[n].birth
      BY <1>2, <1>3, <3>2, <3>3 DEF HandlerInOrder
    <3>5. etw[n].birth \in Nat
      BY Places DEF Logs
    <3> QED  BY <3>1, <3>4, <3>5
  <2> QED  BY <2>1, <2>2, <2>3
<1>12. OvertakenAreEmpty'
  <2> SUFFICES ASSUME NEW j \in DOMAIN store', NEW k \in DOMAIN store', k < j,
                      store'[k].pid = store'[j].pid, store'[k].birth > store'[j].birth
               PROVE  store'[j].loaded = {}
    BY DEF OvertakenAreEmpty, LaterHolder
  <2>1. CASE j \notin DOMAIN store
    BY <2>1, <1>7
  <2>2. CASE j \in DOMAIN store /\ k \in DOMAIN store
    BY <2>2, <1>2, <1>6 DEF StoreInOrder, OvertakenAreEmpty, LaterHolder
  <2>3. CASE j \in DOMAIN store /\ k \notin DOMAIN store
    BY <2>3, <1>6, Places DEF TypeOK
  <2> QED  BY <2>1, <2>2, <2>3
<1> QED  BY <1>8, <1>9, <1>10, <1>11, <1>12 DEF StoreInOrder

LEMMA RegisterKeeps ==
  ASSUME TypeOK, TruthInv, EventInv, Register
  PROVE  EventInv'
<1>1. UNCHANGED <<life, etw>> /\ Births' = Births /\ handler.pc = "register"
      /\ handler.birth # 0
  BY DEF Register, osVars, Births
<1>2. HandlerInOrder
  BY <1>1 DEF EventInv, HandlerInv, Busy
<1>3. PICK e \in Logs, b \in Nat : e = handler.event /\ b = handler.birth
  BY DEF TypeOK
<1>4. HandlerInv'
  <2>1. CASE ~AboutImage
    <3>1. handler' = Idle
      BY <2>1 DEF AboutImage, Register
    <3> QED  BY <3>1 DEF Idle, HandlerInv, Busy
  <2>2. CASE AboutImage
    <3>1. handler'.pc = "update" /\ handler'.event = e /\ handler'.birth = b
      BY <1>3, <2>2 DEF AboutImage, Register, TypeOK
    <3>2. EntriesOf(e.pid) = {}
      BY <1>1, <1>2, <1>3, <2>2 DEF HandlerInOrder
    <3>3. \A k \in EntriesOf(e.pid)' : store'[k].birth = b
      <4>1. e.pid \in Pids /\ Insert(e.pid, b)
        BY <1>3 DEF Register, Logs
      <4>2. /\ \A k \in DOMAIN store : store'[k] = store[k]
            /\ \A k \in DOMAIN store' \ DOMAIN store : store'[k] = Entry(e.pid, b)
        BY <4>1, Inserting
      <4>3. \A k \in DOMAIN store : store'[k].pid # e.pid
        BY <3>2, <4>2 DEF EntriesOf
      <4>4. Entry(e.pid, b).birth = b
        BY DEF Entry
      <4>5. \A k \in DOMAIN store' : store'[k].pid = e.pid => store'[k].birth = b
        BY <4>2, <4>3, <4>4
      <4> QED  BY <4>5 DEF EntriesOf
    <3>4. EntriesOf(handler.event.pid)' = EntriesOf(e.pid)'
      BY <3>1 DEF EntriesOf
    <3>5. Traced(e, 0)'
      BY <1>1, <1>2, <1>3 DEF HandlerInOrder, Traced, EndsFollow, LoadHolds, EndAfter, UnmapAfter,
         Running
    <3>6. Traced(handler.event, 0)'
      BY <3>1, <3>5 DEF Traced, EndsFollow, LoadHolds
    <3>7. AboutImage'
      BY <1>3, <2>2, <3>1 DEF AboutImage
    <3>8. HandlerInOrder'
      BY <1>1, <1>2, <1>3, <3>1, <3>3, <3>4, <3>6, <3>7 DEF HandlerInOrder
    <3> QED  BY <3>1, <3>8 DEF HandlerInv
  <2> QED  BY <2>1, <2>2
<1>5. TraceInOrder'
  BY <1>1, SameTraceKeeps DEF EventInv
<1> QED  BY <1>4, <1>5, RegisterKeepsStore DEF EventInv

LEMMA RefusedKeeps ==
  ASSUME EventInv, RegisterRefused
  PROVE  EventInv'
<1>1. UNCHANGED <<life, etw, store>> /\ handler'.pc = "idle"
  BY DEF RegisterRefused, osVars, Idle
<1>2. HandlerInv'
  BY <1>1 DEF HandlerInv, Busy
<1> QED  BY <1>1, <1>2, SameTraceKeeps, SameStoreKeeps DEF EventInv

\* After an event was credited, an image in the entry was there before and is not the
\* one the event unmaps, or it is the one the event maps.
LEMMA CreditedImages ==
  ASSUME NEW entry \in Entries, NEW e \in Logs
  PROVE  \A i \in Credited(entry, e).loaded :
           \/ i \in entry.loaded /\ (e.kind = "unload" => i.base # e.base)
           \/ e.kind = "load" /\ i = [base |-> e.base, owner |-> e.birth]
<1>1. \A i \in ImageLoaded(entry, e).loaded :
         i \in entry.loaded \/ i = [base |-> e.base, owner |-> e.birth]
  BY DEF ImageLoaded, Entries
<1>2. \A i \in ImageUnloaded(entry, e).loaded : i \in entry.loaded /\ i.base # e.base
  BY DEF ImageUnloaded, Entries
<1>3. FileRecorded(entry, e).loaded = entry.loaded
  BY DEF FileRecorded, Entries
<1> QED  BY <1>1, <1>2, <1>3 DEF Credited

\* One entry is replaced by what an event makes of it.
LEMMA CreditingOne ==
  ASSUME TypeOK, NEW k \in DOMAIN store, NEW e \in Logs, Update(k, Credited(store[k], e))
  PROVE  /\ DOMAIN store' = DOMAIN store
         /\ \A j \in DOMAIN store :
              /\ store'[j].pid = store[j].pid /\ store'[j].birth = store[j].birth
              /\ store'[j].running = store[j].running
         /\ \A j \in DOMAIN store : j # k => store'[j] = store[j]
         /\ store'[k] = Credited(store[k], e)
         /\ \A i \in store'[k].loaded :
              \/ i \in store[k].loaded /\ (e.kind = "unload" => i.base # e.base)
              \/ e.kind = "load" /\ i.base = e.base /\ i.owner = e.birth
<1>1. /\ DOMAIN store' = DOMAIN store
      /\ \A j \in DOMAIN store : store'[j] = IF j = k THEN Credited(store[k], e) ELSE store[j]
  BY DEF Update, TypeOK
<1>2. store[k] \in Entries
  BY Places
<1>3. \A i \in store'[k].loaded :
        \/ i \in store[k].loaded /\ (e.kind = "unload" => i.base # e.base)
        \/ e.kind = "load" /\ i.base = e.base /\ i.owner = e.birth
  BY <1>1, <1>2, CreditedImages
<1> QED  BY <1>1, <1>2, <1>3, Crediting

\* When one entry is replaced, what concerns lifetimes and ends stays as it was.
LEMMA CreditingKeeps ==
  ASSUME TypeOK, NEW k \in DOMAIN store, NEW e \in Logs, Update(k, Credited(store[k], e)),
         StoreInOrder, life' = life, \A n \in DOMAIN etw' : \E m \in DOMAIN etw : etw'[n] = etw[m],
         \A l : EndAfter(l, 0) => EndAfter(l, 0)',
         \A j \in DOMAIN store : LaterHolder(j, k) => store'[k].loaded = {} \/ k < j
  PROVE  RunningOrEnds' /\ RunningAreOfJob' /\ OvertakenOnly' /\ OvertakenAreEmpty'
<1>one. /\ DOMAIN store' = DOMAIN store
        /\ \A j \in DOMAIN store :
             /\ store'[j].pid = store[j].pid /\ store'[j].birth = store[j].birth
             /\ store'[j].running = store[j].running
        /\ \A j \in DOMAIN store : j # k => store'[j] = store[j]
  BY CreditingOne
<1>1. RunningOrEnds'
  <2> SUFFICES ASSUME NEW j \in DOMAIN store, store[j].running, ~Running(store[j].birth)
               PROVE  EndAfter(store[j].birth, 0)'
    <3>1. \A j \in DOMAIN store : Running(store[j].birth)' <=> Running(store[j].birth)
      BY <1>one DEF Running
    <3>2. \A j \in DOMAIN store :
            store'[j].running /\ ~Running(store[j].birth)' => EndAfter(store[j].birth, 0)'
      BY <1>one, <3>1
    <3> QED  BY <1>one, <3>2 DEF RunningOrEnds
  <2>1. PICK l : l = store[j].birth
    OBVIOUS
  <2>2. EndAfter(l, 0)'
    BY <2>1 DEF StoreInOrder, RunningOrEnds
  <2> QED  BY <1>one, <2>1, <2>2 DEF EndAfter
<1>2. RunningAreOfJob'
  BY <1>one DEF StoreInOrder, RunningAreOfJob, Running
<1>3. OvertakenOnly'
  BY <1>one DEF StoreInOrder, OvertakenOnly, LaterHolder
<1>4. OvertakenAreEmpty'
  <2> SUFFICES ASSUME NEW j \in DOMAIN store, NEW m \in DOMAIN store, LaterHolder(m, j), m < j
               PROVE  store'[j].loaded = {}
    BY <1>one DEF OvertakenAreEmpty, LaterHolder
  <2>1. j # k => store'[j].loaded = {}
    BY <1>one DEF StoreInOrder, OvertakenAreEmpty
  <2>2. j = k => store'[j].loaded = {}
    BY Places
  <2> QED  BY <2>1, <2>2
<1> QED  BY <1>1, <1>2, <1>3, <1>4

\* The entry an event is credited to is the newest of its id.
LEMMA CreditKeeps ==
  ASSUME TypeOK, StoreInv, TruthInv, EventInv, CreditEvent
  PROVE  EventInv'
<1> DEFINE kinds == {"load", "unload", "file"}
<1>1. Receive(kinds) /\ handler' = handler /\ handler.pc = "idle"
  BY DEF CreditEvent, Receive
<1>2. PICK e \in Logs : e = Head(etw)
  BY <1>1, TailPlaces
<1>3. PICK k \in DOMAIN store : IsProcessKey(k, e.pid) /\ Update(k, Credited(store[k], e))
  BY <1>2 DEF CreditEvent
<1>4. /\ e.kind \in kinds /\ e.birth \in Births /\ life[e.birth].pid = e.pid
      /\ Traced(e, 0)' /\ e = etw[1] /\ 1 \in DOMAIN etw /\ life' = life
      /\ TraceInOrder /\ StoreInOrder
  BY <1>1, <1>2, HeadIsTraced, TailPlaces DEF EventInv
<1>one. /\ DOMAIN store' = DOMAIN store
        /\ \A j \in DOMAIN store :
             /\ store'[j].pid = store[j].pid /\ store'[j].birth = store[j].birth
             /\ store'[j].running = store[j].running
        /\ \A j \in DOMAIN store : j # k => store'[j] = store[j]
        /\ \A i \in store'[k].loaded :
             \/ i \in store[k].loaded /\ (e.kind = "unload" => i.base # e.base)
             \/ e.kind = "load" /\ i.base = e.base /\ i.owner = e.birth
  BY <1>3, CreditingOne
<1>newest. \A j \in DOMAIN store : store[j].pid = e.pid => store[j].birth <= store[k].birth
  BY <1>3 DEF IsProcessKey, EntriesOf
<1>5. RunningOrEnds' /\ RunningAreOfJob' /\ OvertakenOnly' /\ OvertakenAreEmpty'
  <2>1. \A n \in DOMAIN etw' : \E m \in DOMAIN etw : etw'[n] = etw[m]
    BY <1>1, TailPlaces
  <2>2. \A l : EndAfter(l, 0) => EndAfter(l, 0)'
    BY <1>1, <1>2, <1>4, HeadLeaves DEF Ends
  <2>3. \A j \in DOMAIN store : ~LaterHolder(j, k)
    <3>1. store[k].pid = e.pid
      BY <1>3 DEF IsProcessKey, EntriesOf
    <3>2. \A j \in DOMAIN store : store[j].birth \in Nat
      BY Places DEF Entries
    <3> QED  BY <1>newest, <3>1, <3>2 DEF LaterHolder
  <2> QED  BY <1>3, <1>4, <2>1, <2>2, <2>3, CreditingKeeps
<1>6. ImagesHold'
  <2> SUFFICES ASSUME NEW j \in DOMAIN store, NEW i \in store'[j].loaded,
                      i.owner = store[j].birth
               PROVE  i.base \in life[i.owner].images \/ UnmapAfter(i.owner, i.base, 0)'
    BY <1>one, <1>4 DEF ImagesHold
  <2>1. CASE i \in store[j].loaded /\ (j = k /\ e.kind = "unload" => i.base # e.base)
    <3>1. i.base \in life[i.owner].images \/ UnmapAfter(i.owner, i.base, 0)
      BY <2>1, <1>4 DEF StoreInOrder, ImagesHold
    <3>2. CASE Unmaps(e, i.owner, i.base)
      <4>1. e.kind = "unload" /\ e.birth = store[j].birth /\ e.base = i.base /\ j # k
        BY <2>1, <3>2, <1>4 DEF Unmaps, Ends
      <4>2. store[j].pid = e.pid /\ store[k].pid = e.pid
        BY <1>3, <1>4, <4>1 DEF TruthInv, StoreTruthful, IsProcessKey, EntriesOf
      <4>3. store[j].birth # store[k].birth
        BY <4>1, <4>2 DEF StoreInv, OneEntryPerLifetime
      <4>4. LaterHolder(k, j)
        <5>1. store[j].birth \in Nat /\ store[k].birth \in Nat
          BY Places DEF Entries
        <5> QED  BY <1>newest, <4>2, <4>3, <5>1 DEF LaterHolder
      <4>5. k < j
        BY <1>4, <4>1, <4>4 DEF StoreInOrder, OvertakenOnly
      <4>6. store[j].loaded = {}
        BY <1>4, <4>4, <4>5 DEF StoreInOrder, OvertakenAreEmpty
      <4> QED  BY <2>1, <4>6
    <3> QED  BY <1>1, <1>2, <3>1, <3>2, HeadLeaves
  <2>2. CASE j = k /\ e.kind = "load" /\ i.base = e.base /\ i.owner = e.birth
    BY <2>2, <1>4 DEF Traced, LoadHolds
  <2> QED  BY <2>1, <2>2, <1>one
<1>7. TraceInOrder'
  BY <1>1, <1>4, TakingKeepsTrace
<1>8. HandlerInv'
  BY <1>1 DEF HandlerInv, Busy
<1> QED  BY <1>5, <1>6, <1>7, <1>8 DEF EventInv, StoreInOrder

\* The entry just made from the living process is the only one of its id.
LEMMA UpdateKeeps ==
  ASSUME TypeOK, TruthInv, EventInv, UpdateRegistered
  PROVE  EventInv'
<1>1. UNCHANGED <<life, etw>> /\ handler'.pc = "idle" /\ handler.pc = "update"
  BY DEF UpdateRegistered, osVars, Idle
<1>2. HandlerInOrder /\ StoreInOrder /\ TraceInOrder
  BY <1>1 DEF EventInv, HandlerInv, Busy
<1>3. PICK e \in Logs : e = handler.event
  BY DEF TypeOK
<1>4. PICK k \in DOMAIN store :
        SameLifetime(k, e.pid, handler.birth) /\ Update(k, Credited(store[k], e))
  BY <1>3 DEF UpdateRegistered
<1>5. \A j \in DOMAIN store : ~LaterHolder(j, k)
  <2>1. \A j \in DOMAIN store : store[j].pid = e.pid => store[j].birth = store[k].birth
    BY <1>1, <1>2, <1>3, <1>4 DEF HandlerInOrder, EntriesOf, SameLifetime
  <2>2. \A j \in DOMAIN store : store[j].birth \in Nat
    BY Places DEF Entries
  <2> QED  BY <1>4, <2>1, <2>2 DEF LaterHolder, SameLifetime
<1>after. \A l, b : EndAfter(l, 0)' = EndAfter(l, 0) /\ UnmapAfter(l, b, 0)' = UnmapAfter(l, b, 0)
  BY <1>1 DEF EndAfter, UnmapAfter
<1>6. RunningOrEnds' /\ RunningAreOfJob' /\ OvertakenOnly' /\ OvertakenAreEmpty'
  <2>1. \A n \in DOMAIN etw' : \E m \in DOMAIN etw : etw'[n] = etw[m]
    BY <1>1
  <2> QED  BY <1>1, <1>2, <1>4, <1>5, <1>after, <2>1, CreditingKeeps
<1>7. ImagesHold'
  <2>one. /\ DOMAIN store' = DOMAIN store
          /\ \A j \in DOMAIN store : store'[j].birth = store[j].birth
          /\ \A j \in DOMAIN store : j # k => store'[j] = store[j]
          /\ \A i \in store'[k].loaded :
               \/ i \in store[k].loaded
               \/ e.kind = "load" /\ i.base = e.base /\ i.owner = e.birth
    BY <1>4, CreditingOne
  <2> SUFFICES ASSUME NEW j \in DOMAIN store, NEW i \in store'[j].loaded,
                      i.owner = store[j].birth
               PROVE  i.base \in life[i.owner].images \/ UnmapAfter(i.owner, i.base, 0)
    BY <1>1, <1>after, <2>one DEF ImagesHold
  <2>1. CASE i \in store[j].loaded
    BY <2>1, <1>2 DEF StoreInOrder, ImagesHold
  <2>2. CASE e.kind = "load" /\ i.base = e.base /\ i.owner = e.birth
    BY <2>2, <1>2, <1>3 DEF HandlerInOrder, Traced, LoadHolds
  <2> QED  BY <2>1, <2>2, <2>one
<1>8. TraceInOrder'
  BY <1>1, <1>2, SameTraceKeeps
<1>9. HandlerInv'
  BY <1>1 DEF HandlerInv, Busy
<1> QED  BY <1>6, <1>7, <1>8, <1>9 DEF EventInv, StoreInOrder

LEMMA StopKeeps ==
  ASSUME TypeOK, StoreInv, TruthInv, EventInv, ProcessStopHandler
  PROVE  EventInv'
<1>1. Receive({"stop"}) /\ handler' = handler /\ handler.pc = "idle"
  BY DEF ProcessStopHandler, Receive
<1>2. PICK e \in Logs : e = Head(etw)
  BY <1>1, TailPlaces
<1>3. /\ e.kind = "stop" /\ life[e.birth].pid = e.pid /\ life' = life
      /\ TraceInOrder /\ StoreInOrder
  BY <1>1, <1>2, HeadIsTraced, TailPlaces DEF EventInv
<1>same. \A j \in DOMAIN store : store[j].birth = e.birth => SameLifetime(j, e.pid, e.birth)
  BY <1>3 DEF TruthInv, StoreTruthful, SameLifetime
<1>4. CASE \A k \in StoppedLifetime(e) : ~store[k].running
  <2>1. store' = store
    BY <1>2, <1>4 DEF ProcessStopHandler
  <2>2. \A j \in DOMAIN store :
           store[j].birth = e.birth => ~store[j].running /\ store[j].loaded = {}
    BY <1>4, <1>same DEF StoppedLifetime, StoreInv, StoppedHasNoImages
  <2> QED  BY <1>1, <1>2, <1>3, <2>1, <2>2, TakingKeepsStore, TakingKeepsTrace
           DEF EventInv, HandlerInv, Busy
<1>5. CASE \E k \in StoppedLifetime(e) : store[k].running
  <2>1. PICK k \in DOMAIN store :
          SameLifetime(k, e.pid, e.birth) /\ Update(k, Stopped(store[k]))
    BY <1>2, <1>5 DEF ProcessStopHandler, StoppedLifetime
  <2>2. /\ DOMAIN store' = DOMAIN store
        /\ \A j \in DOMAIN store : j # k => store'[j] = store[j]
        /\ store'[k] = Stopped(store[k])
    BY <2>1 DEF Update, TypeOK
  <2>3. /\ store'[k].pid = store[k].pid /\ store'[k].birth = store[k].birth
        /\ ~store'[k].running /\ store'[k].loaded = {}
    BY <2>2, Places DEF Stopped, Entries
  <2>only. \A j \in DOMAIN store : store[j].birth = e.birth => j = k
    BY <1>same, <2>1 DEF StoreInv, OneEntryPerLifetime, SameLifetime
  <2>births. \A j \in DOMAIN store :
               store'[j].pid = store[j].pid /\ store'[j].birth = store[j].birth
    BY <2>2, <2>3
  <2>4. RunningOrEnds'
    <3> SUFFICES ASSUME NEW j \in DOMAIN store, j # k, store[j].running,
                        ~Running(store[j].birth)
                 PROVE  EndAfter(store[j].birth, 0)'
      <4>1. \A j \in DOMAIN store : Running(store[j].birth)' <=> Running(store[j].birth)
        BY <1>3, <2>births DEF Running
      <4>2. \A j \in DOMAIN store :
              store'[j].running /\ ~Running(store[j].birth)' => EndAfter(store[j].birth, 0)'
        BY <2>2, <2>3, <4>1
      <4> QED  BY <2>2, <4>2 DEF RunningOrEnds
    <3>1. PICK l : l = store[j].birth
      OBVIOUS
    <3>2. EndAfter(l, 0)
      BY <3>1, <1>3 DEF StoreInOrder, RunningOrEnds
    <3>3. ~Ends(Head(etw), l)
      BY <1>2, <3>1, <2>only DEF Ends
    <3>4. EndAfter(l, 0)'
      BY <1>1, <3>2, <3>3, HeadLeaves
    <3> QED  BY <2>births, <3>1, <3>4 DEF EndAfter
  <2>5. RunningAreOfJob'
    BY <1>3, <2>2, <2>births DEF StoreInOrder, RunningAreOfJob, Running
  <2>6. ImagesHold'
    <3> SUFFICES ASSUME NEW j \in DOMAIN store, j # k, NEW i \in store[j].loaded,
                        i.owner = store[j].birth
                 PROVE  i.base \in life[i.owner].images \/ UnmapAfter(i.owner, i.base, 0)'
      BY <1>3, <2>2, <2>3 DEF ImagesHold
    <3>1. i.base \in life[i.owner].images \/ UnmapAfter(i.owner, i.base, 0)
      BY <1>3 DEF StoreInOrder, ImagesHold
    <3>2. ~Unmaps(Head(etw), i.owner, i.base)
      BY <1>2, <1>3, <2>only DEF Unmaps, Ends
    <3> QED  BY <1>1, <3>1, <3>2, HeadLeaves
  <2>7. OvertakenOnly'
    <3> SUFFICES ASSUME NEW n \in DOMAIN etw', NEW j \in DOMAIN store, NEW m \in DOMAIN store,
                        store[j].birth = etw'[n].birth, LaterHolder(m, j)
                 PROVE  m < j
      BY <2>2, <2>births DEF OvertakenOnly, LaterHolder
    <3> QED  BY <1>1, <1>3, TailPlaces DEF StoreInOrder, OvertakenOnly
  <2>8. OvertakenAreEmpty'
    <3> SUFFICES ASSUME NEW j \in DOMAIN store, NEW m \in DOMAIN store, LaterHolder(m, j), m < j
                 PROVE  store'[j].loaded = {}
      BY <2>2, <2>births DEF OvertakenAreEmpty, LaterHolder
    <3> QED  BY <1>3, <2>2, <2>3 DEF StoreInOrder, OvertakenAreEmpty
  <2>9. TraceInOrder' /\ HandlerInv'
    BY <1>1, <1>3, TakingKeepsTrace DEF HandlerInv, Busy
  <2> QED  BY <2>4, <2>5, <2>6, <2>7, <2>8, <2>9 DEF EventInv, StoreInOrder
<1> QED  BY <1>4, <1>5

------------------------------------------------------------------------------
(* The theorems.                                                           *)

LEMMA InitEvents == Init => EventInv
<1> SUFFICES ASSUME Init PROVE EventInv
  OBVIOUS
<1>1. /\ DOMAIN etw = {} /\ etw = <<>> /\ DOMAIN store = {} /\ handler.pc = "bootstrap"
      /\ Births = {1} /\ life[1] = Process(Root, TRUE)
  BY DEF Init, EmptyMap, Births
<1>2. TraceInOrder
  BY <1>1 DEF TraceInOrder, IdsReturn, EventsInOrder, EventsTraced
<1>3. HandlerInv
  BY <1>1 DEF HandlerInv, RootOnly, Busy, Process, Running
<1>4. StoreInOrder
  BY <1>1 DEF StoreInOrder, RunningOrEnds, RunningAreOfJob, ImagesHold, OvertakenOnly,
     OvertakenAreEmpty
<1> QED  BY <1>2, <1>3, <1>4 DEF EventInv

LEMMA NextEvents == StoreInv /\ TruthInv /\ EventInv /\ [Next]_vars => EventInv'
<1> SUFFICES ASSUME StoreInv, TruthInv, EventInv, [Next]_vars PROVE EventInv'
  OBVIOUS
<1>1. TypeOK
  BY DEF StoreInv
<1>2. CASE OperatingSystem \/ MonitorJob \/ UNCHANGED vars
  BY <1>1, <1>2, SystemKeeps
<1>3. CASE TraceThread
  BY <1>1, <1>3, BootstrapKeeps, DropsKeep, AcceptKeeps, CreditKeeps, EnrichKeeps, RefusedKeeps,
     RegisterKeeps, UpdateKeeps, StopKeeps DEF TraceThread
<1> QED  BY <1>2, <1>3 DEF Next

\* The order of events, of the ends of processes and of the entries made for them: the
\* inductive invariant of the theorems below, for any number of ids, processes and
\* events waiting.
THEOREM EventsKeepTheirOrder == Spec => []EventInv
BY InitEvents, NextEvents, StoreAlways, TruthAlways, PTL DEF Spec

\* Once every event is handled, an entry marked running is that of a running process
\* of the same id, and the images it lists as its own are mapped, however many
\* processes had that id and whenever their events arrived.
THEOREM RunningIsTrueOnceQuiet == Spec => []RunningEntriesAreTrue
<1>1. TruthInv /\ EventInv => RunningEntriesAreTrue
  <2> SUFFICES ASSUME TruthInv, EventInv, Quiet PROVE RunningEntriesAreTrue
    BY DEF RunningEntriesAreTrue, RunningIsAlive, LoadedIsMapped
  <2>1. DOMAIN etw = {}
    BY DEF Quiet
  <2>2. \A l, b : ~EndAfter(l, 0) /\ ~UnmapAfter(l, b, 0)
    BY <2>1 DEF EndAfter, UnmapAfter
  <2>3. RunningIsAlive
    BY <2>2 DEF EventInv, StoreInOrder, RunningOrEnds, RunningIsAlive, TruthInv, StoreTruthful,
       Describes
  <2>4. LoadedIsMapped
    BY <2>2 DEF EventInv, StoreInOrder, ImagesHold, LoadedIsMapped
  <2> QED  BY <2>3, <2>4 DEF RunningEntriesAreTrue
<1> QED  BY <1>1, TruthAlways, EventsKeepTheirOrder, PTL

\* An image or file event goes to the entry of the process that caused it, if it has
\* one, unless a later holder of the id was registered before that process was.
THEOREM EventsGoToTheirOwner == Spec => RegisteredKeepsItsEvents
<1> DEFINE Own ==
      \A k \in DOMAIN store : \A l \in CreditedTo(store'[k]) \ CreditedTo(store[k]) :
        \A j \in DOMAIN store :
          Describes(j, l) => j = k \/ (j > k /\ store[k].birth > l)
<1>1. ASSUME StoreInv, TruthInv, EventInv, [Next]_vars PROVE Own
  <2> SUFFICES ASSUME NEW k \in DOMAIN store,
                      NEW l \in CreditedTo(store'[k]), l \notin CreditedTo(store[k]),
                      NEW j \in DOMAIN store, Describes(j, l), j # k
               PROVE  j > k /\ store[k].birth > l
    OBVIOUS
  <2>0. TypeOK /\ StoreStep
    BY <1>1, StoreSteps DEF StoreInv
  <2>entry. store[k] \in Entries /\ store[j] \in Entries /\ j \in Nat /\ k \in Nat
    BY <2>0, Places
  <2>1. store'[k] # store[k]
    OBVIOUS
  <2>2. ASSUME NEW m \in DOMAIN store, NEW e \in Logs, Update(m, Credited(store[m], e))
        PROVE  m = k /\ l = e.birth
    <3>1. m = k /\ store'[k] = Credited(store[k], e)
      BY <2>0, <2>1, <2>2, CreditingOne
    <3>2. \A i \in store'[k].loaded : i \in store[k].loaded \/ i.owner = e.birth
      BY <2>entry, <3>1, CreditedImages
    <3>3. store'[k].files \subseteq store[k].files \cup {e.birth}
      <4>1. /\ ImageLoaded(store[k], e).files = store[k].files
            /\ ImageUnloaded(store[k], e).files = store[k].files
            /\ FileRecorded(store[k], e).files = store[k].files \cup {e.birth}
        BY <2>entry DEF ImageLoaded, ImageUnloaded, FileRecorded, Entries
      <4> QED  BY <3>1, <4>1 DEF Credited
    <3> QED  BY <3>1, <3>2, <3>3 DEF CreditedTo
  <2>3. CASE CreditEvent
    <3>1. Receive({"load", "unload", "file"})
      BY <2>3 DEF CreditEvent
    <3>2. PICK e \in Logs : e = Head(etw)
      BY <2>0, <3>1, TailPlaces
    <3>3. PICK m \in DOMAIN store : IsProcessKey(m, e.pid) /\ Update(m, Credited(store[m], e))
      BY <2>3, <3>2 DEF CreditEvent
    <3>4. m = k /\ l = e.birth
      BY <2>2, <3>3
    <3>5. e = etw[1] /\ 1 \in DOMAIN etw /\ life[e.birth].pid = e.pid
      BY <1>1, <2>0, <3>1, <3>2, TailPlaces DEF TruthInv, EventsTruthful, Truthful
    <3>6. store[j].pid = e.pid /\ store[j].birth = e.birth /\ store[k].pid = e.pid
          /\ store[j].birth <= store[k].birth
      BY <3>3, <3>4, <3>5 DEF Describes, IsProcessKey, EntriesOf
    <3>7. store[j].birth # store[k].birth
      BY <1>1, <3>6 DEF StoreInv, OneEntryPerLifetime
    <3>8. LaterHolder(k, j)
      BY <2>entry, <3>6, <3>7 DEF LaterHolder, Entries
    <3>9. k < j
      BY <1>1, <3>5, <3>6, <3>8 DEF EventInv, StoreInOrder, OvertakenOnly
    <3> QED  BY <2>entry, <3>4, <3>6, <3>8, <3>9 DEF LaterHolder
  <2>4. CASE UpdateRegistered
    <3>1. handler.pc = "update" /\ HandlerInOrder /\ handler.event \in Logs
      BY <1>1, <2>0, <2>4 DEF UpdateRegistered, EventInv, HandlerInv, Busy, TypeOK
    <3>2. PICK m \in DOMAIN store :
            /\ SameLifetime(m, handler.event.pid, handler.birth)
            /\ Update(m, Credited(store[m], handler.event))
      BY <2>4 DEF UpdateRegistered
    <3>3. m = k /\ l = handler.event.birth
      BY <2>2, <3>1, <3>2
    <3>4. store[j].pid = handler.event.pid /\ store[k].pid = handler.event.pid
      BY <3>1, <3>2, <3>3 DEF Describes, HandlerInOrder, SameLifetime
    <3>5. store[j].birth = store[k].birth
      BY <3>1, <3>4 DEF HandlerInOrder, EntriesOf
    <3> QED  BY <1>1, <3>4, <3>5 DEF StoreInv, OneEntryPerLifetime
  <2>5. CASE ProcessStopHandler
    <3>1. PICK m \in DOMAIN store : Update(m, Stopped(store[m]))
      BY <2>1, <2>5 DEF ProcessStopHandler, StoppedLifetime
    <3>2. store'[k] = Stopped(store[k])
      BY <2>0, <2>1, <3>1 DEF Update, TypeOK
    <3>3. store'[k].files = store[k].files /\ store'[k].loaded = {}
      BY <2>entry, <3>2 DEF Stopped, Entries
    <3> QED  BY <3>3 DEF CreditedTo
  <2>6. CASE BootstrapRootProcess \/ Register
    <3>1. Inserts
      <4>1. handler.event.pid \in Pids /\ handler.birth \in Nat /\ Root \in Pids
        BY <2>0 DEF TypeOK, Logs, Pids
      <4> QED  BY <2>6, <4>1 DEF BootstrapRootProcess, Register, Inserts
    <3>2. store'[k] = store[k]
      BY <2>0, <3>1, Inserting DEF Inserts
    <3> QED  BY <2>1, <3>2
  <2>7. CASE UNCHANGED store
    BY <2>1, <2>7
  <2> QED
    BY <1>1, <2>3, <2>4, <2>5, <2>6, <2>7
       DEF Next, OperatingSystem, Spawn, Exit, Reap, Act, MonitorJob, vars, TraceThread,
           DropForeignEvent, RegisterProcessEvent, DropFileEvent, ResolveUnknown,
           EnrichLiveProcess, RegisterRefused
<1>2. StoreInv /\ TruthInv /\ EventInv /\ [Next]_vars => [Own]_vars
  BY <1>1
<1>3. Spec => [][Own]_vars
  BY <1>2, StoreAlways, TruthAlways, EventsKeepTheirOrder, PTL DEF Spec
<1> QED  BY <1>3 DEF RegisteredKeepsItsEvents
==============================================================================
