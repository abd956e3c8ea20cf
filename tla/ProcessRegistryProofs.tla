------------------------- MODULE ProcessRegistryProofs -------------------------
(***************************************************************************)
(* Theorems about the process registry, for every set of process ids and   *)
(* of image addresses, and every bound.                                    *)
(*                                                                         *)
(* The inductive invariants relate what is on its way (messages at the     *)
(* port, events in the trace, the handler's own event) to the processes it *)
(* is about; lemmas about the two helpers every handler calls,             *)
(* IsProcessInJob and Insert, come first.                                  *)
(***************************************************************************)
EXTENDS ProcessRegistry, SequenceTheorems, TLAPS

USE ProcessRegistryAssumption

------------------------------------------------------------------------------
(* What the helpers do to the state.                                       *)

\* A process that is remembered or asked about has one of the two kinds of id.
LEMMA RunningIds ==
  ASSUME TypeOK
  PROVE  RunningJobPids \subseteq Pids
<1>1. \A l \in Births : life[l] \in Lifetimes
  BY ElementOfSeq, LenProperties DEF TypeOK, Births
<1> QED  BY <1>1 DEF RunningJobPids, Running, Births, Lifetimes

\* Asking about a process only ever adds ids to what is remembered.
LEMMA AskingRemembers ==
  ASSUME TypeOK, NEW pid \in Pids, NEW verdict, IsProcessInJob(pid, verdict)
  PROVE  known \subseteq known' /\ known' \subseteq Pids
BY RunningIds DEF IsProcessInJob, TypeOK

\* Receiving takes the oldest event and nothing else.
LEMMA Receiving ==
  ASSUME TypeOK, NEW kinds, Receive(kinds)
  PROVE  /\ Head(etw) \in Logs /\ etw' \in Seq(Logs)
         /\ \A n \in DOMAIN etw' : etw'[n] = etw[n + 1] /\ n + 1 \in DOMAIN etw
         /\ Head(etw) = etw[1] /\ 1 \in DOMAIN etw
         /\ life' = life /\ events' = events /\ port' = port /\ monitor' = monitor
BY HeadTailProperties, LenProperties DEF Receive, osVars, TypeOK

\* A key of the store is below the next one to be used.
LEMMA KeysAreUsed ==
  ASSUME TypeOK
  PROVE  nextKey \notin DOMAIN store /\ \A k \in DOMAIN store : store[k] \in Entries
BY DEF TypeOK

\* Insert adds at most one entry, under a fresh key, and changes no other.
LEMMA Inserting ==
  ASSUME TypeOK, NEW pid \in Pids, NEW birth \in Nat, Insert(pid, birth)
  PROVE  /\ nextKey' \in Nat \ {0}
         /\ DOMAIN store' \subseteq 1..(nextKey' - 1) /\ store' \in [DOMAIN store' -> Entries]
         /\ DOMAIN store \subseteq DOMAIN store'
         /\ \A k \in DOMAIN store : store'[k] = store[k]
         /\ \A k \in DOMAIN store' \ DOMAIN store :
              /\ k = nextKey /\ store'[k] = Entry(pid, birth)
              /\ \A j \in DOMAIN store : ~SameLifetime(j, pid, birth)
<1>1. CASE \E k \in DOMAIN store : SameLifetime(k, pid, birth)
  BY <1>1 DEF Insert, TypeOK
<1>2. CASE ~\E k \in DOMAIN store : SameLifetime(k, pid, birth)
  <2>1. store' = Put(store, nextKey, Entry(pid, birth)) /\ nextKey' = nextKey + 1
    BY <1>2 DEF Insert
  <2>2. Entry(pid, birth) \in Entries
    BY DEF Entry, Entries
  <2>3. DOMAIN store' = DOMAIN store \cup {nextKey}
    BY <2>1 DEF Put
  <2>4. \A k \in DOMAIN store' : store'[k] = IF k = nextKey THEN Entry(pid, birth) ELSE store[k]
    BY <2>1 DEF Put
  <2>5. store' \in [DOMAIN store' -> Entries]
    BY <2>1, <2>2, <2>3, KeysAreUsed DEF Put
  <2>6. nextKey' \in Nat \ {0} /\ DOMAIN store' \subseteq 1..(nextKey' - 1)
    BY <2>1, <2>3 DEF TypeOK
  <2>7. \A k \in DOMAIN store : store'[k] = store[k]
    BY <2>3, <2>4, KeysAreUsed
  <2>8. \A k \in DOMAIN store' \ DOMAIN store :
          k = nextKey /\ store'[k] = Entry(pid, birth)
    BY <2>3, <2>4
  <2> QED  BY <1>2, <2>3, <2>5, <2>6, <2>7, <2>8
<1> QED  BY <1>1, <1>2

\* An entry that an event is credited to stays an entry of the same lifetime.
LEMMA Crediting ==
  ASSUME NEW entry \in Entries, NEW e \in Logs
  PROVE  LET credited == Credited(entry, e) IN
         /\ credited \in Entries
         /\ credited.pid = entry.pid /\ credited.birth = entry.birth
         /\ credited.running = entry.running
         /\ ~entry.running => credited.loaded \subseteq entry.loaded
<1>1. /\ ImageLoaded(entry, e) \in Entries
      /\ ImageLoaded(entry, e).pid = entry.pid /\ ImageLoaded(entry, e).birth = entry.birth
      /\ ImageLoaded(entry, e).running = entry.running
      /\ ~entry.running => ImageLoaded(entry, e) = entry
  BY DEF ImageLoaded, Entries, Logs
<1>2. /\ ImageUnloaded(entry, e) \in Entries
      /\ ImageUnloaded(entry, e).pid = entry.pid /\ ImageUnloaded(entry, e).birth = entry.birth
      /\ ImageUnloaded(entry, e).running = entry.running
      /\ ImageUnloaded(entry, e).loaded \subseteq entry.loaded
  BY DEF ImageUnloaded, Entries
<1>3. /\ FileRecorded(entry, e) \in Entries
      /\ FileRecorded(entry, e).pid = entry.pid /\ FileRecorded(entry, e).birth = entry.birth
      /\ FileRecorded(entry, e).running = entry.running
      /\ FileRecorded(entry, e).loaded = entry.loaded
  BY DEF FileRecorded, Entries, Logs
<1> QED  BY <1>1, <1>2, <1>3 DEF Credited

------------------------------------------------------------------------------
(* Type correctness.                                                       *)

LEMMA Singleton ==
  ASSUME NEW S, NEW x \in S
  PROVE  <<x>> \in Seq(S)
OBVIOUS

LEMMA InitTyped == Init => TypeOK
<1> SUFFICES ASSUME Init PROVE TypeOK
  OBVIOUS
<1>1. Process(Root, TRUE) \in Lifetimes /\ Message("new", Root) \in Messages /\ NoEvent \in Logs
  BY DEF Process, Lifetimes, Pids, Message, Messages, NoEvent, Logs
<1>2. life \in Seq(Lifetimes)
  BY <1>1, Singleton DEF Init
<1>5. port \in Seq(Messages)
  BY <1>1, Singleton DEF Init
<1>6. etw \in Seq(Logs)
  BY DEF Init
<1>3. nextKey = 1 /\ DOMAIN store = {} /\ store \in [DOMAIN store -> Entries]
  BY DEF Init, EmptyMap
<1>4. /\ handler \in [pc : {"bootstrap"}, event : Logs, birth : Nat]
      /\ known \subseteq Pids /\ events \in Nat /\ monitor = "reading"
  BY <1>1 DEF Init, Pids
<1> QED  BY <1>2, <1>3, <1>4, <1>5, <1>6 DEF TypeOK

LEMMA NextTyped == TypeOK /\ [Next]_vars => TypeOK'
<1> SUFFICES ASSUME TypeOK, [Next]_vars PROVE TypeOK'
  OBVIOUS
<1>lives. \A l \in Births : life[l] \in Lifetimes /\ l \in Nat
  BY ElementOfSeq, LenProperties DEF TypeOK, Births
<1>1. ASSUME NEW pid \in Pids, NEW inJob \in BOOLEAN, Spawn(pid, inJob)
      PROVE  TypeOK'
  <2>1. Append(life, Process(pid, inJob)) \in Seq(Lifetimes) /\ Len(life) + 1 \in Nat
    BY AppendProperties, LenProperties DEF Process, Lifetimes, TypeOK
  <2>2. [kind |-> "start", pid |-> pid, birth |-> Len(life) + 1, base |-> 0] \in Logs
    BY <2>1 DEF Logs
  <2>3. etw' \in Seq(Logs)
    BY <1>1, <2>2, AppendProperties DEF Spawn, Log, TypeOK
  <2>4. Append(port, Message("new", pid)) \in Seq(Messages)
    BY AppendProperties DEF Message, Messages, TypeOK
  <2> QED  BY <1>1, <2>1, <2>3, <2>4 DEF Spawn, TypeOK
<1>2. ASSUME NEW l \in Births, Exit(l)
      PROVE  TypeOK'
  <2>1. life' \in Seq(Lifetimes)
    <3>1. [life[l] EXCEPT !.state = "zombie", !.images = {}] \in Lifetimes
      BY <1>lives DEF Lifetimes
    <3>2. l \in 1..Len(life)
      BY LenProperties DEF TypeOK, Births
    <3>3. life' = [life EXCEPT ![l] = [life[l] EXCEPT !.state = "zombie", !.images = {}]]
      BY <1>2 DEF Exit
    <3> QED  BY <3>1, <3>2, <3>3, ExceptSeq DEF TypeOK
  <2>2. etw' \in Seq(Logs)
    BY <1>2, <1>lives, AppendProperties DEF Exit, Log, Logged, Logs, Lifetimes, TypeOK
  <2>3. port' \in Seq(Messages)
    <3>1. life[l].pid \in Pids
      BY <1>lives DEF Lifetimes
    <3>2. /\ <<Message("exit", life[l].pid), Message("zero", life[l].pid)>> \in Seq(Messages)
          /\ <<Message("exit", life[l].pid)>> \in Seq(Messages)
      BY <3>1 DEF Message, Messages
    <3> QED  BY <1>2, <3>2, ConcatProperties DEF Exit, TypeOK
  <2> QED  BY <1>2, <2>1, <2>2, <2>3 DEF Exit, TypeOK
<1>3. ASSUME NEW l \in Births, Reap(l)
      PROVE  TypeOK'
  <2>1. [life EXCEPT ![l].state = "gone"] \in Seq(Lifetimes)
    <3>1. [life[l] EXCEPT !.state = "gone"] \in Lifetimes
      BY <1>lives DEF Lifetimes
    <3>2. l \in 1..Len(life)
      BY LenProperties DEF TypeOK, Births
    <3> QED  BY <3>1, <3>2, ExceptSeq DEF TypeOK
  <2> QED  BY <1>3, <2>1 DEF Reap, TypeOK
<1>4. ASSUME NEW l \in Births, NEW kind \in {"rundown", "file", "load", "unload"},
             NEW base \in Bases \cup {0}, Act(l, kind, base),
             kind \in {"load", "unload"} => base \in Bases
      PROVE  TypeOK'
  <2>1. life' \in Seq(Lifetimes)
    <3> DEFINE new == IF kind = "load" THEN life[l].images \cup {base}
                      ELSE IF kind = "unload" THEN life[l].images \ {base}
                      ELSE life[l].images
    <3>1. [life[l] EXCEPT !.images = new] \in Lifetimes
      BY <1>lives, <1>4 DEF Lifetimes
    <3>2. l \in 1..Len(life)
      BY LenProperties DEF TypeOK, Births
    <3>3. life' = [life EXCEPT ![l] = [life[l] EXCEPT !.images = new]]
      BY <1>4 DEF Act
    <3> HIDE DEF new
    <3> QED  BY <3>1, <3>2, <3>3, ExceptSeq DEF TypeOK
  <2>2. Logged(kind, l, base) \in Logs
    BY <1>lives DEF Logged, Logs, Lifetimes
  <2>3. etw' \in Seq(Logs)
    BY <1>4, <2>2, AppendProperties DEF Act, Log, TypeOK
  <2> QED  BY <1>4, <2>1, <2>3 DEF Act, TypeOK
<1>5. CASE MonitorJob
  <2>1. Head(port) \in Messages /\ port' \in Seq(Messages)
    BY <1>5, HeadTailProperties DEF MonitorJob, TypeOK
  <2> QED  BY <1>5, <2>1 DEF MonitorJob, KnownAfter, Messages, osVars, TypeOK
<1>6. CASE BootstrapRootProcess
  <2>1. /\ Root \in Pids /\ 1 \in Nat /\ IsProcessInJob(Root, TRUE) /\ Insert(Root, 1)
        /\ Idle \in [pc : {"idle"}, event : Logs, birth : Nat]
    BY <1>6 DEF BootstrapRootProcess, Pids, Idle, NoEvent, Logs
  <2>2. known' \subseteq Pids
    BY <2>1, AskingRemembers
  <2> QED  BY <1>6, <2>1, <2>2, Inserting DEF BootstrapRootProcess, osVars, TypeOK
<1>7. CASE DropForeignEvent
  <2>1. PICK kinds : Receive(kinds)
    BY <1>7 DEF DropForeignEvent
  <2>2. known' \subseteq Pids
    BY <1>7, <2>1, Receiving, AskingRemembers DEF DropForeignEvent, Logs
  <2> QED  BY <1>7, <2>1, <2>2, Receiving DEF DropForeignEvent, TypeOK
<1>8. CASE RegisterProcessEvent
  <2>1. PICK kinds : Receive(kinds)
    BY <1>8 DEF RegisterProcessEvent
  <2>2. known' \subseteq Pids
    BY <1>8, <2>1, Receiving, AskingRemembers DEF RegisterProcessEvent, Logs
  <2>3. handler' \in [pc : {"register"}, event : Logs, birth : Nat]
    BY <1>8, <2>1, Receiving DEF RegisterProcessEvent, Logs
  <2> QED  BY <1>8, <2>1, <2>2, <2>3, Receiving DEF RegisterProcessEvent, TypeOK
<1>9. CASE CreditEvent
  <2>1. PICK kinds : Receive(kinds)
    BY <1>9 DEF CreditEvent
  <2>2. known' \subseteq Pids
    BY <1>9, <2>1, Receiving, AskingRemembers DEF CreditEvent, Logs
  <2>3. PICK k \in DOMAIN store : Update(k, Credited(store[k], Head(etw)))
    BY <1>9 DEF CreditEvent
  <2>4. Credited(store[k], Head(etw)) \in Entries
    BY <2>1, Receiving, KeysAreUsed, Crediting
  <2> QED  BY <1>9, <2>1, <2>2, <2>3, <2>4, Receiving DEF CreditEvent, Update, TypeOK
<1>10. CASE DropFileEvent
  <2>1. PICK kinds : Receive(kinds)
    BY <1>10 DEF DropFileEvent
  <2>2. known' \subseteq Pids
    BY <1>10, <2>1, Receiving, AskingRemembers DEF DropFileEvent, Logs
  <2> QED  BY <1>10, <2>1, <2>2, Receiving DEF DropFileEvent, TypeOK
<1>11. CASE ResolveUnknown
  <2>1. PICK kinds : Receive(kinds)
    BY <1>11 DEF ResolveUnknown
  <2>2. known' \subseteq Pids
    BY <1>11, <2>1, Receiving, AskingRemembers DEF ResolveUnknown, Logs
  <2>3. handler' \in [pc : {"enrich"}, event : Logs, birth : Nat]
    BY <1>11, <2>1, Receiving DEF ResolveUnknown
  <2> QED  BY <1>11, <2>1, <2>2, <2>3, Receiving DEF ResolveUnknown, TypeOK
<1>12. CASE EnrichLiveProcess
  <2>1. Holders(handler.event.pid) \subseteq Nat
    BY <1>lives DEF Holders
  <2>2. PICK birth \in Holders(handler.event.pid) \cup {0} :
          handler' = [handler EXCEPT !.pc = "register", !.birth = birth]
    BY <1>12 DEF EnrichLiveProcess
  <2>3. handler' \in [pc : {"register"}, event : Logs, birth : Nat]
    <3>1. birth \in Nat
      BY <2>1
    <3> QED  BY <2>2, <3>1 DEF TypeOK
  <2> QED  BY <1>12, <2>3 DEF EnrichLiveProcess, osVars, TypeOK
<1>13. CASE RegisterRefused
  <2>1. known' \subseteq Pids
    BY <1>13, AskingRemembers DEF RegisterRefused, TypeOK, Logs
  <2>2. Idle \in [pc : {"idle"}, event : Logs, birth : Nat]
    BY DEF Idle, NoEvent, Logs, Pids
  <2> QED  BY <1>13, <2>1, <2>2 DEF RegisterRefused, osVars, TypeOK
<1>14. CASE Register
  <2>1. handler.event.pid \in Pids /\ handler.birth \in Nat
    BY DEF TypeOK, Logs
  <2>2. known' \subseteq Pids
    BY <1>14, <2>1, AskingRemembers DEF Register
  <2>3. handler' \in [pc : {"idle", "update"}, event : Logs, birth : Nat]
    BY <1>14 DEF Register, Idle, NoEvent, Logs, Pids, TypeOK
  <2>4. Insert(handler.event.pid, handler.birth)
    BY <1>14 DEF Register
  <2> QED  BY <1>14, <2>1, <2>2, <2>3, <2>4, Inserting DEF Register, osVars, TypeOK
<1>15. CASE UpdateRegistered
  <2>1. PICK k \in DOMAIN store : Update(k, Credited(store[k], handler.event))
    BY <1>15 DEF UpdateRegistered
  <2>2. Credited(store[k], handler.event) \in Entries
    BY KeysAreUsed, Crediting DEF TypeOK
  <2>3. Idle \in [pc : {"idle"}, event : Logs, birth : Nat]
    BY DEF Idle, NoEvent, Logs, Pids
  <2> QED  BY <1>15, <2>1, <2>2, <2>3 DEF UpdateRegistered, Update, osVars, TypeOK
<1>16. CASE ProcessStopHandler
  <2>1. PICK kinds : Receive(kinds)
    BY <1>16 DEF ProcessStopHandler
  <2>2. \/ \E k \in DOMAIN store : Update(k, Stopped(store[k]))
        \/ UNCHANGED <<store, nextKey>>
    BY <1>16 DEF ProcessStopHandler, StoppedLifetime
  <2>3. \A k \in DOMAIN store : Stopped(store[k]) \in Entries
    BY KeysAreUsed DEF Stopped, Entries
  <2> QED  BY <1>16, <2>1, <2>2, <2>3, Receiving DEF ProcessStopHandler, Update, TypeOK
<1>17. CASE UNCHANGED vars
  BY <1>17 DEF vars, TypeOK
<1>18. CASE OperatingSystem
  BY <1>18, <1>1, <1>2, <1>3, <1>4 DEF OperatingSystem, Pids
<1> QED
  BY <1>5, <1>6, <1>7, <1>8, <1>9, <1>10, <1>11, <1>12, <1>13, <1>14, <1>15, <1>16, <1>17,
     <1>18 DEF Next, TraceThread

\* Every variable of the registry keeps its type, and store keys stay below nextKey,
\* whichever way the operating system and the two threads interleave.
THEOREM TypeCorrect == Spec => []TypeOK
BY InitTyped, NextTyped, PTL DEF Spec

------------------------------------------------------------------------------
(* What one step can do, seen from the store and from the processes.       *)

\* Only a process judged to be in the job is inserted: the root before the trace
\* is open, or the one the handler has resolved.
Inserts ==
  \E pid \in Pids, birth \in Nat :
    /\ Insert(pid, birth) /\ IsProcessInJob(pid, TRUE)
    /\ \/ handler.pc = "bootstrap" /\ pid = Root /\ birth = 1
       \/ birth # 0 /\ pid = handler.event.pid /\ birth = handler.birth

Credits == \E k \in DOMAIN store, e \in Logs : Update(k, Credited(store[k], e))

Stops ==
  \E k \in DOMAIN store :
    /\ Update(k, Stopped(store[k]))
    /\ etw # <<>> /\ Head(etw).kind = "stop"
    /\ SameLifetime(k, Head(etw).pid, Head(etw).birth)

StoreStep == UNCHANGED <<store, nextKey>> \/ Inserts \/ Credits \/ Stops

KnownStep == UNCHANGED known \/ \E pid \in Pids, v \in BOOLEAN : IsProcessInJob(pid, v)

LEMMA ReceivingIsTyped ==
  ASSUME TypeOK, NEW kinds, Receive(kinds)
  PROVE  Head(etw) \in Logs /\ Head(etw).pid \in Pids /\ UNCHANGED <<life, port>>
BY Receiving DEF Logs

LEMMA TraceThreadSteps ==
  ASSUME TypeOK, TraceThread
  PROVE  StoreStep /\ KnownStep /\ UNCHANGED <<life, port>>
<1>1. CASE BootstrapRootProcess
  <2>1. Inserts
    BY <1>1 DEF BootstrapRootProcess, Inserts, Pids
  <2>2. KnownStep
    BY <1>1 DEF BootstrapRootProcess, KnownStep, Pids
  <2> QED  BY <1>1, <2>1, <2>2 DEF BootstrapRootProcess, StoreStep, osVars
<1>2. CASE DropForeignEvent
  BY <1>2, ReceivingIsTyped DEF DropForeignEvent, StoreStep, KnownStep
<1>3. CASE RegisterProcessEvent
  BY <1>3, ReceivingIsTyped DEF RegisterProcessEvent, StoreStep, KnownStep
<1>4. CASE CreditEvent
  BY <1>4, ReceivingIsTyped DEF CreditEvent, StoreStep, Credits, KnownStep
<1>5. CASE DropFileEvent
  BY <1>5, ReceivingIsTyped DEF DropFileEvent, StoreStep, KnownStep
<1>6. CASE ResolveUnknown
  BY <1>6, ReceivingIsTyped DEF ResolveUnknown, StoreStep, KnownStep
<1>7. CASE EnrichLiveProcess
  BY <1>7 DEF EnrichLiveProcess, StoreStep, KnownStep, osVars
<1>8. CASE RegisterRefused
  <2>1. KnownStep
    BY <1>8 DEF RegisterRefused, KnownStep, TypeOK, Logs
  <2> QED  BY <1>8, <2>1 DEF RegisterRefused, StoreStep, osVars
<1>9. CASE Register
  <2>1. handler.event.pid \in Pids /\ handler.birth \in Nat
    BY DEF TypeOK, Logs
  <2>2. Inserts
    BY <1>9, <2>1 DEF Register, Inserts
  <2>3. KnownStep
    BY <1>9, <2>1 DEF Register, KnownStep
  <2> QED  BY <1>9, <2>2, <2>3 DEF Register, StoreStep, osVars
<1>10. CASE UpdateRegistered
  <2>1. Credits
    BY <1>10 DEF UpdateRegistered, Credits, TypeOK
  <2> QED  BY <1>10, <2>1 DEF UpdateRegistered, StoreStep, KnownStep, osVars
<1>11. CASE ProcessStopHandler
  <2>1. Stops \/ UNCHANGED <<store, nextKey>>
    BY <1>11 DEF ProcessStopHandler, StoppedLifetime, Stops, Receive
  <2>2. UNCHANGED <<life, port>>
    BY <1>11, ReceivingIsTyped DEF ProcessStopHandler
  <2> QED  BY <1>11, <2>1, <2>2 DEF ProcessStopHandler, StoreStep, KnownStep
<1> QED
  BY <1>1, <1>2, <1>3, <1>4, <1>5, <1>6, <1>7, <1>8, <1>9, <1>10, <1>11 DEF TraceThread

\* The other steps leave the store alone.
LEMMA StoreSteps ==
  ASSUME TypeOK, [Next]_vars
  PROVE  StoreStep
<1>1. CASE TraceThread
  BY <1>1, TraceThreadSteps
<1>2. CASE OperatingSystem \/ MonitorJob \/ UNCHANGED vars
  BY <1>2 DEF OperatingSystem, Spawn, Exit, Reap, Act, MonitorJob, vars, StoreStep
<1> QED  BY <1>1, <1>2 DEF Next

\* How a step of the store changes an entry that was there, and what a new one is.
LEMMA EntriesStep ==
  ASSUME TypeOK, StoreStep
  PROVE  /\ DOMAIN store \subseteq DOMAIN store'
         /\ \A k \in DOMAIN store :
              /\ store'[k].pid = store[k].pid /\ store'[k].birth = store[k].birth
              /\ store'[k].running => store[k].running
              /\ ~store[k].running => store'[k].loaded \subseteq store[k].loaded
              /\ ~store'[k].running =>
                   \/ ~store[k].running
                   \/ /\ etw # <<>> /\ Head(etw).kind = "stop"
                      /\ SameLifetime(k, Head(etw).pid, Head(etw).birth)
                      /\ store'[k].loaded = {}
<1>1. CASE UNCHANGED <<store, nextKey>>
  BY <1>1
<1>2. CASE Inserts
  BY <1>2, Inserting DEF Inserts
<1>3. CASE Credits
  <2>1. PICK k \in DOMAIN store, e \in Logs : Update(k, Credited(store[k], e))
    BY <1>3 DEF Credits
  <2>2. /\ DOMAIN store' = DOMAIN store
        /\ \A j \in DOMAIN store : store'[j] = IF j = k THEN Credited(store[k], e) ELSE store[j]
    BY <2>1 DEF Update, TypeOK
  <2> QED  BY <2>2, KeysAreUsed, Crediting
<1>4. CASE Stops
  <2>1. PICK k \in DOMAIN store :
          /\ Update(k, Stopped(store[k]))
          /\ etw # <<>> /\ Head(etw).kind = "stop"
          /\ SameLifetime(k, Head(etw).pid, Head(etw).birth)
    BY <1>4 DEF Stops
  <2>2. /\ DOMAIN store' = DOMAIN store
        /\ \A j \in DOMAIN store : store'[j] = IF j = k THEN Stopped(store[k]) ELSE store[j]
    BY <2>1 DEF Update, TypeOK
  <2>3. /\ Stopped(store[k]).pid = store[k].pid /\ Stopped(store[k]).birth = store[k].birth
        /\ Stopped(store[k]).running = FALSE /\ Stopped(store[k]).loaded = {}
    BY KeysAreUsed DEF Stopped, Entries
  <2> QED  BY <2>1, <2>2, <2>3
<1> QED  BY <1>1, <1>2, <1>3, <1>4 DEF StoreStep

\* A key that was not in the store holds a running process without images.
LEMMA NewEntriesStep ==
  ASSUME TypeOK, StoreStep, NEW k \in DOMAIN store', k \notin DOMAIN store
  PROVE  /\ store'[k].running /\ store'[k].loaded = {}
         /\ k = nextKey /\ Inserts
         /\ \A j \in DOMAIN store : ~SameLifetime(j, store'[k].pid, store'[k].birth)
         /\ \/ handler.pc = "bootstrap" /\ store'[k].pid = Root /\ store'[k].birth = 1
            \/ /\ store'[k].pid = handler.event.pid
               /\ store'[k].birth = handler.birth /\ handler.birth # 0
<1>1. Inserts
  BY DEF StoreStep, Credits, Stops, Update, TypeOK
<1>2. PICK pid \in Pids, birth \in Nat :
        /\ Insert(pid, birth) /\ IsProcessInJob(pid, TRUE)
        /\ \/ handler.pc = "bootstrap" /\ pid = Root /\ birth = 1
           \/ birth # 0 /\ pid = handler.event.pid /\ birth = handler.birth
  BY <1>1 DEF Inserts
<1>3. k = nextKey /\ store'[k] = Entry(pid, birth) /\ \A j \in DOMAIN store : ~SameLifetime(j, pid, birth)
  BY <1>2, Inserting
<1> QED  BY <1>1, <1>2, <1>3 DEF Entry

------------------------------------------------------------------------------
(* The store.                                                              *)

StoreInv == TypeOK /\ OneEntryPerLifetime /\ StoppedHasNoImages

LEMMA InitStore == Init => StoreInv
BY InitTyped DEF Init, EmptyMap, StoreInv, OneEntryPerLifetime, StoppedHasNoImages

LEMMA NextStore == StoreInv /\ [Next]_vars => StoreInv'
<1> SUFFICES ASSUME StoreInv, [Next]_vars PROVE StoreInv'
  OBVIOUS
<1>1. TypeOK /\ TypeOK' /\ StoreStep
  BY NextTyped, StoreSteps DEF StoreInv
<1>2. OneEntryPerLifetime'
  <2> SUFFICES ASSUME NEW j \in DOMAIN store', NEW k \in DOMAIN store', j # k,
                      store'[j].pid = store'[k].pid, store'[j].birth = store'[k].birth
               PROVE  FALSE
    BY DEF OneEntryPerLifetime
  <2>1. CASE j \in DOMAIN store /\ k \in DOMAIN store
    BY <1>1, <2>1, EntriesStep DEF StoreInv, OneEntryPerLifetime
  <2>2. CASE j \in DOMAIN store /\ k \notin DOMAIN store
    BY <1>1, <2>2, EntriesStep, NewEntriesStep DEF SameLifetime
  <2>3. CASE j \notin DOMAIN store /\ k \in DOMAIN store
    BY <1>1, <2>3, EntriesStep, NewEntriesStep DEF SameLifetime
  <2>4. CASE j \notin DOMAIN store /\ k \notin DOMAIN store
    BY <1>1, <2>4, NewEntriesStep
  <2> QED  BY <2>1, <2>2, <2>3, <2>4
<1>3. StoppedHasNoImages'
  <2> SUFFICES ASSUME NEW k \in DOMAIN store', ~store'[k].running
               PROVE  store'[k].loaded = {}
    BY DEF StoppedHasNoImages
  <2>1. k \in DOMAIN store
    BY <1>1, NewEntriesStep
  <2> QED  BY <1>1, <2>1, EntriesStep DEF StoreInv, StoppedHasNoImages
<1> QED  BY <1>1, <1>2, <1>3 DEF StoreInv

LEMMA StoreAlways == Spec => []StoreInv
BY InitStore, NextStore, PTL DEF Spec

\* Bootstrap, start, rundown and the first image event may all try to register a
\* process: the store never holds two entries for one lifetime.
THEOREM LifetimeIsUnique == Spec => []OneEntryPerLifetime
<1>1. StoreInv => OneEntryPerLifetime
  BY DEF StoreInv
<1> QED  BY <1>1, StoreAlways, PTL

\* No image is recorded as loaded in a process that has stopped, however late the
\* image events of that process, or of the next one with its id, arrive.
THEOREM StoppedProcessHasNoImages == Spec => []StoppedHasNoImages
<1>1. StoreInv => StoppedHasNoImages
  BY DEF StoreInv
<1> QED  BY <1>1, StoreAlways, PTL

\* Entries stay in the store, stay about the process they were made for, and never
\* go back from stopped to running.
THEOREM StoreIsPermanent == Spec => EntriesArePermanent
<1> DEFINE Permanent ==
      \A k \in DOMAIN store :
        /\ k \in DOMAIN store'
        /\ store'[k].pid = store[k].pid /\ store'[k].birth = store[k].birth
        /\ store'[k].running => store[k].running
<1>1. TypeOK /\ [Next]_vars => Permanent
  BY StoreSteps, EntriesStep
<1>2. TypeOK /\ [Next]_vars => [Permanent]_vars
  BY <1>1
<1>3. Spec => [][Permanent]_vars
  BY <1>2, TypeCorrect, PTL DEF Spec
<1> QED  BY <1>3 DEF EntriesArePermanent

------------------------------------------------------------------------------
(* The processes: what they were stays true while events about them wait.  *)

\* Processes are added at the end, keep their id and their job, and stay ended.
LifeStep ==
  /\ Births \subseteq Births'
  /\ \A l \in Births : /\ life'[l].pid = life[l].pid
                       /\ life'[l].inJob = life[l].inJob
                       /\ ~Running(l) => ~Running(l)'

LEMMA LifeSteps ==
  ASSUME TypeOK, [Next]_vars
  PROVE  LifeStep
<1>lives. Births = 1..Len(life) /\ Len(life) \in Nat /\ \A l \in Births : life[l] \in Lifetimes
  BY ElementOfSeq, LenProperties DEF TypeOK, Births
<1>1. ASSUME NEW pid \in Pids, NEW inJob \in BOOLEAN, Spawn(pid, inJob)
      PROVE  LifeStep
  <2>1. /\ Len(life') = Len(life) + 1 /\ DOMAIN life' = 1..(Len(life) + 1)
        /\ \A l \in 1..Len(life) : life'[l] = life[l]
    BY <1>1, AppendProperties, LenProperties DEF Spawn, Process, Lifetimes, TypeOK
  <2> QED  BY <2>1, <1>lives DEF LifeStep, Births, Running
<1>2. ASSUME NEW l \in Births, Exit(l)
      PROVE  LifeStep
  <2>1. /\ DOMAIN life' = DOMAIN life
        /\ \A m \in Births :
             life'[m] = IF m = l THEN [life[l] EXCEPT !.state = "zombie", !.images = {}] ELSE life[m]
    BY <1>2 DEF Exit, Births, TypeOK
  <2> QED  BY <2>1, <1>lives DEF LifeStep, Births, Running, Lifetimes
<1>3. ASSUME NEW l \in Births, Reap(l)
      PROVE  LifeStep
  <2>1. /\ DOMAIN life' = DOMAIN life
        /\ \A m \in Births : life'[m] = IF m = l THEN [life[l] EXCEPT !.state = "gone"] ELSE life[m]
    BY <1>3 DEF Reap, Births, TypeOK
  <2> QED  BY <2>1, <1>lives DEF LifeStep, Births, Running, Lifetimes
<1>4. ASSUME NEW l \in Births, NEW kind, NEW base, Act(l, kind, base)
      PROVE  LifeStep
  <2>1. PICK new : life' = [life EXCEPT ![l].images = new]
    BY <1>4 DEF Act
  <2>2. /\ DOMAIN life' = DOMAIN life
        /\ \A m \in Births : life'[m] = IF m = l THEN [life[l] EXCEPT !.images = new] ELSE life[m]
    BY <2>1 DEF Births, TypeOK
  <2> QED  BY <2>2, <1>lives DEF LifeStep, Births, Running, Lifetimes
<1>5. CASE MonitorJob \/ TraceThread \/ UNCHANGED vars
  <2>1. life' = life
    BY <1>5, TraceThreadSteps DEF MonitorJob, osVars, vars
  <2> QED  BY <2>1 DEF LifeStep, Births, Running
<1>6. CASE OperatingSystem
  BY <1>6, <1>1, <1>2, <1>3, <1>4 DEF OperatingSystem, Pids
<1> QED  BY <1>5, <1>6 DEF Next

\* An event is about a process that existed when it was logged, names its id, and
\* announces an end only when it has ended.
Truthful(e) ==
  /\ e.birth \in Births /\ e.pid = life[e.birth].pid
  /\ e.kind = "stop" => ~Running(e.birth)

\* The three places where the supervisor holds on to a process: events in the
\* trace, the event being handled, and the store.
EventsTruthful == \A n \in DOMAIN etw : Truthful(etw[n])

HandlerTruthful ==
  /\ handler.pc = "bootstrap" => 1 \in Births /\ life[1].pid = Root
  /\ handler.birth # 0 => handler.birth \in Births /\ life[handler.birth].pid = handler.event.pid

StoreTruthful ==
  \A k \in DOMAIN store : store[k].birth \in Births /\ life[store[k].birth].pid = store[k].pid

TruthInv == TypeOK /\ EventsTruthful /\ HandlerTruthful /\ StoreTruthful /\ StoppedHasEnded

LEMMA TruthLasts ==
  ASSUME LifeStep, NEW e, Truthful(e)
  PROVE  Truthful(e)'
BY DEF LifeStep, Truthful, Births

\* The trace loses its oldest event, gains a truthful one, or stays as it is.
TraceStep ==
  \/ etw' = etw
  \/ etw # <<>> /\ etw' = Tail(etw)
  \/ \E e \in Logs : etw' = Append(etw, e) /\ Truthful(e)'

LEMMA TraceSteps ==
  ASSUME TypeOK, [Next]_vars
  PROVE  TraceStep
<1>lives. Births = 1..Len(life) /\ Len(life) \in Nat /\ \A l \in Births : life[l] \in Lifetimes
  BY ElementOfSeq, LenProperties DEF TypeOK, Births
<1>life. LifeStep
  BY LifeSteps
<1>1. ASSUME NEW pid \in Pids, NEW inJob \in BOOLEAN, Spawn(pid, inJob)
      PROVE  TraceStep
  <2> DEFINE start == [kind |-> "start", pid |-> pid, birth |-> Len(life) + 1, base |-> 0]
  <2>1. PICK e \in Logs : e = start
    <3>1. start \in Logs
      BY <1>lives DEF Logs
    <3> QED  BY <3>1, Zenon
  <2>2. Len(life) + 1 \in DOMAIN life' /\ life'[Len(life) + 1].pid = pid
    BY <1>1, AppendProperties, LenProperties DEF Spawn, Process, Lifetimes, TypeOK
  <2>3. Truthful(e)'
    BY <2>1, <2>2 DEF Truthful, Births
  <2> QED  BY <1>1, <2>1, <2>3 DEF TraceStep, Spawn, Log
<1>2. ASSUME NEW l \in Births, Exit(l)
      PROVE  TraceStep
  <2>1. PICK e \in Logs : e = Logged("stop", l, 0)
    <3>1. Logged("stop", l, 0) \in Logs
      BY <1>lives DEF Logged, Logs, Lifetimes
    <3> QED  BY <3>1, Zenon
  <2>2. life'[l].state = "zombie" /\ life'[l].pid = life[l].pid /\ l \in DOMAIN life'
    BY <1>2, <1>lives DEF Exit, Births, Lifetimes, TypeOK
  <2>3. Truthful(e)'
    BY <2>1, <2>2 DEF Truthful, Births, Running, Logged
  <2> QED  BY <1>2, <2>1, <2>3 DEF TraceStep, Exit, Log
<1>3. ASSUME NEW l \in Births, NEW kind \in {"rundown", "file", "load", "unload"},
             NEW base \in Bases \cup {0}, Act(l, kind, base)
      PROVE  TraceStep
  <2>1. PICK e \in Logs : e = Logged(kind, l, base)
    <3>1. Logged(kind, l, base) \in Logs
      BY <1>lives DEF Logged, Logs, Lifetimes
    <3> QED  BY <3>1, Zenon
  <2>2. Truthful(e)'
    BY <1>life, <2>1 DEF Truthful, LifeStep, Logged
  <2> QED  BY <1>3, <2>1, <2>2 DEF TraceStep, Act, Log
<1>4. CASE TraceThread
  BY <1>4 DEF TraceThread, BootstrapRootProcess, DropForeignEvent, RegisterProcessEvent,
     CreditEvent, DropFileEvent, ResolveUnknown, EnrichLiveProcess, RegisterRefused, Register,
     UpdateRegistered, ProcessStopHandler, Receive, TraceStep
<1>5. CASE MonitorJob \/ UNCHANGED vars
  BY <1>5 DEF MonitorJob, vars, TraceStep
<1>6. CASE OperatingSystem
  <2>1. ASSUME NEW l \in Births, Reap(l) PROVE TraceStep
    BY <2>1 DEF Reap, TraceStep
  <2> QED  BY <1>6, <1>1, <1>2, <1>3, <2>1 DEF OperatingSystem, Pids
<1> QED  BY <1>4, <1>5, <1>6 DEF Next

LEMMA InitTruth == Init => TruthInv
<1> SUFFICES ASSUME Init PROVE TruthInv
  OBVIOUS
<1>1. DOMAIN store = {} /\ DOMAIN etw = {}
  BY DEF Init, EmptyMap
<1>2. handler.birth = 0 /\ 1 \in Births /\ life[1].pid = Root
  BY DEF Init, Births, Process
<1> QED
  BY <1>1, <1>2, InitTyped
     DEF TruthInv, EventsTruthful, HandlerTruthful, StoreTruthful, StoppedHasEnded

LEMMA NextTruth == TruthInv /\ [Next]_vars => TruthInv'
<1> SUFFICES ASSUME TruthInv, [Next]_vars PROVE TruthInv'
  OBVIOUS
<1>1. TypeOK /\ TypeOK' /\ StoreStep /\ LifeStep /\ TraceStep
  BY NextTyped, StoreSteps, LifeSteps, TraceSteps DEF TruthInv
<1>2. EventsTruthful'
  <2>1. CASE etw' = etw
    BY <1>1, <2>1, TruthLasts DEF TruthInv, EventsTruthful
  <2>2. CASE etw # <<>> /\ etw' = Tail(etw)
    <3>1. \A n \in DOMAIN etw' : n + 1 \in DOMAIN etw /\ etw'[n] = etw[n + 1]
      BY <1>1, <2>2, HeadTailProperties, LenProperties DEF TypeOK
    <3> QED  BY <1>1, <3>1, TruthLasts DEF TruthInv, EventsTruthful
  <2>3. ASSUME NEW e \in Logs, etw' = Append(etw, e), Truthful(e)'
        PROVE  EventsTruthful'
    <3>1. \A n \in DOMAIN etw' : (n \in DOMAIN etw /\ etw'[n] = etw[n]) \/ etw'[n] = e
      BY <1>1, <2>3, AppendProperties, LenProperties DEF TypeOK
    <3> QED  BY <1>1, <2>3, <3>1, TruthLasts DEF TruthInv, EventsTruthful
  <2> QED  BY <1>1, <2>1, <2>2, <2>3 DEF TraceStep
<1>3. HandlerTruthful'
  <2>1. CASE handler' = handler
    BY <1>1, <2>1 DEF TruthInv, HandlerTruthful, LifeStep, Births
  <2>2. CASE handler' # handler
    <3>1. life' = life
      BY <2>2, <1>1, TraceThreadSteps
         DEF Next, OperatingSystem, Spawn, Exit, Reap, Act, MonitorJob, vars
    <3>2. CASE handler' = Idle
      BY <3>2 DEF HandlerTruthful, Idle
    <3>3. CASE RegisterProcessEvent
      <4>1. Truthful(Head(etw))
        BY <1>1, <3>3, Receiving DEF RegisterProcessEvent, TruthInv, EventsTruthful
      <4> QED  BY <3>1, <3>3, <4>1 DEF RegisterProcessEvent, HandlerTruthful, Truthful, Births
    <3>4. CASE ResolveUnknown
      BY <3>4 DEF ResolveUnknown, HandlerTruthful
    <3>5. CASE EnrichLiveProcess
      <4>1. \/ handler'.birth = 0
            \/ handler'.birth \in Holders(handler.event.pid)
        BY <3>5, <1>1 DEF EnrichLiveProcess, TypeOK
      <4>2. handler'.pc = "register" /\ handler'.event = handler.event
        BY <3>5, <1>1 DEF EnrichLiveProcess, TypeOK
      <4> QED  BY <3>1, <4>1, <4>2 DEF HandlerTruthful, Holders, Births
    <3>6. CASE Register
      <4>1. handler' = Idle \/ handler' = [handler EXCEPT !.pc = "update"]
        BY <3>6 DEF Register
      <4>2. CASE handler' = [handler EXCEPT !.pc = "update"]
        <5>1. /\ handler'.pc = "update" /\ handler'.event = handler.event
              /\ handler'.birth = handler.birth
          BY <4>2, <1>1 DEF TypeOK
        <5> QED  BY <3>1, <5>1 DEF TruthInv, HandlerTruthful, Births
      <4> QED  BY <4>1, <4>2, <3>2
    <3> QED
      BY <2>2, <3>2, <3>3, <3>4, <3>5, <3>6
         DEF Next, OperatingSystem, Spawn, Exit, Reap, Act, MonitorJob, vars, TraceThread,
             BootstrapRootProcess, DropForeignEvent, CreditEvent, DropFileEvent, RegisterRefused,
             UpdateRegistered, ProcessStopHandler
  <2> QED  BY <2>1, <2>2
<1>4. StoreTruthful'
  <2> SUFFICES ASSUME NEW k \in DOMAIN store'
               PROVE  store'[k].birth \in Births' /\ life'[store'[k].birth].pid = store'[k].pid
    BY DEF StoreTruthful
  <2>1. CASE k \in DOMAIN store
    BY <1>1, <2>1, EntriesStep DEF TruthInv, StoreTruthful, LifeStep
  <2>2. CASE k \notin DOMAIN store
    BY <1>1, <2>2, NewEntriesStep DEF TruthInv, HandlerTruthful, LifeStep
  <2> QED  BY <2>1, <2>2
<1>5. StoppedHasEnded'
  <2> SUFFICES ASSUME NEW k \in DOMAIN store', NEW l \in Births',
                      store'[k].pid = life'[l].pid, store'[k].birth = l, ~store'[k].running
               PROVE  ~Running(l)'
    BY DEF StoppedHasEnded, Describes
  <2>1. k \in DOMAIN store
    BY <1>1, NewEntriesStep
  <2>2. store[k].birth = l /\ l \in Births /\ store[k].pid = life[l].pid
    BY <1>1, <2>1, EntriesStep DEF TruthInv, StoreTruthful
  <2>3. CASE ~store[k].running
    BY <1>1, <2>1, <2>2, <2>3 DEF TruthInv, StoppedHasEnded, Describes, LifeStep
  <2>4. CASE etw # <<>> /\ Head(etw).kind = "stop" /\ SameLifetime(k, Head(etw).pid, Head(etw).birth)
    <3>1. Truthful(Head(etw))
      BY <1>1, <2>4, HeadTailProperties, LenProperties DEF TypeOK, TruthInv, EventsTruthful
    <3> QED  BY <1>1, <2>2, <2>4, <3>1 DEF Truthful, SameLifetime, LifeStep
  <2> QED  BY <1>1, <2>1, <2>3, <2>4, EntriesStep
<1> QED  BY <1>1, <1>2, <1>3, <1>4, <1>5 DEF TruthInv

LEMMA TruthAlways == Spec => []TruthInv
BY InitTruth, NextTruth, PTL DEF Spec

\* A late stop event never stops the next process that got its id.
THEOREM StopsOnlyTheEnded == Spec => []StoppedHasEnded
<1>1. TruthInv => StoppedHasEnded
  BY DEF TruthInv
<1> QED  BY <1>1, TruthAlways, PTL

------------------------------------------------------------------------------
(* Membership.                                                             *)

\* The ids of the job's processes, of the messages about them, and of what is
\* remembered.
IdsOfJob ==
  /\ \A l \in Births : IF life[l].inJob THEN life[l].pid \in JobPids ELSE life[l].pid \in OtherPids
  /\ \A n \in DOMAIN port : port[n].kind = "new" => port[n].pid \in JobPids
  /\ known \subseteq JobPids

MemberInv == TypeOK /\ IdsOfJob /\ JobPidsTracked

\* Whoever IsProcessInJob accepts, or remembers, has an id of the job.
LEMMA JudgedIds ==
  ASSUME TypeOK, IdsOfJob, NEW pid, NEW verdict, IsProcessInJob(pid, verdict)
  PROVE  (verdict = TRUE => pid \in JobPids) /\ known \subseteq known' /\ known' \subseteq JobPids
<1>1. RunningJobPids \subseteq JobPids
  BY DEF IdsOfJob, RunningJobPids
<1>2. \A l \in Holders(pid) : life[l].inJob => pid \in JobPids
  BY DEF IdsOfJob, Holders
<1> QED  BY <1>1, <1>2 DEF IdsOfJob, IsProcessInJob, EndedJobPid

LEMMA KnownGrows ==
  ASSUME TypeOK, IdsOfJob, KnownStep
  PROVE  known \subseteq known' /\ known' \subseteq JobPids
BY JudgedIds DEF KnownStep, IdsOfJob

\* A process that gets an entry has an id of the job.
LEMMA NewEntryIsOfJob ==
  ASSUME TypeOK, IdsOfJob, StoreStep, NEW k \in DOMAIN store', k \notin DOMAIN store
  PROVE  store'[k].pid \in JobPids
<1>1. PICK pid \in Pids, birth \in Nat : Insert(pid, birth) /\ IsProcessInJob(pid, TRUE)
  BY NewEntriesStep DEF Inserts
<1>2. store'[k] = Entry(pid, birth)
  BY <1>1, Inserting
<1>3. pid \in JobPids
  BY <1>1, JudgedIds
<1> QED  BY <1>2, <1>3 DEF Entry

LEMMA InitMember == Init => MemberInv
<1> SUFFICES ASSUME Init PROVE MemberInv
  OBVIOUS
<1>1. DOMAIN life = {1} /\ life[1] = Process(Root, TRUE)
  BY DEF Init
<1>2. DOMAIN port = {1} /\ port[1] = Message("new", Root)
  BY DEF Init
<1>3. known = {Root}
  BY DEF Init
<1>4. IdsOfJob
  BY <1>1, <1>2, <1>3 DEF IdsOfJob, Births, Process, Message
<1>5. JobPidsTracked
  BY <1>1, <1>3 DEF JobPidsTracked, Births, Process
<1> QED  BY <1>4, <1>5, InitTyped DEF MemberInv

LEMMA NextMember == MemberInv /\ [Next]_vars => MemberInv'
<1> SUFFICES ASSUME MemberInv, [Next]_vars PROVE IdsOfJob' /\ JobPidsTracked'
  BY NextTyped DEF MemberInv
<1>typed. TypeOK /\ TypeOK' /\ IdsOfJob /\ JobPidsTracked /\ LifeStep
  BY NextTyped, LifeSteps DEF MemberInv
<1>ports. DOMAIN port = 1..Len(port) /\ Len(port) \in Nat /\ \A n \in DOMAIN port : port[n] \in Messages
  BY ElementOfSeq, LenProperties DEF TypeOK, MemberInv
<1>lives. \A l \in Births : life[l] \in Lifetimes
  BY <1>typed, ElementOfSeq, LenProperties DEF TypeOK, Births
<1>1. ASSUME NEW pid \in Pids, NEW inJob \in BOOLEAN, Spawn(pid, inJob),
             IF inJob THEN pid \in JobPids ELSE pid \in OtherPids
      PROVE  IdsOfJob' /\ JobPidsTracked'
  <2>1. \A l \in Births' : \/ l \in Births /\ life'[l] = life[l]
                           \/ life'[l] = Process(pid, inJob)
    BY <1>1, <1>typed, AppendProperties, LenProperties
       DEF Spawn, Process, Lifetimes, Births, TypeOK
  <2>2. known' = known
    BY <1>1 DEF Spawn
  <2>3. CASE inJob
    <3>1. Message("new", pid) \in Messages /\ port' = Append(port, Message("new", pid))
      BY <1>1, <2>3 DEF Spawn, Message, Messages
    <3>2. /\ DOMAIN port' = 1..(Len(port) + 1) /\ port'[Len(port) + 1] = Message("new", pid)
          /\ \A n \in DOMAIN port : port'[n] = port[n]
      BY <3>1, <1>typed, <1>ports, AppendProperties, LenProperties DEF TypeOK
    <3>3. IdsOfJob'
      BY <1>1, <1>typed, <1>ports, <2>1, <2>2, <2>3, <3>2 DEF IdsOfJob, Process, Message
    <3>4. JobPidsTracked'
      BY <1>typed, <1>ports, <2>1, <2>2, <3>2 DEF JobPidsTracked, Process
    <3> QED  BY <3>3, <3>4
  <2>4. CASE ~inJob
    <3>1. port' = port
      BY <1>1, <2>4 DEF Spawn
    <3> QED  BY <1>1, <1>typed, <2>1, <2>2, <2>4, <3>1 DEF IdsOfJob, JobPidsTracked, Process
  <2> QED  BY <2>3, <2>4
<1>2. ASSUME NEW l \in Births, Exit(l)
      PROVE  IdsOfJob' /\ JobPidsTracked'
  <2>1. /\ DOMAIN life' = DOMAIN life
        /\ \A m \in Births : life'[m].pid = life[m].pid /\ life'[m].inJob = life[m].inJob
    BY <1>2, <1>typed DEF Exit, LifeStep, Births, TypeOK
  <2>2. \E s \in Seq(Messages) :
          port' = port \o s /\ \A n \in 1..Len(s) : s[n].kind # "new"
    <3>1. life[l].pid \in Pids
      BY <1>lives DEF Lifetimes
    <3>2. CASE port' = port
      <4>1. <<>> \in Seq(Messages) /\ port \o <<>> = port /\ Len(<<>>) = 0
        BY <1>typed, ConcatEmptySeq, EmptySeq DEF TypeOK
      <4>2. \A n \in 1..Len(<<>>) : <<>>[n].kind # "new"
        BY <4>1
      <4> QED  BY <3>2, <4>1, <4>2, Zenon
    <3>3. CASE port' = port \o <<Message("exit", life[l].pid)>>
      <4>1. PICK m \in Messages : m = Message("exit", life[l].pid)
        BY <3>1 DEF Message, Messages
      <4>2. <<m>> \in Seq(Messages) /\ \A n \in 1..Len(<<m>>) : <<m>>[n].kind # "new"
        BY <4>1 DEF Message
      <4> QED  BY <3>3, <4>1, <4>2
    <3>4. CASE port' = port \o <<Message("exit", life[l].pid), Message("zero", life[l].pid)>>
      <4>1. PICK m \in Messages, z \in Messages :
              m = Message("exit", life[l].pid) /\ z = Message("zero", life[l].pid)
        BY <3>1 DEF Message, Messages
      <4>2. <<m, z>> \in Seq(Messages) /\ \A n \in 1..Len(<<m, z>>) : <<m, z>>[n].kind # "new"
        BY <4>1 DEF Message
      <4> QED  BY <3>4, <4>1, <4>2
    <3> QED  BY <1>2, <3>2, <3>3, <3>4 DEF Exit
  <2>3. PICK s \in Seq(Messages) : port' = port \o s /\ \A n \in 1..Len(s) : s[n].kind # "new"
    BY <2>2
  <2>4. /\ DOMAIN port' = 1..(Len(port) + Len(s)) /\ Len(s) \in Nat
        /\ \A n \in DOMAIN port' : port'[n] = IF n <= Len(port) THEN port[n] ELSE s[n - Len(port)]
    BY <2>3, <1>typed, ConcatProperties, LenProperties DEF TypeOK
  <2>5. /\ \A n \in DOMAIN port : n \in DOMAIN port' /\ port'[n] = port[n]
        /\ \A n \in DOMAIN port' : n \in DOMAIN port \/ port'[n].kind # "new"
    BY <2>3, <2>4, <1>ports
  <2>6. known' = known
    BY <1>2 DEF Exit
  <2> QED  BY <1>typed, <2>1, <2>4, <2>5, <2>6, <1>ports DEF IdsOfJob, JobPidsTracked, Births
<1>3. CASE MonitorJob
  <2>1. life' = life /\ port # <<>> /\ port' = Tail(port) /\ known' = KnownAfter(Head(port))
    BY <1>3 DEF MonitorJob, osVars
  <2>2. /\ \A n \in DOMAIN port' : n + 1 \in DOMAIN port /\ port'[n] = port[n + 1]
        /\ \A n \in DOMAIN port : n = 1 \/ (n - 1 \in DOMAIN port' /\ port'[n - 1] = port[n])
        /\ Head(port) = port[1] /\ 1 \in DOMAIN port
    <3>1. /\ DOMAIN port' = 1..(Len(port) - 1)
          /\ \A n \in 1..(Len(port) - 1) : port'[n] = port[n + 1]
      BY <2>1, <1>typed, HeadTailProperties, LenProperties DEF TypeOK
    <3>2. Head(port) = port[1] /\ 1 \in DOMAIN port
      BY <2>1, <1>typed, <1>ports, EmptySeq DEF TypeOK
    <3> QED  BY <1>ports, <3>1, <3>2
  <2>3. known' \subseteq JobPids /\ \A n \in DOMAIN port' : port'[n].kind = "new" => port'[n].pid \in JobPids
    <3>1. KnownAfter(Head(port)) \subseteq JobPids
      BY <1>typed, <2>2 DEF IdsOfJob, KnownAfter
    <3>2. \A n \in DOMAIN port' : port'[n].kind = "new" => port'[n].pid \in JobPids
      BY <1>typed, <2>2 DEF IdsOfJob
    <3> QED  BY <2>1, <3>1, <3>2
  <2>4. JobPidsTracked'
    <3> SUFFICES ASSUME NEW l \in Births, life[l].inJob
                 PROVE  \/ life[l].pid \in known'
                        \/ \E n \in DOMAIN port' : port'[n] = Message("new", life[l].pid)
      BY <2>1 DEF JobPidsTracked, Births
    <3>1. CASE life[l].pid \in known
      BY <2>1, <3>1 DEF KnownAfter
    <3>2. ASSUME NEW n \in DOMAIN port, port[n] = Message("new", life[l].pid)
          PROVE  \/ life[l].pid \in known'
                 \/ \E m \in DOMAIN port' : port'[m] = Message("new", life[l].pid)
      <4>1. CASE n = 1
        BY <2>1, <2>2, <3>2, <4>1 DEF KnownAfter, Message
      <4>2. CASE n # 1
        BY <2>2, <3>2, <4>2
      <4> QED  BY <4>1, <4>2
    <3> QED  BY <1>typed, <3>1, <3>2 DEF JobPidsTracked
  <2>5. IdsOfJob'
    <3>1. Births' = Births /\ \A l \in Births : life'[l] = life[l]
      BY <2>1 DEF Births
    <3> QED  BY <1>typed, <2>3, <3>1 DEF IdsOfJob
  <2> QED  BY <2>4, <2>5
<1>4. CASE TraceThread
  <2>1. UNCHANGED <<life, port>> /\ known \subseteq known' /\ known' \subseteq JobPids
    BY <1>4, <1>typed, TraceThreadSteps, KnownGrows
  <2> QED  BY <1>typed, <2>1 DEF IdsOfJob, JobPidsTracked, Births
<1>5. ASSUME UNCHANGED <<port, known>>, DOMAIN life' = DOMAIN life
      PROVE  IdsOfJob' /\ JobPidsTracked'
  BY <1>typed, <1>5 DEF IdsOfJob, JobPidsTracked, LifeStep, Births
<1>6. ASSUME NEW l \in Births, Reap(l)
      PROVE  IdsOfJob' /\ JobPidsTracked'
  BY <1>5, <1>6 DEF Reap, TypeOK
<1>7. ASSUME NEW l \in Births, NEW kind, NEW base, Act(l, kind, base)
      PROVE  IdsOfJob' /\ JobPidsTracked'
  BY <1>5, <1>7 DEF Act, TypeOK
<1>8. CASE UNCHANGED vars
  BY <1>5, <1>8 DEF vars
<1>9. CASE OperatingSystem
  <2>1. \A pid \in JobPids : pid \in Pids
    BY DEF Pids
  <2>2. \A pid \in OtherPids : pid \in Pids
    BY DEF Pids
  <2> QED  BY <1>9, <2>1, <2>2, <1>1, <1>2, <1>6, <1>7 DEF OperatingSystem
<1> QED  BY <1>3, <1>4, <1>8, <1>9 DEF Next

LEMMA MemberAlways == Spec => []MemberInv
BY InitMember, NextMember, PTL DEF Spec

\* The monitor thread never loses an id of the job: it is remembered, or the message
\* that announces it is still at the port.
THEOREM JobIdsAreTracked == Spec => []JobPidsTracked
<1>1. MemberInv => JobPidsTracked
  BY DEF MemberInv
<1> QED  BY <1>1, MemberAlways, PTL

\* As long as no id goes from the job to a process outside it, the store describes
\* only processes of the job, although membership is asked by id and long after the
\* event was logged.
THEOREM OnlyJobIsStored == Spec => []StoreOnlyJob
<1>1. Init => StoreOnlyJob
  BY DEF Init, EmptyMap, StoreOnlyJob
<1>2. TruthInv /\ TruthInv' /\ MemberInv /\ MemberInv' /\ StoreOnlyJob /\ [Next]_vars => StoreOnlyJob'
  <2> SUFFICES ASSUME TruthInv, TruthInv', MemberInv, MemberInv', StoreOnlyJob, [Next]_vars,
                      JobPids \cap OtherPids = {}, NEW k \in DOMAIN store'
               PROVE  store'[k].birth \in Births' /\ life'[store'[k].birth].inJob
    BY DEF StoreOnlyJob
  <2>1. TypeOK /\ StoreStep /\ LifeStep /\ IdsOfJob /\ IdsOfJob'
    BY StoreSteps, LifeSteps DEF TruthInv, MemberInv
  <2>2. store'[k].birth \in Births' /\ life'[store'[k].birth].pid = store'[k].pid
    BY DEF TruthInv, StoreTruthful
  <2>3. CASE k \in DOMAIN store
    BY <2>1, <2>2, <2>3, EntriesStep DEF StoreOnlyJob, LifeStep
  <2>4. CASE k \notin DOMAIN store
    <3>1. store'[k].pid \in JobPids
      BY <2>1, <2>4, NewEntryIsOfJob DEF MemberInv
    <3> QED  BY <2>1, <2>2, <3>1 DEF IdsOfJob
  <2> QED  BY <2>3, <2>4
<1> QED  BY <1>1, <1>2, TruthAlways, MemberAlways, PTL DEF Spec

\* The store is true of the processes it describes, for any number of processes and
\* events: it holds those of the job only, each lifetime once, and it never says too
\* early that one has ended or too long that one maps an image.
THEOREM StoreDescribesTheJob == Spec => []StoreIsTrue
<1>1. StoreOnlyJob /\ OneEntryPerLifetime /\ StoppedHasEnded /\ StoppedHasNoImages => StoreIsTrue
  BY DEF StoreIsTrue
<1> QED
  BY <1>1, OnlyJobIsStored, LifetimeIsUnique, StopsOnlyTheEnded, StoppedProcessHasNoImages, PTL
==============================================================================
