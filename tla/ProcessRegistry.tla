--------------------------- MODULE ProcessRegistry ---------------------------
(***************************************************************************)
(* Which process is ours, and what do we know about it?  The completion-   *)
(* port thread and IsProcessInJob (StartProcess), the Kernel-Process event *)
(* handlers, and the process store they fill (ProcessContext).             *)
(*                                                                         *)
(* The operating system is the environment: it starts and ends processes,  *)
(* in the job and outside it, reuses process ids, posts job messages to    *)
(* the completion port, and logs ETW events that are handled later.  The   *)
(* monitor thread, the trace thread and the operating system interleave    *)
(* between the steps of a handler.                                         *)
(***************************************************************************)
EXTENDS Naturals, Sequences, FiniteSets, PartialMaps

CONSTANTS
  JobPids,    \* ids the system gives to processes of the job
  OtherPids,  \* ids it gives to other processes
  Root,       \* id of the process the supervisor started
  Bases,      \* image base addresses
  MaxBirths,  \* bound: processes ever started
  MaxEvents,  \* bound: image, rundown and file events ever logged
  MaxQueue    \* bound: events the trace thread lags behind by

ASSUME ProcessRegistryAssumption ==
  /\ Root \in JobPids
  /\ MaxBirths \in Nat \ {0} /\ MaxEvents \in Nat /\ MaxQueue \in Nat

VARIABLES
  life,      \* every process ever started; the index is its creation time
  port,      \* completion port: job messages not yet read
  etw,       \* Kernel-Process and file events not yet delivered
  events,    \* counter for MaxEvents
  monitor,   \* the thread in MonitorJob: "reading" or "returned"
  known,     \* g_knownJobPids[job]
  store,     \* ProcessContextStore::contexts_, by key
  nextKey,   \* ProcessContextStore::nextKey_
  handler    \* the trace thread: where it is in a handler, for which event

osVars == <<life, events>>
vars == <<life, port, etw, events, monitor, known, store, nextKey, handler>>

Pids   == JobPids \cup OtherPids
Births == DOMAIN life

------------------------------------------------------------------------------
(* The operating system.                                                   *)

\* A process object outlives its process while somebody holds a handle to it:
\* OpenProcess succeeds on a "zombie" and its id is not reused until it is
\* "gone".  The supervisor holds the root's handle.
Process(pid, inJob) == [pid |-> pid, inJob |-> inJob, state |-> "running", images |-> {}]

Running(l) == life[l].state = "running"
Holders(pid) == {l \in Births : life[l].pid = pid /\ life[l].state # "gone"}
RunningJobPids == {life[l].pid : l \in {m \in Births : life[m].inJob /\ Running(m)}}

Message(kind, pid) == [kind |-> kind, pid |-> pid]

\* birth is CreateTime in the payload of start and stop events; the other
\* events carry only the pid, and there it is the truth behind the event.
Logged(kind, l, base) == [kind |-> kind, pid |-> life[l].pid, birth |-> l, base |-> base]

NoEvent == [kind |-> "none", pid |-> Root, birth |-> 0, base |-> 0]

\* StartCmdSuspendedInJob: the root is in the job before anything runs, and its
\* id is remembered without waiting for the port; the port holds its message.
Init ==
  /\ life = <<Process(Root, TRUE)>>
  /\ port = <<Message("new", Root)>>
  /\ etw = <<>> /\ events = 0
  /\ monitor = "reading"
  /\ known = {Root}
  /\ store = EmptyMap /\ nextKey = 1
  /\ handler = [pc |-> "bootstrap", event |-> NoEvent, birth |-> 0]

\* The trace is open and the root resumed once it has been registered.
Started == handler.pc # "bootstrap"

Log(e) == Len(etw) < MaxQueue /\ etw' = Append(etw, e)

Spawn(pid, inJob) ==
  /\ Started
  /\ Len(life) < MaxBirths
  /\ Holders(pid) = {}
  /\ inJob => RunningJobPids # {}
  /\ life' = Append(life, Process(pid, inJob))
  /\ Log([kind |-> "start", pid |-> pid, birth |-> Len(life) + 1, base |-> 0])
  /\ port' = IF inJob THEN Append(port, Message("new", pid)) ELSE port
  /\ UNCHANGED <<events, monitor, known, store, nextKey, handler>>

Exit(l) ==
  LET last == \A m \in Births : life[m].inJob /\ Running(m) => m = l
      posted == IF last THEN <<Message("exit", life[l].pid), Message("zero", life[l].pid)>>
                ELSE <<Message("exit", life[l].pid)>>
  IN
  /\ Started
  /\ Running(l)
  /\ life' = [life EXCEPT ![l] = [@ EXCEPT !.state = "zombie", !.images = {}]]
  /\ Log(Logged("stop", l, 0))
  /\ port' = IF life[l].inJob THEN port \o posted ELSE port
  /\ UNCHANGED <<events, monitor, known, store, nextKey, handler>>

\* The last handle to an ended process is closed.
Reap(l) ==
  /\ life[l].state = "zombie" /\ l # 1
  /\ life' = [life EXCEPT ![l].state = "gone"]
  /\ UNCHANGED <<port, etw, events, monitor, known, store, nextKey, handler>>

\* A running process is listed again, maps or unmaps an image, uses a file.
Act(l, kind, base) ==
  /\ Started
  /\ Running(l)
  /\ events < MaxEvents /\ events' = events + 1
  /\ kind = "load" => base \notin life[l].images
  /\ kind = "unload" => base \in life[l].images
  /\ life' = [life EXCEPT ![l].images = IF kind = "load" THEN @ \cup {base}
                                        ELSE IF kind = "unload" THEN @ \ {base} ELSE @]
  /\ Log(Logged(kind, l, base))
  /\ UNCHANGED <<port, monitor, known, store, nextKey, handler>>

------------------------------------------------------------------------------
(* StartProcess: the job's process ids.                                    *)

\* Mutant: the id of an ended process is forgotten.
ForgetExited(m) == IF m.kind = "new" THEN known \cup {m.pid} ELSE known \ {m.pid}

\* The ids remembered after message m: that of an ended process is kept.
KnownAfter(m) == IF m.kind = "new" THEN known \cup {m.pid} ELSE known

\* MonitorJob reads one message, and returns when the job is empty.
MonitorJob ==
  /\ monitor = "reading" /\ port # <<>>
  /\ port' = Tail(port)
  /\ known' = KnownAfter(Head(port))
  /\ monitor' = IF Head(port).kind = "zero" THEN "returned" ELSE "reading"
  /\ UNCHANGED <<osVars, etw, store, nextKey, handler>>

\* Mutant: every id nobody has is taken for an ended process of the job.
Gone(pid) == Holders(pid) = {}

\* IsKnownJobPid, asked only about an id that nobody has any more.
EndedJobPid(pid) == Holders(pid) = {} /\ pid \in known

\* IsProcessInJob: a process that can be opened is asked about the job, and then
\* remembered; an id nobody has is ours if it once was; otherwise, and when the
\* process refuses to be opened or asked, it is looked up in the job's list, and
\* the whole list is remembered.
IsProcessInJob(pid, verdict) ==
  \/ /\ Holders(pid) # {}
     /\ verdict = \E l \in Holders(pid) : life[l].inJob
     /\ known' = IF verdict THEN known \cup {pid} ELSE known
  \/ /\ EndedJobPid(pid)
     /\ verdict = TRUE
     /\ UNCHANGED known
  \/ /\ ~EndedJobPid(pid)
     /\ verdict = (pid \in RunningJobPids)
     /\ known' = known \cup RunningJobPids

------------------------------------------------------------------------------
(* ProcessContext: the store.                                              *)

\* loaded and files remember the process behind each event that was credited.
Entry(pid, birth) ==
  [pid |-> pid, birth |-> birth, running |-> TRUE, loaded |-> {}, files |-> {}]

EntriesOf(pid) == {k \in DOMAIN store : store[k].pid = pid}

\* Mutant: the oldest lifetime of the id.
IsOldestKey(k, pid) ==
  k \in EntriesOf(pid) /\ \A q \in EntriesOf(pid) : store[q].birth >= store[k].birth

\* FindProcessKey(pid): the newest lifetime of the id.
IsProcessKey(k, pid) ==
  k \in EntriesOf(pid) /\ \A q \in EntriesOf(pid) : store[q].birth <= store[k].birth

\* Mutant: no entry is recognised as the same lifetime.
NeverSameLifetime(k, pid, birth) == FALSE

\* Mutant: every process with the same id is the same lifetime.
SameId(k, pid, birth) == store[k].pid = pid

\* A lifetime is an id and a creation time.
SameLifetime(k, pid, birth) == store[k].pid = pid /\ store[k].birth = birth

\* Mutant: the key of a new entry is not used up.
InsertReusesKey(pid, birth) ==
  IF \E k \in DOMAIN store : SameLifetime(k, pid, birth)
  THEN UNCHANGED <<store, nextKey>>
  ELSE store' = Put(store, nextKey, Entry(pid, birth)) /\ UNCHANGED nextKey

\* Mutant: an id has one entry, which the newest process with it takes over.
InsertOverwrites(pid, birth) ==
  IF EntriesOf(pid) # {}
  THEN /\ \E k \in EntriesOf(pid) : store' = [store EXCEPT ![k].birth = birth]
       /\ UNCHANGED nextKey
  ELSE store' = Put(store, nextKey, Entry(pid, birth)) /\ nextKey' = nextKey + 1

\* Register, past its membership test: one entry per lifetime, and an entry that
\* exists keeps its state.
Insert(pid, birth) ==
  IF \E k \in DOMAIN store : SameLifetime(k, pid, birth)
  THEN UNCHANGED <<store, nextKey>>
  ELSE /\ store' = Put(store, nextKey, Entry(pid, birth))
       /\ nextKey' = nextKey + 1

\* Update: the entry is replaced by the callback's result.
Update(k, entry) == store' = [store EXCEPT ![k] = entry] /\ UNCHANGED nextKey

------------------------------------------------------------------------------
(* KernelProcessProvider, and the recorder of KernelFileProvider.          *)

Idle == [pc |-> "idle", event |-> NoEvent, birth |-> 0]

\* BootstrapRootProcess: the main thread, before the trace exists.
BootstrapRootProcess ==
  /\ handler.pc = "bootstrap"
  /\ IsProcessInJob(Root, TRUE)
  /\ Insert(Root, 1)
  /\ handler' = Idle
  /\ UNCHANGED <<osVars, port, etw, monitor>>

\* The callback receives the next event.
Receive(kinds) ==
  /\ handler.pc = "idle" /\ etw # <<>>
  /\ Head(etw).kind \in kinds
  /\ etw' = Tail(etw)
  /\ UNCHANGED <<osVars, port, monitor>>

\* Events a process outside the job produced, or that name a process we do not
\* recognise, are dropped.
DropForeignEvent ==
  /\ Receive({"start", "rundown", "load", "unload", "file"})
  /\ IsProcessInJob(Head(etw).pid, FALSE)
  /\ UNCHANGED <<store, nextKey, handler>>

\* RegisterProcessEvent (start and rundown): accepted, to be registered.
RegisterProcessEvent ==
  LET e == Head(etw) IN
  /\ Receive({"start", "rundown"})
  /\ IsProcessInJob(e.pid, TRUE)
  /\ handler' = [pc |-> "register", event |-> e, birth |-> e.birth]
  /\ UNCHANGED <<store, nextKey>>

\* What an image or file event does to the entry it is credited to.
ImageLoaded(entry, e) ==
  IF entry.running /\ \A i \in entry.loaded : i.base # e.base
  THEN [entry EXCEPT !.loaded = @ \cup {[base |-> e.base, owner |-> e.birth]}]
  ELSE entry

\* Mutant: an unload is credited only to a stopped process.
ImageUnloadedIfStopped(entry, e) ==
  IF entry.running THEN entry ELSE [entry EXCEPT !.loaded = {i \in @ : i.base # e.base}]

ImageUnloaded(entry, e) == [entry EXCEPT !.loaded = {i \in @ : i.base # e.base}]

FileRecorded(entry, e) == [entry EXCEPT !.files = @ \cup {e.birth}]

Credited(entry, e) ==
  CASE e.kind = "load"   -> ImageLoaded(entry, e)
    [] e.kind = "unload" -> ImageUnloaded(entry, e)
    [] e.kind = "file"   -> FileRecorded(entry, e)
    [] OTHER             -> entry

\* ResolveProcess finds the newest entry of the id, and the handler updates it.
CreditEvent ==
  LET e == Head(etw) IN
  /\ Receive({"load", "unload", "file"})
  /\ IsProcessInJob(e.pid, TRUE)
  /\ \E k \in DOMAIN store : IsProcessKey(k, e.pid) /\ Update(k, Credited(store[k], e))
  /\ UNCHANGED handler

\* RecordFileEvent never creates an entry.
DropFileEvent ==
  LET e == Head(etw) IN
  /\ Receive({"file"})
  /\ IsProcessInJob(e.pid, TRUE)
  /\ EntriesOf(e.pid) = {}
  /\ UNCHANGED <<store, nextKey, handler>>

\* ResolveProcess does not know the id: it will be read from the live process.
ResolveUnknown ==
  LET e == Head(etw) IN
  /\ Receive({"load", "unload"})
  /\ IsProcessInJob(e.pid, TRUE)
  /\ EntriesOf(e.pid) = {}
  /\ handler' = [pc |-> "enrich", event |-> e, birth |-> 0]
  /\ UNCHANGED <<store, nextKey>>

\* EnrichLiveProcess, for a context without a creation time: the one of the
\* process that has the id now, or none if it cannot be opened.
EnrichLiveProcess ==
  /\ handler.pc = "enrich"
  /\ \E birth \in Holders(handler.event.pid) \cup {0} :
       handler' = [handler EXCEPT !.pc = "register", !.birth = birth]
  /\ UNCHANGED <<osVars, port, etw, monitor, known, store, nextKey>>

\* Register refuses a context without creation time, or not in the job (asked
\* again); then the event that asked for it is credited.
RegisterRefused ==
  /\ handler.pc = "register"
  /\ IF handler.birth = 0 THEN UNCHANGED known ELSE IsProcessInJob(handler.event.pid, FALSE)
  /\ handler' = Idle
  /\ UNCHANGED <<osVars, port, etw, monitor, store, nextKey>>

Register ==
  /\ handler.pc = "register" /\ handler.birth # 0
  /\ IsProcessInJob(handler.event.pid, TRUE)
  /\ Insert(handler.event.pid, handler.birth)
  /\ handler' = IF handler.event.kind \in {"load", "unload"}
                  THEN [handler EXCEPT !.pc = "update"] ELSE Idle
  /\ UNCHANGED <<osVars, port, etw, monitor>>

UpdateRegistered ==
  /\ handler.pc = "update"
  /\ \E k \in DOMAIN store :
       /\ SameLifetime(k, handler.event.pid, handler.birth)
       /\ Update(k, Credited(store[k], handler.event))
  /\ handler' = Idle
  /\ UNCHANGED <<osVars, port, etw, monitor, known>>

\* Mutant: the newest entry of the id is stopped, whichever lifetime it is.
NewestOfId(e) == {k \in DOMAIN store : IsProcessKey(k, e.pid)}

\* Mutant: a late stop is ignored when its id is in use again.
LifetimeUnlessReused(e) ==
  {k \in DOMAIN store : SameLifetime(k, e.pid, e.birth) /\ Holders(e.pid) \subseteq {e.birth}}

\* FindProcessKey(pid, createTime): the exact lifetime.
StoppedLifetime(e) == {k \in DOMAIN store : SameLifetime(k, e.pid, e.birth)}

\* Mutant: the images of a stopped process stay loaded.
StoppedWithImages(entry) == [entry EXCEPT !.running = FALSE]

\* A process that ends has no image mapped any more.
Stopped(entry) == [entry EXCEPT !.running = FALSE, !.loaded = {}]

\* ProcessStopHandler: no membership test, and only the first stop counts.
ProcessStopHandler ==
  LET found == {k \in StoppedLifetime(Head(etw)) : store[k].running} IN
  /\ Receive({"stop"})
  /\ IF found # {} THEN \E k \in found : Update(k, Stopped(store[k]))
     ELSE UNCHANGED <<store, nextKey>>
  /\ UNCHANGED <<known, handler>>

------------------------------------------------------------------------------

OperatingSystem ==
  \/ \E pid \in JobPids : Spawn(pid, TRUE)
  \/ \E pid \in OtherPids : Spawn(pid, FALSE)
  \/ \E l \in Births : Exit(l)
  \/ \E l \in Births : Reap(l)
  \/ \E l \in Births, kind \in {"rundown", "file"} : Act(l, kind, 0)
  \/ \E l \in Births, kind \in {"load", "unload"}, b \in Bases : Act(l, kind, b)

TraceThread ==
  \/ BootstrapRootProcess
  \/ DropForeignEvent
  \/ RegisterProcessEvent
  \/ CreditEvent
  \/ DropFileEvent
  \/ ResolveUnknown
  \/ EnrichLiveProcess
  \/ RegisterRefused
  \/ Register
  \/ UpdateRegistered
  \/ ProcessStopHandler

Next == OperatingSystem \/ MonitorJob \/ TraceThread

\* The two threads of the supervisor keep running; processes need not.
Spec == Init /\ [][Next]_vars /\ WF_vars(MonitorJob) /\ WF_vars(TraceThread)
------------------------------------------------------------------------------
(* Properties.                                                             *)

Lifetimes == [pid : Pids, inJob : BOOLEAN, state : {"running", "zombie", "gone"},
              images : SUBSET Bases]
Messages  == [kind : {"new", "exit", "zero"}, pid : Pids]
Logs      == [kind : {"none", "start", "rundown", "stop", "load", "unload", "file"},
              pid : Pids, birth : Nat, base : Bases \cup {0}]
Entries   == [pid : Pids, birth : Nat, running : BOOLEAN,
              loaded : SUBSET [base : Bases \cup {0}, owner : Nat], files : SUBSET Nat]

\* Every variable has its type, and keys are taken below nextKey.
TypeOK ==
  /\ life \in Seq(Lifetimes)
  /\ port \in Seq(Messages)
  /\ etw \in Seq(Logs) /\ events \in Nat
  /\ monitor \in {"reading", "returned"}
  /\ known \subseteq Pids
  /\ nextKey \in Nat \ {0}
  /\ DOMAIN store \subseteq 1..(nextKey - 1) /\ store \in [DOMAIN store -> Entries]
  /\ handler \in [pc : {"bootstrap", "idle", "enrich", "register", "update"},
                   event : Logs, birth : Nat]

\* Entry k describes process l.
Describes(k, l) == store[k].pid = life[l].pid /\ store[k].birth = l

\* Everything logged so far has been handled.
Quiet == etw = <<>> /\ handler.pc = "idle"

\* The supervisor never loses sight of an id of the job: as long as the monitor
\* thread has not returned from an empty job, the id is remembered or the message
\* that announces it waits at the port; exits, reuse and refused events in
\* between do not lose it (StartProcess.cpp:133-134).
JobPidsTracked ==
  \A l \in Births : life[l].inJob =>
     life[l].pid \in known \/ \E n \in DOMAIN port : port[n] = Message("new", life[l].pid)

\* When no id of the job is ever given to a process outside it, nothing outside
\* the job gets into the store, however late its membership is asked.
StoreOnlyJob ==
  JobPids \cap OtherPids = {} =>
    \A k \in DOMAIN store : store[k].birth \in Births /\ life[store[k].birth].inJob

\* Bootstrap, start, rundown and the first image event of a process register it
\* once (ProcessContext.h:92).
OneEntryPerLifetime ==
  \A j, k \in DOMAIN store :
     store[j].pid = store[k].pid /\ store[j].birth = store[k].birth => j = k

\* A process is recorded as stopped only when it has ended: a late stop event does
\* not stop the next process with its id (ProcessStopHandler.cpp:8).
StoppedHasEnded ==
  \A k \in DOMAIN store, l \in Births :
     Describes(k, l) /\ ~store[k].running => ~Running(l)

\* Once every event is handled, a process recorded as running is running: none was
\* registered after its own stop event had been handled.
RunningIsAlive ==
  Quiet => \A k \in DOMAIN store : store[k].running =>
              \E l \in Births : Describes(k, l) /\ Running(l)

\* A stopped process has no loaded image, and none is added to it afterwards.
StoppedHasNoImages == \A k \in DOMAIN store : ~store[k].running => store[k].loaded = {}

\* Once every event is handled, an image recorded as loaded by its own process is
\* mapped: no unload was credited to another entry.
LoadedIsMapped ==
  Quiet => \A k \in DOMAIN store : \A i \in store[k].loaded :
              i.owner = store[k].birth => i.base \in life[i.owner].images

\* The store describes the processes of the job and nothing else: one entry for
\* each lifetime, and none that says a process has stopped before it has, or that
\* a stopped one still maps an image (ProcessContext.h:92, ProcessStopHandler.cpp:8).
StoreIsTrue ==
  StoreOnlyJob /\ OneEntryPerLifetime /\ StoppedHasEnded /\ StoppedHasNoImages

\* Once every event is handled, what the store says of running processes is so: an
\* entry marked running belongs to a process that runs and its images are mapped;
\* neither a stop nor an unload went to another entry or came too early.
RunningEntriesAreTrue == RunningIsAlive /\ LoadedIsMapped

\* Processes whose image or file events were credited to entry e.
CreditedTo(e) == e.files \cup {i.owner : i \in e.loaded}

\* An event of a registered process is credited to its own entry, although image
\* and file events carry only an id that may have been reused while they waited.
\* The one exception is a process that was registered only after the next holder
\* of its id (a rundown delivered late): FindProcessKey prefers that holder.
RegisteredKeepsItsEvents ==
  [][\A k \in DOMAIN store : \A l \in CreditedTo(store'[k]) \ CreditedTo(store[k]) :
       \A j \in DOMAIN store :
          Describes(j, l) => j = k \/ (j > k /\ store[k].birth > l)]_vars

\* An entry is never removed, never becomes another process, and a stopped one is
\* never revived by a later start, rundown or image event of its id.
EntriesArePermanent ==
  [][\A k \in DOMAIN store :
       /\ k \in DOMAIN store'
       /\ store'[k].pid = store[k].pid /\ store'[k].birth = store[k].birth
       /\ store'[k].running => store[k].running]_vars

Ended(n)      == n \in Births /\ ~Running(n)
Registered(n) == n \in Births /\ \E k \in DOMAIN store : Describes(k, n)

\* A process of the job that stays alive is registered: delays, reuse of its id
\* and events of others may postpone it, not prevent it.
LongLivedIsRegistered ==
  \A n \in 1..MaxBirths : (n \in Births /\ life[n].inJob) ~> (Ended(n) \/ Registered(n))

\* A recycled id is not accepted solely because a previous process with it belonged
\* to the job (StartProcess.cpp:193-194).
RecycledIdRefused ==
  \A k \in DOMAIN store, l \in Births :
     Describes(k, l) /\ ~life[l].inJob =>
        \A m \in 1..(l - 1) : ~(life[m].pid = life[l].pid /\ life[m].inJob)

==============================================================================
