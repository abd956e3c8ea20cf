----------------------------- MODULE FileMonitor -----------------------------
(***************************************************************************)
(* KernelFileProvider and its handlers: the stream of Kernel-File ETW      *)
(* events, the three correlation tables the handlers keep, and the one-    *)
(* shot request to leave the Job Object for the container.                 *)
(*                                                                         *)
(* The kernel is the environment.  It runs file operations for processes,  *)
(* describes each one by events, and reuses the addresses of IRPs, file    *)
(* objects and file keys; the trace thread consumes the events in order,   *)
(* later, one callback at a time.  A trace buffer can be lost.             *)
(***************************************************************************)
EXTENDS Naturals, Sequences, PartialMaps

CONSTANTS
  Pids,           \* processes that use files
  Monitored,      \* the ones IsProcessInJob accepts
  Registered,     \* the ones the process store has an entry for
  Irps,           \* addresses of I/O request packets
  Objects,        \* addresses of file objects
  Keys,           \* addresses of file control blocks (FileKey)
  Paths,          \* normalised paths
  Protected,      \* protected personal folders outside the working directory
  InitialDirs,    \* the paths that name a directory when the session starts
  Nil,            \* the empty path
  MaxOps,         \* bound: operations the processes start
  MaxQueue,       \* bound: events the callback lags behind by
  MaxLost,        \* bound: events lost before delivery
  MaxDirChanges,  \* bound: paths that become, or cease to be, a directory
  MaxSteps        \* bound: operations, losses and changes together

ASSUME FileMonitorAssumption ==
  /\ Monitored \subseteq Pids
  /\ Registered \subseteq Pids
  /\ Protected \subseteq Paths
  /\ InitialDirs \subseteq Paths
  /\ Nil \notin Paths
  /\ MaxOps \in Nat /\ MaxQueue \in Nat /\ MaxLost \in Nat /\ MaxDirChanges \in Nat
  /\ MaxSteps \in Nat

VARIABLES
  opens,         \* kernel: IRP -> the create request it carries
  objs,          \* kernel: file object -> the handle's opener, path and key
  names,         \* kernel: file key -> path
  dirs,          \* file system: the paths that are directories now
  etw,           \* events not yet delivered, oldest first
  ops, lost, dirChanges,   \* counters for the three bounds
  owed,          \* history: a protected access has been made
  intact,        \* history: no event the tables depend on was lost
  objectPath,    \* file_object_to_path
  keyPath,       \* file_key_to_path
  pending,       \* pending_protected_creates
  requested,     \* sandboxReexecutionRequested
  cause,         \* history: the event that raised the request, if any
  recorded       \* the FileEvent pushed last into the process store, if any

kernelVars  == <<opens, objs, names, dirs, ops, lost, dirChanges, owed, intact>>
monitorVars == <<objectPath, keyPath, pending, requested, cause, recorded>>
vars == <<kernelVars, etw, monitorVars>>

------------------------------------------------------------------------------
(* Requests and events.                                                    *)

\* A file operation as the kernel knows it.  by, path, new and aliases are
\* its truth; a handler may read only what its event carries as payload.
\* dir is FILE_DIRECTORY_FILE in CreateOptions; new is a rename's target;
\* aliases are the names the object was opened under or asked to take.
Request(kind, by, irp, obj, key, path) ==
  [kind |-> kind, by |-> by, irp |-> irp, obj |-> obj, key |-> key,
   path |-> path, new |-> Nil, dir |-> FALSE, aliases |-> {path}]

\* ok is the completion status; file says that, when the event was logged,
\* the path was not a directory (the handlers do not see it).
Event(id, pid, req) ==
  [id |-> id, pid |-> pid, req |-> req, ok |-> TRUE, file |-> req.path \notin dirs]

\* IsProtectedOutsideWorkingDir
IsProtectedOutsideWorkingDir(path) == path \in Protected

\* The accesses the policy forbids: a managed process that opened or created
\* a protected file, or asked to rename one away or into place.
Violation(e) ==
  /\ e.req.by \in Monitored
  /\ \/ /\ e.id \in {"OperationEnd", "CreateNewFile"}
        /\ e.req.kind = "open" /\ ~e.req.dir /\ e.ok /\ e.file
        /\ e.req.path \in Protected
     \/ /\ e.id \in {"Rename", "RenamePath"}
        /\ {e.req.path, e.req.new} \cap Protected # {}

\* The events the tables are built from: losing another one is harmless.
Correlates(e) ==
  /\ e.req.by \in Monitored
  /\ \/ e.id \in {"Create", "RenamePath"}
     \/ e.id = "OperationEnd" /\ e.req.kind = "open"

------------------------------------------------------------------------------
(* The kernel.                                                             *)

Init ==
  /\ opens = EmptyMap /\ objs = EmptyMap /\ names = EmptyMap
  /\ dirs = InitialDirs
  /\ etw = <<>>
  /\ ops = 0 /\ lost = 0 /\ dirChanges = 0
  /\ owed = FALSE /\ intact = TRUE
  /\ objectPath = EmptyMap /\ keyPath = EmptyMap /\ pending = EmptyMap
  /\ requested = FALSE /\ cause = {} /\ recorded = {}

Emit(events) ==
  /\ Len(etw) + Len(events) <= MaxQueue
  /\ etw' = etw \o events
  /\ owed' = (owed \/ \E n \in DOMAIN events : Violation(events[n]))

BusyObjects == DOMAIN objs \cup {opens[i].obj : i \in DOMAIN opens}

StepLeft == ops + lost + dirChanges < MaxSteps

StartOp == ops < MaxOps /\ StepLeft /\ ops' = ops + 1

\* A process issues a create; event 12 describes the request.
StartOpen(p, i, o, x, dir) ==
  LET r == [Request("open", p, i, o, Nil, x) EXCEPT !.dir = dir] IN
  /\ StartOp
  /\ i \notin DOMAIN opens /\ o \notin BusyObjects
  /\ opens' = Put(opens, i, r)
  /\ Emit(<<Event("Create", p, r)>>)
  /\ UNCHANGED <<objs, names, dirs, lost, dirChanges, intact, monitorVars>>

\* The create fails: its completion says so, and the object is free again.
FailOpen(i) ==
  /\ i \in DOMAIN opens
  /\ opens' = Drop(opens, i)
  /\ Emit(<<[Event("OperationEnd", opens[i].by, opens[i]) EXCEPT !.ok = FALSE]>>)
  /\ UNCHANGED <<objs, names, dirs, ops, lost, dirChanges, intact, monitorVars>>

\* The create succeeds.  A control block without a name gets one (event 10),
\* a file that did not exist is announced (event 30), the request completes.
CompleteOpen(i, k, isNew) ==
  LET r     == opens[i]
      named == k \in DOMAIN names
      id(name, flag) == IF flag THEN <<Event(name, r.by, [r EXCEPT !.key = k])>> ELSE <<>>
  IN
  /\ i \in DOMAIN opens
  /\ r.dir => r.path \in dirs
  /\ isNew => r.path \notin dirs /\ ~r.dir
  /\ IF named THEN names[k] = r.path ELSE \A q \in DOMAIN names : names[q] # r.path
  /\ opens' = Drop(opens, i)
  /\ objs' = Put(objs, r.obj, [by |-> r.by, path |-> r.path, key |-> k, aliases |-> {r.path}])
  /\ names' = Put(names, k, r.path)
  /\ Emit(id("NameCreate", ~named) \o id("CreateNewFile", isNew) \o id("OperationEnd", TRUE))
  /\ UNCHANGED <<dirs, ops, lost, dirChanges, intact, monitorVars>>

\* A handle opened by a managed process is used by managed processes, and one
\* opened outside the job is used outside it.
MayUse(p, o) == (p \in Monitored) = (objs[o].by \in Monitored)

ObjectRequest(kind, p, i, o) ==
  [Request(kind, p, i, o, objs[o].key, objs[o].path) EXCEPT !.aliases = objs[o].aliases]

\* Read, write, set information, delete: the request, then its completion.
UseFile(p, i, o) ==
  LET r == ObjectRequest("io", p, i, o) IN
  /\ StartOp
  /\ i \notin DOMAIN opens /\ o \in DOMAIN objs /\ MayUse(p, o)
  /\ Emit(<<Event("Io", p, r), Event("OperationEnd", p, r)>>)
  /\ UNCHANGED <<opens, objs, names, dirs, lost, dirChanges, intact, monitorVars>>

\* A rename: the request (19, 29), its target (27), its completion.  When it
\* fails the file keeps its name, and the first two events look the same.
RenameFile(p, i, o, x, ok) ==
  LET r == [ObjectRequest("rename", p, i, o)
              EXCEPT !.new = x, !.aliases = @ \cup {x}]
      done == [Event("OperationEnd", p, r) EXCEPT !.ok = ok]
  IN
  /\ StartOp
  /\ i \notin DOMAIN opens /\ o \in DOMAIN objs /\ MayUse(p, o)
  /\ Emit(<<Event("Rename", p, r), Event("RenamePath", p, r), done>>)
  /\ objs' = [objs EXCEPT ![o].path = IF ok THEN x ELSE @, ![o].aliases = @ \cup {x}]
  /\ UNCHANGED <<opens, names, dirs, lost, dirChanges, intact, monitorVars>>

\* The last reference to a file object goes away.  The process named by the
\* event is whoever drops it: the memory manager may do so, outside the job.
CloseFile(p, i, o) ==
  LET r == ObjectRequest("close", p, i, o) IN
  /\ i \notin DOMAIN opens /\ o \in DOMAIN objs /\ (MayUse(p, o) \/ p \notin Monitored)
  /\ objs' = Drop(objs, o)
  /\ Emit(<<Event("Close", p, r), Event("OperationEnd", p, r)>>)
  /\ UNCHANGED <<opens, names, dirs, ops, lost, dirChanges, intact, monitorVars>>

\* A control block nobody uses loses its name (event 11).
ForgetName(p, k) ==
  /\ k \in DOMAIN names
  /\ \A o \in DOMAIN objs : objs[o].key # k
  /\ names' = Drop(names, k)
  /\ Emit(<<Event("NameDelete", p, Request("name", p, Nil, Nil, k, names[k]))>>)
  /\ UNCHANGED <<opens, objs, dirs, ops, lost, dirChanges, intact, monitorVars>>

\* A file is replaced by a directory of the same name, or the other way round.
ChangeDirectory(x) ==
  /\ dirChanges < MaxDirChanges /\ StepLeft
  /\ dirChanges' = dirChanges + 1
  /\ dirs' = IF x \in dirs THEN dirs \ {x} ELSE dirs \cup {x}
  /\ UNCHANGED <<opens, objs, names, ops, lost, owed, intact, etw, monitorVars>>

\* A trace buffer is full: an event never reaches the callback.
LoseEvent(n) ==
  /\ lost < MaxLost /\ StepLeft
  /\ n \in 1..Len(etw)
  /\ lost' = lost + 1
  /\ intact' = (intact /\ ~Correlates(etw[n]))
  /\ etw' = SubSeq(etw, 1, n - 1) \o SubSeq(etw, n + 1, Len(etw))
  /\ UNCHANGED <<opens, objs, names, dirs, ops, dirChanges, owed, monitorVars>>

Kernel ==
  \/ \E p \in Pids, i \in Irps, o \in Objects, x \in Paths, d \in BOOLEAN :
       StartOpen(p, i, o, x, d)
  \/ \E i \in Irps : FailOpen(i)
  \/ \E i \in Irps, k \in Keys, n \in BOOLEAN : CompleteOpen(i, k, n)
  \/ \E p \in Pids, i \in Irps, o \in Objects : UseFile(p, i, o)
  \/ \E p \in Pids, i \in Irps, o \in Objects, x \in Paths, ok \in BOOLEAN :
       RenameFile(p, i, o, x, ok)
  \/ \E p \in Pids, i \in Irps, o \in Objects : CloseFile(p, i, o)
  \/ \E p \in Pids, k \in Keys : ForgetName(p, k)
  \/ \E x \in Paths : ChangeDirectory(x)
  \/ \E n \in 1..Len(etw) : LoseEvent(n)

------------------------------------------------------------------------------
(* The callback of the trace thread: one event, one handler.               *)

\* The next event of the stream is delivered, and it is one of these.
Deliver(ids) ==
  /\ etw # <<>>
  /\ Head(etw).id \in ids
  /\ etw' = Tail(etw)
  /\ UNCHANGED kernelVars

\* IsProcessInJob(managedProcess.job, EventHeader.ProcessId)
FromJob(e) == e.pid \in Monitored

\* ResolveFilePath: by file object if it is known, else by file key.
ResolveFilePath(r) ==
  IF r.obj \in DOMAIN objectPath THEN objectPath[r.obj]
  ELSE IF r.key \in DOMAIN keyPath THEN keyPath[r.key]
  ELSE Nil

\* IsExistingDirectory asks the file system, at the time it is called.
IsExistingDirectory(path) == path \in dirs

\* RecordFileEvent: appended to the history of the process the header names,
\* if the store knows that process.
RecordFileEvent(e, path) ==
  recorded' = IF e.pid \in Registered THEN {[event |-> e, path |-> path]} ELSE recorded

\* The end of the callback: the first invalid access raises the request.
\* TerminateManagedJob is commented out in the code.
React(e, isValid) ==
  /\ requested' = (requested \/ ~isValid)
  /\ cause' = IF ~isValid /\ ~requested THEN {e} ELSE cause

\* Mutant: a name that is already in the table is kept (emplace, not assignment).
KeepName(o, path) == IF o \in DOMAIN objectPath THEN objectPath ELSE Put(objectPath, o, path)

\* file_object_to_path[fileObject] = path
SetName(o, path) == Put(objectPath, o, path)

\* Mutant: the name of a closed object is cleared, not erased.
ClearName(o) == Put(objectPath, o, Nil)

\* file_object_to_path.erase(fileObject)
EraseName(o) == Drop(objectPath, o)

\* Mutant: a create is tracked only the first time its file object is seen.
NewObjectIsTracked(r) ==
  ~r.dir /\ IsProtectedOutsideWorkingDir(r.path) /\ r.obj \notin DOMAIN objectPath

\* A create is remembered until it completes if it may be an access.
IsTracked(r) == ~r.dir /\ IsProtectedOutsideWorkingDir(r.path)

\* Mutant: the early return of a failed completion comes before the erase.
UntrackSuccessful(e) == IF e.ok THEN Drop(pending, e.req.irp) ELSE pending

\* Whatever the status, the entry of a completed IRP is gone.
Untrack(e) == Drop(pending, e.req.irp)

\* Mutant: a completion is an access whether or not it succeeded.
AnyCompletionIsAccess(e, create) == ~IsExistingDirectory(create.path)

\* Mutant: the directory test of the completion is missing.
DirectoryOpenIsAccess(e, create) == e.ok

\* IsCompletedFileOperationSuccessful, and not a directory.
IsAccess(e, create) == e.ok /\ ~IsExistingDirectory(create.path)

\* Mutant: only the old name of a rename is judged.
RenameIsProtectedFrom(oldPath, newPath) == IsProtectedOutsideWorkingDir(oldPath)

\* A rename touches protected data at either end.
RenameIsProtected(oldPath, newPath) ==
  IsProtectedOutsideWorkingDir(oldPath) \/ IsProtectedOutsideWorkingDir(newPath)

NameCreateHandler ==
  LET r == Head(etw).req IN
  /\ Deliver({"NameCreate"})
  /\ keyPath' = Put(keyPath, r.key, r.path)
  /\ UNCHANGED <<objectPath, pending, requested, cause, recorded>>

NameDeleteHandler ==
  /\ Deliver({"NameDelete"})
  /\ keyPath' = Drop(keyPath, Head(etw).req.key)
  /\ UNCHANGED <<objectPath, pending, requested, cause, recorded>>

\* An event of another process, unless it is a name event or a completion.
IgnoreForeignEvent ==
  /\ Deliver({"Create", "CreateNewFile", "Io", "Rename", "RenamePath", "Close"})
  /\ ~FromJob(Head(etw))
  /\ UNCHANGED monitorVars

CreateOpenHandler ==
  LET e == Head(etw)
      r == e.req
      create == [path |-> r.path, obj |-> r.obj, pid |-> e.pid]
  IN
  /\ Deliver({"Create"}) /\ FromJob(e)
  /\ RecordFileEvent(e, r.path)
  /\ objectPath' = SetName(r.obj, r.path)
  /\ pending' = IF IsTracked(r) THEN Put(pending, r.irp, create) ELSE pending
  /\ UNCHANGED <<keyPath, requested, cause>>

\* A completion is not filtered by process: its IRP has to be a pending one.
OperationEndHandler ==
  LET e       == Head(etw)
      tracked == e.req.irp \in DOMAIN pending
      create  == pending[e.req.irp]
      access  == tracked /\ IsAccess(e, create)
  IN
  /\ Deliver({"OperationEnd"})
  /\ pending' = Untrack(e)
  /\ objectPath' = IF access THEN SetName(create.obj, create.path) ELSE objectPath
  /\ React(e, ~access)
  /\ UNCHANGED <<keyPath, recorded>>

CreateNewFileHandler ==
  LET e == Head(etw)
      r == e.req
  IN
  /\ Deliver({"CreateNewFile"}) /\ FromJob(e)
  /\ RecordFileEvent(e, r.path)
  /\ objectPath' = SetName(r.obj, r.path)
  /\ React(e, r.dir \/ IsExistingDirectory(r.path) \/ ~IsProtectedOutsideWorkingDir(r.path))
  /\ UNCHANGED <<keyPath, pending>>

\* Read, Write, SetInformation, SetDelete and DeletePath only report.  Of a DeletePath it
\* is the event without a path of its own, which the recorder would take first
\* (FileEventRecorder.cpp:28).
DiagnosticHandler ==
  LET e == Head(etw) IN
  /\ Deliver({"Io"}) /\ FromJob(e)
  /\ RecordFileEvent(e, ResolveFilePath(e.req))
  /\ UNCHANGED <<objectPath, keyPath, pending, requested, cause>>

CloseHandler ==
  LET e == Head(etw) IN
  /\ Deliver({"Close"}) /\ FromJob(e)
  /\ RecordFileEvent(e, ResolveFilePath(e.req))
  /\ objectPath' = EraseName(e.req.obj)
  /\ UNCHANGED <<keyPath, pending, requested, cause>>

RenameHandler ==
  LET e       == Head(etw)
      oldPath == ResolveFilePath(e.req)
  IN
  /\ Deliver({"Rename"}) /\ FromJob(e)
  /\ RecordFileEvent(e, oldPath)
  /\ React(e, ~IsProtectedOutsideWorkingDir(oldPath))
  /\ UNCHANGED <<objectPath, keyPath, pending>>

RenamePathHandler ==
  LET e       == Head(etw)
      oldPath == ResolveFilePath(e.req)
  IN
  /\ Deliver({"RenamePath"}) /\ FromJob(e)
  /\ RecordFileEvent(e, e.req.new)
  /\ objectPath' = SetName(e.req.obj, e.req.new)
  /\ React(e, ~RenameIsProtected(oldPath, e.req.new))
  /\ UNCHANGED <<keyPath, pending>>

Callback ==
  \/ NameCreateHandler
  \/ NameDeleteHandler
  \/ IgnoreForeignEvent
  \/ CreateOpenHandler
  \/ OperationEndHandler
  \/ CreateNewFileHandler
  \/ DiagnosticHandler
  \/ CloseHandler
  \/ RenameHandler
  \/ RenamePathHandler

Next == Kernel \/ Callback

\* trace.process() keeps delivering while there are events; nothing obliges a
\* process to use files.
Spec == Init /\ [][Next]_vars /\ WF_vars(Callback)
------------------------------------------------------------------------------
(* Properties.                                                             *)

Requests == [kind : {"open", "io", "rename", "close", "name"}, by : Pids,
             irp : Irps \cup {Nil}, obj : Objects \cup {Nil}, key : Keys \cup {Nil},
             path : Paths, new : Paths \cup {Nil}, dir : BOOLEAN, aliases : SUBSET Paths]

EventIds == {"NameCreate", "NameDelete", "Create", "OperationEnd", "CreateNewFile",
             "Io", "Rename", "RenamePath", "Close"}

Events == [id : EventIds, pid : Pids, req : Requests, ok : BOOLEAN, file : BOOLEAN]

Handles  == [by : Pids, path : Paths, key : Keys, aliases : SUBSET Paths]
Pendings == [path : Paths, obj : Objects, pid : Pids]
Records  == [event : Events, path : Paths \cup {Nil}]

\* Every variable has its type; the tables hold only addresses the kernel uses.
TypeOK ==
  /\ IsMap(opens, Irps, Requests) /\ IsMap(objs, Objects, Handles)
  /\ IsMap(names, Keys, Paths) /\ dirs \subseteq Paths
  /\ etw \in Seq(Events)
  /\ ops \in Nat /\ lost \in Nat /\ dirChanges \in Nat
  /\ owed \in BOOLEAN /\ intact \in BOOLEAN
  /\ IsMap(objectPath, Objects, Paths) /\ IsMap(keyPath, Keys, Paths)
  /\ IsMap(pending, Irps, Pendings)
  /\ requested \in BOOLEAN /\ cause \subseteq Events /\ recorded \subseteq Records

\* Soundness of the alert.  The request to leave the job was raised by an event
\* that truly is a violation: the completion of a managed process's own create of
\* a protected file, although IRPs are matched by address alone; or a rename of
\* a file whose true name is protected, although names come from the tables.
\* It needs the events the tables are built from, and a directory to stay one.
AlertSound == intact /\ dirChanges = 0 => \A e \in cause : Violation(e)

\* Completeness of the alert.  When everything logged has been handled, an
\* access to protected data has raised the request, whichever of its events
\* arrived and whatever stale names the tables held for its object.
NoMissedAlert == intact /\ dirChanges = 0 /\ etw = <<>> /\ owed => requested

\* The correlation table does not leak: an entry is there only while the IRP it
\* was captured for is in flight or its completion is still to be delivered.
PendingIsOpen ==
  intact => \A i \in DOMAIN pending :
              \/ i \in DOMAIN opens
              \/ \E n \in DOMAIN etw : etw[n].id = "OperationEnd" /\ etw[n].req.irp = i

\* The history tells the truth.  The path stored with a file event of a managed
\* process is one its file object was opened under or asked to take, although
\* the kernel reuses object addresses and closes can be hidden from the monitor.
RecordTruthful == intact => \A r \in recorded : r.path \in r.event.req.aliases

\* Completions are credited to the requests they complete.  An alert raised by a
\* completion is about an IRP that a managed process issued for a create
\* (KernelFileProvider.cpp:44-45).
CompletionWasCaptured ==
  \A e \in cause : e.id = "OperationEnd" =>
                     e.req.kind = "open" /\ e.req.by \in Monitored

\* The monitor implements the policy: nothing but an access raises the request,
\* it is raised once, and every access is eventually followed by it.
Policy == INSTANCE AccessPolicy WITH committed <- owed, alerted <- requested
ImplementsPolicy == Policy!Spec
==============================================================================
