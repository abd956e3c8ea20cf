# Verification of the agent supervisor

The program starts `cmd.exe` in a Windows Job Object, observes every process of
the job through two ETW providers, raises an alert when one of them touches
protected personal data outside the working directory, and then continues the
interrupted agent session in a Hyper-V container. The modules in this directory
model that program, and the parts of the bundled library krabs through which it uses
ETW, as they are written under `src/`; TLC checks them on small instances and TLAPS
proves most of their safety properties for every instance.

## 1. Inventory

### 1.1 Components

| Component | Source | State | Operations |
|---|---|---|---|
| Kernel-File provider | `KernelFileProvider/` and its handlers | `file_object_to_path`, `file_key_to_path`, `pending_protected_creates`, `sandboxReexecutionRequested` | one handler per event id, called by the trace thread |
| Job membership | `StartProcess.cpp` (`MonitorJob`, `IsProcessInJob`, `GetProcessIdsInJob`) | `g_knownJobPids` | read a completion message; judge an id |
| Process store | `ProcessContext/` | `contexts_`, `nextKey_` | `Register`, `FindProcessKey`, `Update`, `Find`, `Snapshot` (`Add` and `Remove` are called by tests only) |
| Kernel-Process provider | `KernelProcessProvider/` and its handlers | none of its own, fills the store | bootstrap of the root; start, rundown, stop, image load, image unload (thread events are commented out of the dispatch) |
| Supervisor lifecycle | `main.cpp`, `StartProcess.cpp` | handles, two threads, the trace session | start-up, wait, shutdown, all error branches |
| Path policy | `NormalizePath/`, `FilterFiles/` | none | normalise a kernel path, decide protected / inside the working directory |
| HCS launcher | `HcsSandbox/` | none | find the interrupted session, find the runner, install its support files, start it, return its exit code |
| krabs: session | `krabs/krabs/trace.hpp`, `etw.hpp`, `ut.hpp` | registration and session handle, the buffers handled | register, enable, open, process, stop, close, destroy |
| krabs: dispatch | `ut.hpp`, `provider.hpp`, `filtering/`, `schema_locator.hpp` | the providers in order of registration, the cache of schemas | join the providers' settings, choose the provider of an event, run callbacks and filters, look up schemas |
| krabs: parser | `parser.hpp`, `size_provider.hpp`, `parse_types.hpp` | place in the data, places of the properties passed | find, size and parse a property |
| Sandbox runner (Go) | `HCS/cmd/sandbox-runner`, `HCS/internal/sandbox` | `Runner`'s fields under a mutex, deferred calls, three goroutines | `Prepare`, `Start`, `Wait`, `Signal`, `ResizeTTY`, `Stop`, `Cleanup` |
| containerd client, network, console (Go) | `HCS/internal/containerdclient`, `winnetwork`, `hostconsole` | leases, snapshots, containers, tasks, endpoints, console modes | create, delete, roll back |
| Workspace deletion (Go) | `HCS/internal/workspacedelete` | file system | delete one regular file inside the workspace |
| Launch policy and flags (Go) | `HCS/internal/policy`, `flags.go` | none | validate arguments |

### 1.2 How they interact

* The operating system posts job messages to a completion port, read by the
  monitor thread (`MonitorJob`), which remembers process ids under a mutex.
* It logs Kernel-File and Kernel-Process events in trace buffers. The trace thread
  (`trace.process()`) calls the two providers' callbacks, one event at a time, in
  order, later. Both ask `IsProcessInJob` about the id in the event's header.
* The Kernel-Process handlers register processes in the store; the recorder of the
  file provider appends file events to registered processes.
* A file handler that returns "invalid" sets `sandboxReexecutionRequested`, which
  the main thread reads after it has waited for the job and joined both threads.
  Then it starts the container through the HCS launcher and the Go runner.
* The session "MyTrace" belongs to the kernel and bears one name: a supervisor that
  starts stops whichever session bears it, and a supervisor without the privilege opens
  the one it finds. krabs joins what all providers of one GUID ask for and gives an
  event to the first of them; a handler reads it through a parser of its own.
* The Go runner owns a lease, an endpoint, a snapshot, a container and a task in
  other services; goroutines for resizing, interrupts and the exit status share
  its mutex.

### 1.3 What is hard about it

* Everything is observed late: the tables are built from events about objects whose
  addresses (IRP, file object, file key) and ids are reused meanwhile.
* Three sources of truth about membership (live query, remembered ids, the job's id
  list) are asked at a time that is neither that of the event nor that of the step
  that uses the answer.
* Events may be lost, and completions carry the id of another process.
* Each start-up call may fail with a suspended process, a job or a thread already
  there; the trace thread may throw in mid-session.
* Drive letters, links and the tree change between a look at a path and its use, and
  one file has many names.
* What ETW delivers, and how it is read, depends on the order of registrations, on which
  schemas TDH knew at the first event of a kind, and on what was read before.
* The runner creates five things in other services, each of which may fail, have its
  reply lost, or run into the deadline.

Section "hazards" of `PROJECT.json` lists each of these at its line, with the
properties aimed at it or the reason there is none.

### 1.4 What makes each component correct

* File monitor: the alert is raised by violations only, and by every violation; the
  correlation table does not leak; the recorded history is true. (`FileMonitor`)
* Membership and store: no id of the job is lost; only processes of the job are
  stored, once each; events of one process are not credited to another; only ended
  processes are marked stopped; long-lived processes are registered.
  (`ProcessRegistry`)
* Supervisor: processes run only while they are observed; none is left behind;
  handles outlive the threads that use them; the program ends. (`Supervisor`)
* Runner: what was created is given back, in an order in which nothing loses what it
  depends on, unless that could not be deleted; failures are reported; the program ends.
  (`SandboxRunner`)
* HCS launcher: it resumes a session of this run, the job's last one unless another agent
  wrote later, and returns the runner's exit code. (`Supervisor`)
* Trace session: the root is resumed only while it is observed, unless a session in the
  way could not be stopped; nothing of a trace outlives the program; the trace thread is
  released. (`TraceSession`)
* Dispatch and parser: an event reaches whoever asked for it; a missing schema stays
  where it was met; what is read is what was written. (`EventDispatch`)
* Path policy, mounts, deletion: a decision about a path is one about the place the path
  leads to. (`PathService`)

## 2. Modules

| Module | Models | Role |
|---|---|---|
| `PartialMaps` | `std::map` and `std::unordered_map` tables | a table is a function whose domain is its key set: `Put`, `Drop` |
| `AccessPolicy` | the promise of the file monitor | abstract specification: an access is committed, then the request is raised |
| `FileMonitor` | Kernel-File provider and all its handlers; the kernel as environment | implements `AccessPolicy` |
| `MCFileMonitor` | - | symmetry for TLC |
| `FileMonitorProofs` | - | theorems about `FileMonitor` |
| `ProcessRegistry` | membership, store, Kernel-Process handlers; the operating system as environment | |
| `ProcessRegistryProofs` | - | theorems about `ProcessRegistry`: what the store and the membership say |
| `ProcessRegistryEventProofs` | - | theorems about the order of its events |
| `Supervisor` | `main.cpp`, the lifecycle part of `StartProcess.cpp`, `HcsSandbox.cpp` | |
| `SupervisorProofs` | - | theorems about `Supervisor` |
| `TraceContract` | what `Supervisor` takes the trace for | abstract specification of a trace |
| `TraceSession` | the life of the trace object, its session and its thread, for several supervisors at once | implements `TraceContract` |
| `TraceSessionProofs` | - | theorems about `TraceSession` |
| `EventParser` | the parser of krabs, as operators | extended by `EventPredicates` |
| `EventPredicates` | the predicates that read one property, as operators | extended by `EventDispatch` |
| `EventDispatch` | settings, dispatch, filters, schema cache, and a callback that reads an event; for any predicates | |
| `EventFilters` | the predicates krabs builds from others | the value TLC takes for the constant `Eval` of `EventDispatch` |
| `MCEventDispatch` | - | providers, filters and events for TLC |
| `EventDispatchProofs` | - | theorems about `EventDispatch` |
| `PathPolicy` | `NormalizePath`, `FilterFiles`, as operators | extended by `PathService` |
| `PathService` | the judgement of file events, the mounts of the runner, the deletion service, in a changing file system | |
| `MCPathService` | - | a small file system for TLC |
| `PathServiceProofs` | - | theorems about verdicts, mounts and deletions |
| `SandboxRunner` | the Go runner with the calls it makes to containerd, HCN and the console | |
| `SandboxRunnerProofs` | - | theorems about `SandboxRunner` |

Definitions whose comment begins with "Mutant:" are plausible bugs in the
definition that follows them. They are used by no specification; each property of
a passing run is violated when one of them replaces its original.

### 2.1 FileMonitor

The kernel's truth is in `opens` (requests in flight by IRP), `objs` (file objects),
`names` (control blocks) and `dirs`; its actions (`StartOpen`, `FailOpen`,
`CompleteOpen`, `UseFile`, `RenameFile`, `CloseFile`, `ForgetName`,
`ChangeDirectory`) append the events the manifest describes to `etw`. `LoseEvent`
removes one. An event carries its request: a handler reads only the fields that are
in the payload of that event, the others (`by`, `file`, `aliases`) are the truth the
properties compare with.

There is one action per handler, and it is the whole callback: the job filter, the
recorder, the handler and the reaction to its result. Read, write, set-information,
set-delete and delete-path handlers differ only in their console output and are one
action, `DiagnosticHandler`. `objectPath`, `keyPath` and `pending` are the three
tables. `IsProtectedOutsideWorkingDir` is membership in the constant `Protected`.

Assumptions about the environment: an IRP or object address is not reused before its
request has completed or its object was closed; a handle is used on the side of the
job on which it was opened (`MayUse`), except that the memory manager may drop the
last reference for anybody.

### 2.2 ProcessRegistry

`life` is the history of all processes; the index of a process in it stands for its
creation time. A process is running, then a zombie (it can be opened while anyone
holds a handle), then gone, when its id may be reused. `port` and `etw` are the two
queues. `known`, `store`, `nextKey` are the supervisor's tables.

`IsProcessInJob(pid, verdict)` has the outcomes of the function: opened and asked;
gone but remembered; looked up in the job's list, which also happens when a process
refuses to be opened or queried. The handlers are cut where they call it again or
read the live process (`ResolveUnknown`, `EnrichLiveProcess`, `Register`,
`UpdateRegistered`), so the other thread and the operating system may act in between.

### 2.3 Supervisor

`todo` is the list of steps main still has to do, in the order of the source. A step
that fails replaces it by the clean-up of its error branch (`AfterFailed`). Which
faults may happen is the constant `Faults`. Job, port and processes are modelled as
far as the order of shutdown depends on them. Two calls stand outside every `try`, the
construction of the providers and `trace.stop()`; when they throw, `Abort` ends the
program with whatever is there.

After an alert the plan becomes that of `HcsSandbox`. `rollouts` holds the session files
with the time of their last write. The agent of the job (`WriteSession`) and agents
outside it (`OtherAgentWrites`) write to them until the session is chosen; the history
variable `jobWrote` keeps what the job wrote. `FindSession` picks the newest of those that
are not older than the run, whoever wrote it. The runner is a process of its own, whose
exit code main returns. `TerminateJobObject` and `TerminateProcess` never fail in the
model; the code looks at neither result.

### 2.4 SandboxRunner

`todo` and `deferred` are the rest of `run` and its deferred calls. `exists` and
`task` are the truth in containerd and HCN, `held` the fields of `Runner` that are
set. A creation can succeed, fail, or succeed with its reply lost; a deletion can
succeed or fail. `mishaps` remembers what a deletion has failed of, and that a reply was
lost. Cleanup goes on after a failed deletion: `NeededOnesRemain` says in which cases it
then removes the snapshot under a task, or the lease before the snapshot, and that the run
returns an error in each of them.
`Expire` is the operation's deadline, after which every call under that context
fails. `DeleteContainer` refuses a container that still has a task and has the
two-call recovery path of the source. An interrupt is queued while `signal.Notify`
is in effect and ends the program otherwise.

### 2.5 TraceSession

`live` is the session that bears the name, `admins` the supervisors with the privilege to
start or stop one. `pc` is the call that main of each supervisor makes next; `reg` and
`sess` are the two handles of the trace object. `StopByName` is `ControlTrace`, which
ends the session of the name whoever started it. `StartTrace`, `ReplaceTrace`,
`TryTrace` and `LeaveTrace` are `register_trace` with its second attempt and its test
of a session it cannot replace, for want of the privilege or because ETW calls a parameter
invalid (`Refuses`; the two `catch` blocks at `etw.hpp:332` and `:343`). `refused` remembers
who went on like that: with nothing enabled. The thread checks the handle and then passes it to
`ProcessTrace`; main may close it in between.

`TraceContract` is the trace as main knows it: a session that is open or over, a thread
that returns only afterwards. It is what the module `Supervisor` has for a trace.

### 2.6 EventParser, EventPredicates, EventDispatch, EventFilters

`Enable` adds a provider, `Open` computes the settings ETW is asked for, `Deliver` is
`on_event` for one event: the owner, its callbacks in order, its filters, the error
callbacks or the default callback, and the lookups in the schema cache that happen on
the way. What TDH answers at a lookup is chosen freely. `outcome` keeps what each event
did; a "guarded" callback, like those of this program, leaves the event in `reading`,
where `Parse`, `ParsePointer` and `ParseStatus` then read it in any order and with any
hint. The data of an event are a few cells; 0 is the null character.

What a filter does depends on its predicate only through what the predicate says of an
event under an answer of TDH. `EventDispatch` therefore takes that as its constant
`Eval(event, status, predicate)`, a `[v, asked]`: "true", "false" or the exception it met,
and whether it asked for the schema. `EvalAssumption` says that a predicate which has not
asked cannot know the answer, and that one which compares the view of a property is
`PropertyView` of `EventPredicates`. `EventFilters` defines the predicates of
`predicates.hpp`, which is a recursion over their tree, and the run takes `EvalPredicate` for
`Eval`; TLC evaluates the assumption of it.

`ParseOrderFree` and the other properties quantify over what could be read next, so each
state of a parser is compared with a new parser and with what the provider wrote.

### 2.7 PathPolicy and PathService

A text is a sequence of characters, and letters that no test of the code tells apart
are one character: `docs2` is `<<"docs", "2">>`, and `D:` is one character. Prefixes,
boundaries, separators, quotes and letter case are there, because that is what the code
is about.

`program` says which of three programs a behaviour observes. They run at different times
and share only the file system, so a product of their states would show nothing more.
The monitor judges files by every spelling events and callers use (`Spellings`), while
`Remount` changes letters, and keeps the list of folders that its first judgement built.
The runner accepts or refuses a configuration. The deletion service checks parent by
parent, looks at the file and deletes it, and `Change` alters the tree in between.
`VerdictIsTrue` compares with the place of the file, not with the text.

A path of the Go programs is its drive and components. `Resolved` follows it component by
component, as `filepath.EvalSymlinks` does; `LinkTo` gives for each link where the whole
chain behind it ends, so it leads through no further link. `PathAssumption` says that and
that texts begin with a drive: `filepath.Abs` puts the working directory before any other.

The assumptions on the monitor's constants say what the operating system gives it.
`LettersAssumption`: separators and the other marks have no lower case, a lower case letter
has none itself, drives are capital letters. `FoldersAssumption` and `VolumesAssumption`: the
folder of Windows, the working directory, the profile and the known folders are on drives,
files have ordinary names, and device names lie below `\`, none of them a path below another
one. A known folder that is redirected to a network share is outside of that: its path is
normalised and compared, but nothing is claimed of it.

## 3. Runs

| Run | Shows |
|---|---|
| `file_monitor` | with at most one event lost and one path becoming or ceasing to be a directory: alerts are sound and complete, the table of pending creates does not leak, the recorded paths are true; each as long as no event was lost that it depends on and, for the alert, no path changed |
| `file_policy` | `FileMonitor` implements `AccessPolicy`, including that every access is eventually followed by the request; two IRPs in flight |
| `file_lost_completion` | counterexample, see 5.1 |
| `registry` | membership and store with id reuse, zombies and late events; a process that stays alive is registered |
| `registry_recycled` | counterexample, see 5.2 |
| `supervisor` | with every call able to fail, the trace able to throw, the port's last message lost and another program stopping the session, and with other agents writing to the session files: observation, no orphans, threads before handles, the session continued is the newest of the run, honest exit code, termination |
| `trace_session` | two supervisors that share the name, lack the privilege, crash or meet failing calls: a root runs only while it is observed unless the session in the way could not be stopped, nothing is left behind, the contract is kept, main's join returns |
| `trace_attached` | counterexample, see 5.3 |
| `event_dispatch` | requests reach their owner, a missing schema is contained, every event of a kind is treated alike, what is read was written |
| `path_policy` | judgements, mounts and deletions are about the place a path leads to |
| `delete_race` | counterexample, see 5.4 |
| `sandbox_runner` | with every call failing, deadline and interrupts at any step: nothing leaks unnoticed, order of deletion, exit code, termination |

Properties that belong together are checked as one:

| Property | Conjuncts |
|---|---|
| `StoreIsTrue` | `StoreOnlyJob`, `OneEntryPerLifetime`, `StoppedHasEnded`, `StoppedHasNoImages` |
| `RunningEntriesAreTrue` | `RunningIsAlive`, `LoadedIsMapped` |
| `ExitIsClean` | `HandoverIsClean`, `SuccessIsClean` |
| `ThreadsEndBeforeHandles` | handles outlive the threads that use them; threads are joined |
| `NeededOnesRemain` | `TaskKeepsItsSnapshot`, `LeaseOutlivesSnapshot` |
| `FinishedLeavesNothing` | `FinishedLeavesNoSession`, `NoCallbackAfterDestruction` |
| `RequestsReachTheirOwner` | `RequestsAreAdmitted`, `HeardByOwnerOnly` |
| `ReadsAreTrue` | `ParseOrderFree`, `ReadsWhatWasWritten`, `ViewsAreTrue` |

### Bounds

* File monitor: one managed and one other process, two file objects and two keys,
  one IRP (two in `file_policy`), three paths (an ordinary one, a protected file, a
  protected directory), three operations (two in `file_policy` and
  `file_lost_completion`), a lag of four events, one lost event and one change of a
  directory, operations, losses and changes being three together. The tables
  are per address, so a conflict needs one address used twice with both uses still
  in the queue: two opens of one object, a rename across two paths, a completion of
  the other process on the same IRP. Three operations and a lag of four contain
  these. Addresses are only compared, so they are symmetric.
* Registry: two ids of the job and one outside it (one shared id in
  `registry_recycled`), three processes, so that an id is reused while its earlier
  holder still has events in the queue; two image, rundown or file events; a lag of
  three.
* Supervisor: two descendants at once. Only "none", "one" and "another one" matter
  for the job becoming empty. Two session files and two ticks of time: older than the
  run, equal, newer. Steps and threads are as in the source.
* Trace: two supervisors and the session of a third that crashed. Each starts at most
  one session, so the name passes through at most three owners. One event per session:
  there is one handled or there is none.
* Dispatch: two of five providers, in either order, so that two of one GUID, and two of
  different GUIDs, meet; three of seven events: manifest, classic and traced ones, one cut
  off, one of 32-bit code, one with an empty property in the middle. Filters use
  every predicate but `any_event` and `or`, which are the plain cases of `not` and `any_of`.
* Paths: two drives and two volumes, the name of one of which begins with the other's;
  nine files in and beside the protected folders and the working directory; a host with
  four places that can be links; paths of a drive and at most three components.
* Runner: two exit codes, three interrupts (one more than the channel holds). All
  four combinations of terminal and network.

`CHECK_DEADLOCK FALSE` is given everywhere: in the file monitor, the registry, the
dispatch and the path service the environment is bounded and may stop, and the other
programs end.

### Fairness

* `FileMonitor`: weak fairness of the callback. `trace.process()` blocks until there
  are events and delivers them; no handler waits for anything but a mutex held
  shortly.
* `ProcessRegistry`: weak fairness of the monitor thread and of the trace thread.
* `Supervisor`: weak fairness of the main thread's current step, the monitor thread
  and the trace thread. Managed processes need never end, faults need not happen.
* `TraceSession`: weak fairness of main and of the trace thread of each supervisor, none
  of whose calls waits for another program; of the end of the job once the trace thread
  has failed, because its catch block terminates the job (`main.cpp:88`).
* `SandboxRunner`: weak fairness of the main goroutine, since each of its calls to containerd
  has a context with a deadline, and HCN, which takes no context, is assumed to answer; of the deadline itself; of the exit collector once the task
  has stopped or the deadline has passed; of a running resize call (two seconds); strong
  fairness of the resize goroutine's end, because a `select` with several ready cases
  chooses one at random and the closed channel is always among them.
* `EventDispatch` and `PathService` state none: nothing is promised to happen.
* The environments (kernel, operating system, users, processes) are not fair.

## 4. Proofs

Each theorem holds for every value of the constants that satisfies the named assumptions of the
module (types, non-negative bounds, what an event or a predicate is; nothing the code does
not justify). Every safety property of the runs of `FileMonitor`, `ProcessRegistry`,
`Supervisor`, `TraceSession`, `EventDispatch`, `PathService` and `SandboxRunner` is proved.
The runs show each of them on a small instance first, and TLC checked each inductive
invariant before it was proved.

| Module | Theorem | States |
|---|---|---|
| `ProcessRegistryProofs` | `TypeCorrect` | `[]TypeOK` |
| | `StoreDescribesTheJob` | `[]StoreIsTrue`: all four conjuncts together |
| | `LifetimeIsUnique`, `StoppedProcessHasNoImages`, `StopsOnlyTheEnded` | three of them by themselves |
| | `OnlyJobIsStored` | the fourth: if no id goes from the job to another process, only the job is stored |
| | `StoreIsPermanent` | `EntriesArePermanent`: entries stay, stay about their process, never revive |
| | `JobIdsAreTracked` | `[]JobPidsTracked`: an id of the job is remembered or announced at the port |
| `ProcessRegistryEventProofs` | `EventsKeepTheirOrder` | the inductive invariant `EventInv` |
| | `RunningIsTrueOnceQuiet` | `[]RunningEntriesAreTrue` |
| | `EventsGoToTheirOwner` | `RegisteredKeepsItsEvents`, an action property |
| `FileMonitorProofs` | `MonitorInvariant` | the inductive invariant `MonitorInv` |
| | `TypeCorrect`, `AlertsAreSound`, `AlertsAreComplete` | `[]TypeOK`, `[]AlertSound`, `[]NoMissedAlert` |
| | `TableDoesNotLeak`, `RecordsAreTrue` | `[]PendingIsOpen`, `[]RecordTruthful` |
| | `StepsImplementPolicy`, `PolicyStepsHold` | initial states and steps of the refinement of `AccessPolicy` |
| `TraceSessionProofs` | `TraceInvariant` | the inductive invariant `TraceInv` |
| | `TypeCorrect`, `RootIsObserved`, `NothingIsLeft` | `[]TypeOK`, `[]ObservesUnlessRefused`, `[]FinishedLeavesNothing` |
| | `TraceKeepsItsContract` | `ImplementsContract`, the whole refinement of `TraceContract` |
| `SupervisorProofs` | `SupervisorInvariant` | the inductive invariant `SupervisorInv` |
| | `TypeCorrect`, `ManagedProcessesAreTraced`, `NothingIsOrphaned` | `[]TypeOK`, `[]ManagedAreTraced`, `[]NoOrphans` |
| | `HandlesOutliveThreads`, `EndingsAreClean` | `[]ThreadsEndBeforeHandles`, `[]ExitIsClean` |
| `SandboxRunnerProofs` | `RunnerInvariant` | the inductive invariant `RunnerInv` |
| | `TypeCorrect`, `LeaksNeedMishaps`, `LeaksAreReported` | `[]TypeOK`, `[]LeakNeedsMishap`, `[]NoSilentLeak` |
| | `NeededRemain`, `ResizingEndsFirst`, `CodeIsTheTasks` | `[]NeededOnesRemain`, `[]ResizeEndsFirst`, `[]ReportedCodeIsTrue` |
| `EventDispatchProofs` | `InitIInv`, `NextIInv`, `SpecIInv` | the inductive invariant `IInv` |
| | `TypeInvariant`, `RequestsSafe`, `GapsContained` | `[]TypeOK`, `[]RequestsReachTheirOwner`, `[]SchemaGapsAreContained` |
| | `ReadsSafe` | `[]ReadsAreTrue`: all three conjuncts together |
| | `AlwaysTreatedAlike` | `TreatedAlike`, an action property |
| `PathServiceProofs` | `PathsTyped`, `VerdictsTrue` | `[]TypeOK`, `[]VerdictIsTrue` |
| | `DeletionsChecked` | `[]DeletesOnlyWhatItChecked` |
| | `MountsApart` | `[]AcceptedMountsAreApart` |
| | `ContainsIsPrefix`, `CleanIsClean`, `ResolvedTwice` | what `containsPath`, `filepath.Clean` and following links do to paths of every length |
| | `NormalizedOnDrive`, `Compare` | what `NormalizePath` and `IsSameOrInsideFolder` do to texts of every length |

### 4.1 The registry

The steps of the system are first summarised by what they do to the store
(`StoreSteps`: it stays, an entry is inserted after a positive judgement, or one entry
is updated), to the processes (`LifeSteps`) and to the trace (`TraceSteps`). Three
inductive invariants then use these summaries:

* `StoreInv` is `TypeOK` with the two properties of entries. `TypeOK` contains that
  every key is below `nextKey`; without it an insertion might overwrite an entry.
* `TruthInv` adds that what the supervisor holds about a process is true wherever it
  holds it: in an event not yet delivered, in the handler between two steps, and in
  the store. `StoppedHasEnded` alone is not inductive, because the stop event that
  marks an entry was logged many steps before.
* `MemberInv` adds that remembered and announced ids are ids of the job. The order of
  the port's queue and the set of ids have to be known together to see that no id
  is lost when the monitor thread reads a message.

`OnlyJobIsStored` combines the last two: an inserted entry is about a process with
the judged id, the judged id is one of the job, and ids are not shared.

`EventInv` is about order. Handlers find an entry by id, so an event goes to the right
entry only if the events of the holders of an id wait in the order of these holders, and
the event of a process's end behind all its others. The invariant says so of the queue and
of the event the handler is at, and relates the store to it: an entry marked running whose
process has ended has the end still in the queue, and an image still listed that is no
longer mapped has its unload there.

The proof showed that `RegisteredKeepsItsEvents`, as first stated, held only because the
bounds of the run were small: a process whose start could not be judged is registered by a
rundown, and by then the next holder of its id may have been registered from a live lookup.
TLC finds this with four events and six places in the queue. The property now names the
exception, `OvertakenOnly` in the invariant: the other entry is of a later holder and was
made earlier. `OvertakenAreEmpty` adds that no image is credited to the process that was
overtaken, so `RunningEntriesAreTrue` holds of it all the same.

### 4.2 The file monitor

The tables lag behind the kernel by the queued events, so nothing the tables hold now can
be compared with what the kernel holds now. `MonitorInv` says what a table WILL hold after
so many more events: enough for the event that is due then, and, after all of them, for
whatever the kernel may log next. A step of the callback moves the first event from "will"
to "is" and leaves the rest; a step of the kernel appends one event and needs the statement
about the end only. Its parts are `StreamInv` (types, what the kernel keeps true, the form of
events), `NamesAreTrue` and `NamesAreAlike` (the name an object will have when an event needs
it), `CompletionsMatch` (a completion will meet the entry of its own create, and only that
one) and `AlertsAreDue` (a violation is answered already or its decisive event is queued).
All but the first hold while `intact`, as long as no event was lost that the tables depend on.

`StepsImplementPolicy` is the refinement step by step, for steps in whose result no event
has been lost and no path has changed its kind; `PolicyStepsHold` is the same for programs in
which neither can happen, without that restriction.

### 4.3 The trace

`TraceInv` has one part per thing that main's place in `trace.hpp` says: which handles are
there, whose session they are (`HandleMatchesCall`), what the thread may be doing
(`ThreadMatchesCall`), and that a supervisor which was neither refused the stop of a session in the way nor robbed
of its own holds it from `enable` on (`HoldsItsSession`). A step of one supervisor can disturb
another one only through `live`, `taken` and the end of its session, which is what the lemmas
about "others" say. The refinement of `TraceContract` needs only this invariant.

### 4.4 The supervisor

The control state is a sequence of steps still to do, which failures replace. `SupervisorInv`
keeps `todo` among the suffixes of the plans (`Remainders`) and says what the steps that are
left tell of the rest of the state: while a step is left, its effect has not happened; once it
is gone from the plan, it has (`FollowsPlan`). The order of the steps in the plans and in the
error branches is computed once, in lemmas about the plans; no proof about a step then looks at
a sequence. `EmptyForGood` says that a message that the job is empty stays true, since what enters the job
is started from inside it; `ClosedIsUnused` that no thread uses a closed port. `EndingsAreClean` needs that a
non-empty finite set of session files has a newest one, which is an argument about least
elements, not a property of the model. `FilesInvariant` relates the files to what the job
wrote: no time of `jobWrote` is later than that of the file, so when no other agent wrote as
late as the job did, the newest file is the job's.

### 4.5 The runner

`todo` and `deferred` are built by failures, roll-backs and defers, so no list of their values
would be readable. Every step gets a rank, and `ControlInv` says that both sequences ascend. What
a proof about a step needs is then which ranks may still be ahead. The rest of `RunnerInv` says,
thing by thing, which step that gives it back is still to come (`LeaseGoes`, `EndpointGoes`,
`ContainerGoes`, `SnapshotGoes`, `TaskGoes`, `ConsoleGoes`): when nothing is ahead, nothing is
left. `NeededOnesRemain` is part of the invariant. A snapshot is deleted when the ranks say that
the deletion of its task is no longer ahead; so the task is gone, or its deletion has failed, or
nobody knew of it. That is why `WillBeGivenBack` says of task and snapshot what is still to come
after other mishaps too, and not only, as of the rest, in runs without any.

### 4.6 Mounts, deletions and verdicts

All three programs decide by the text of a path and then act on the place it leads to. Most of
the proof is therefore about paths, of any length and on any host. `Components`, `Walk` and
`Resolved` are recursive functions over the places of a sequence; `Upwards` is induction up
to a length, obtained from the well-founded order of the numbers (the library's induction
rule takes an operator, which no backend can instantiate), and `Recursion` gives the
functions their values. From these: `CleanIsClean`, a cleaned path never goes up;
`ContainsIsPrefix`, `filepath.Rel` then decides whether one path is a prefix of the other;
`ResolvedIgnoresCase`, letter case does not change where a path leads; `WithoutLinks`, a path
whose last components are no links leads below where the ones above lead; `ResolvedTwice`,
at the end of the way there is no link left.

`DeletionInv` says what an attempt has seen (`SeenIsTrue`): as long as the tree is undisturbed,
the parents looked at are there and no links, and from the look at the file on it is a file.
`DeletesOnlyWhatItChecked` by itself says nothing before the deletion. `MountsInv` adds to
`AcceptedMountsAreApart` that only the runner accepts mounts, so that the tree stays as it was.

`MonitorInv` is short: letters are never given to two volumes, the list has the places of the
lookups it was built from and no others (`ListIs`), and a pending verdict is right for the
letters and lookups there are (`Truly`), because neither changes while it is pending. What it
needs is `JudgedTruly`, about one judgement with any letters, list and spelling, in four parts:

* `NormalizedOnDrive`: of a text that begins with a drive, `NormalizeFilePath` leaves the
  drive and the components, with one separator before each; `PartsOfWritten` and `WalkOfClean`
  say that such a text names these components again.
* `LikeLeads`, `SaidOnDrive`, `SaidWithPrefix`, `SaidInQuotes`, `SaidBySystemRoot`,
  `SaidByDevice`, `DetourIs`: each way of spelling a file, with slashes or in capitals, is
  brought to a text that is alike, letter case apart, to the file's own (`Like`). That the
  right device is found needs `OnOneVolume`: a text lies below one volume only, though one
  volume's name may begin with another's, because of the boundary behind it.
* `WrittenApart` and `Compare`: one normalised text begins with another, with a separator
  behind it, just if the components of the one begin with those of the other.
* `AddAllIs` and `FirstListsAre`: whatever the folders are and in whichever spellings they
  come twice, the list has the place of each of them once.

`TypeOK` needs of these only the last; the bound of what a deletion has seen comes from
`AskedLiesBelow`. The list was a fold and is now a recursive function (`AddAll`), so that
`Upwards` and `Recursion` apply. The proof also showed an exception the run could not meet
before a whole drive was among its folders: `RemoveTrailingSlash` leaves `D:\` its separator,
and `IsSameOrInsideFolder` then asks for another one behind it.

### 4.7 The dispatch and the parser

`IInv` says of each event that came: what it did is what `ForwardEvents` does under some
answer of TDH, and if that answer was asked for, the cache holds it (`TreatedAs`). From this
the properties of `outcome` become properties of the operator `ForwardEvents`, and
`TreatedAlike` follows because a kept answer is the only one the next dispatch can get, while
an answer nobody asked for makes no difference (`ForwardIs`).

`ForwardEvents` runs through the callbacks and filters of one provider, a recursion over the
length of the list of filters. A run is shown to be the concatenation of what its parts do
alone (`Then`, `FilterThen`), so `ProviderCourse` gives the log of a provider as callbacks,
then one part per filter, then possibly its error callback. `GapsContained` says that the part
of a filter is what the filter does alone; that each part is found exactly once needs that
the names of filters tell them apart.

The parser is a walk. `IsWalk(event, p)` says that the cache of `p` is a beginning of the one
list of places the sizes of the properties determine (`CellsAre`), and that a walk stopped by
the end of the data stops there each time (`NeverStuck`, `WalkToIs`). No name, hint, type or
failed attempt occurs in it, which is `ParseOrderFree`; that the list of places is that of the
properties as they were written (`Fits`, `LoggedWhole`) gives `ReadsWhatWasWritten`, and
`CompareIs`, that the comparison with capitals is the comparison cell by cell, `ViewsAreTrue`.
`Upwards` and `Recursion` are again the induction, over numbers, that the recursive functions
of walk and dispatch need.

The proofs found two properties that held only because the constants of the run hid their
exceptions, and TLC confirmed both. `HeardByOwnerOnly` was false of a trace that does not ask
for classic and message events (`Accepts` empty): their provider is not looked for even if
there is a schema, and the default callback hears them. `SchemaGapsAreContained` was false
without a default callback, when an event whose provider cannot be told does nothing at all.
Both now say when the provider can be told (`Told`) and who listens (`Listener`).

### 4.8 What is only model-checked

* Liveness needs `ENABLED`, which the prover does not treat: `LongLivedIsRegistered`,
  `ProgramEnds`, `RunEnds`, `StopReleasesThread` and the fair half of `ImplementsPolicy`.
* That the predicates of `EventFilters` are as `EvalAssumption` says: they are a recursion
  over a tree (`RECURSIVE`). The theorems about `EventDispatch` hold for every `Eval` with the
  assumption; TLC evaluates the assumption of `EvalPredicate`, for the filters of the run.

## 5. Disagreements between the code and what it says

1. `KernelFileProvider.cpp:44` says only IRPs captured from a monitored process are
   accepted. The table is keyed by address alone; if the completion of a tracked
   create is lost, the completion of another process on the same address is taken for
   it (`file_lost_completion`).
2. `StartProcess.cpp:193` says a recycled id must not be accepted because a previous
   process with it belonged to the job. If the new process has exited by the time it
   is judged, it is accepted for exactly that reason (`registry_recycled`).
3. `main.cpp:71` says the providers are registered before the root can spawn children.
   If the program lacks the privilege and a session of the name is there already, which
   it may not stop, `register_trace` (`etw.hpp:332-350`) leaves the trace without a
   registration, `enable_providers` (`ut.hpp:127`) returns at once, and the existing
   session is opened: the root is resumed unobserved (`trace_attached`). With the privilege
   the same happens when ETW refuses the stop as an invalid parameter (`etw.hpp:343`);
   `ObservesUnlessRefused` says that these two are the only ways.
4. `hcs-workspace.rules:4` and `hcs-workspace.config.toml:8` promise that the deletion
   service deletes only regular files below the workspace. It looks at the parents and the
   file, and then deletes by the path; a parent that has become a link in between leads the
   deletion outside (`delete_race`). `DeletesOnlyWhatItChecked` says what is true of the
   service: it deletes what it checked if nobody changes the tree in between.

Two more are plain from the source and have no run:

* `KernelFileProvider.cpp:70` announces that the job is shut down. The call behind it is
  commented out: in `Supervisor`, `HandleViolation` sets the request and the job goes on until it
  ends by itself.
* `main.cpp:126` says that HCS is not started without a session that was started in the
  controlled process. The search compares only the times of the session files
  (`HcsSandbox.cpp:231`): in `Supervisor`, `OtherAgentWrites` can make another agent's
  session, written during the run, the one that is continued. `HandoverIsClean` promises
  the job's own session only if no other agent wrote as late.

Limits that no text of the repository denies, and that the properties therefore spell
out:

* Whether a path is a directory is asked when the completion is handled. `AlertSound`
  and `NoMissedAlert` hold only while no path turns from a file into a directory or
  back; a directory that is gone when its completion is handled is reported as a file.
* A process whose start could not be judged, and which a rundown registers later, may find
  the next holder of its id in the store already. Events that carry only the id go to that
  one (`RegisteredKeepsItsEvents`).
* A process that exits before the monitor thread has read its message is not known
  and its events are dropped; `LongLivedIsRegistered` is about those that stay.
* Files of a volume without a letter, or whose letter cannot be queried, are not
  protected (`VerdictIsTrue`). A folder whose lookup fails at the first judgement is not
  protected for the rest of the run. Nor is anything below a protected folder that is the
  root of a drive, such as pictures moved to `D:\`: the test for a separator behind the
  folder (`FilterFiles.cpp:134`) looks behind the one that stays there (`FilterFiles.cpp:22`).
  The same holds of a working directory that is a root.
* `IsMountable` compares with the protected folders for equality only (`policy.go:45`),
  although the comment at `policy.go:11` speaks of locations; a folder below one of them
  is accepted. If `EvalSymlinks` fails, the path is accepted unresolved;
  `AcceptedMountsAreApart` is about links that can be followed.
* After a failed deletion of the task Cleanup removes the snapshot all the same
  (`runner.go:298`), under a task that may still run. `NeededOnesRemain` spells it out.
* A rename that fails leaves the name it asked for in the table, and in the history:
  `RecordTruthful` counts it among the object's names. The path that a DeletePath event
  carries itself, which the recorder takes first (`FileEventRecorder.cpp:28`), is not in the
  model.
* The interrupt goroutine of the runner is not awaited: it may still signal the task while
  Cleanup runs. `ResizeEndsFirst` is about the other one.
* A failure of TDH is cached like a schema (`schema_locator.hpp:314`), so an event kind
  that could not be decoded once is never decoded again. `TreatedAlike` states it.
* An exception outside the `try` blocks (`Abort`) leaves the processes of the job running.

## 6. Not modelled, and why

* Of krabs: kernel traces, reading of log files, statistics, the capture of rundown
  state (nobody asks for it), the conversion of providers, the parses of addresses,
  counted strings and Booleans, and its testing helpers.
* Of the process store: `Add` and `Remove`, which only tests call. Of Kernel-Process: the
  thread handlers, which the dispatch leaves out.
* The contents of events and of the OCI specification, console output, the mode bits
  of the console, the choice of a snapshotter, the quoting of command lines, flags that
  name no path: no property is about them.
* Failures of `QueryInformationJobObject` (`StartProcess.cpp:159`), after which the list of
  the job is taken for empty, of `GetWindowsDirectory` and of `GetLogicalDriveStrings`. Paths
  that begin with a drive's letter in lower case, or with a letter of no drive, which
  `NormalizePath.cpp:147` takes too; texts of three characters without a drive
  (`FilterFiles.cpp:22`).
* Membership that changes between two file events of one process: the file monitor takes the
  registry's verdict for a constant of the process.
* An exception in a file handler (`KernelFileProvider.cpp:51`): it needs memory
  exhaustion. Wrap-around of `nextKey_` after 2^64 registrations.
* Concurrent `Prepare` or `Start`: the only caller is sequential.
* Tests, scripts and manifests: they were read for what they say the program should do.
* containerd, HCN, ETW and the kernel: modelled from outside, as the code uses them.

## 7. Plan

Done: all modules of section 2, the runs of section 3, the proofs of section 4. What is
left, most valuable first:

1. A composition of registry and file monitor over one trace: the constants `Monitored`
   and `Registered` of the file monitor replaced by the registry's verdicts.
