---------------------------- MODULE SandboxRunner ----------------------------
(***************************************************************************)
(* sandbox-runner, the Go program that runs the agent in a container: run  *)
(* of cmd/sandbox-runner with the Runner of internal/sandbox, and what the *)
(* calls it makes create and delete in containerd, in the host's network   *)
(* and on the console.                                                     *)
(*                                                                         *)
(* Any call may fail; a call that creates something may do so and have its *)
(* reply lost; the operation's deadline may pass at any moment; the user   *)
(* may press Ctrl+C.  Three goroutines run beside the main one.  todo is   *)
(* what the main one still has to do, deferred the calls its return makes. *)
(***************************************************************************)
EXTENDS Naturals, Sequences

CONSTANTS
  Codes,         \* exit codes of the task
  MaxInterrupts  \* bound: times the user presses Ctrl+C

ASSUME SandboxRunnerAssumption ==
  /\ Codes \subseteq Nat /\ Codes # {}
  /\ MaxInterrupts \in Nat

VARIABLES
  cfg,         \* RunConfig: is there a terminal, a network?
  todo,        \* run: the steps still to do, the current one first
  deferred,    \* run: its deferred calls, the next one first
  failed,      \* run: retErr is set
  code,        \* run: the exit code it returns
  killed,      \* Ctrl+C ended the program
  expired,     \* the operation's context is past its deadline
  exists,      \* of "lease", "endpoint", "snapshot", "container": what there is
  task,        \* the task in containerd: "none", "created", "running", "stopped"
  taskCode,    \* its exit code once it has stopped
  held,        \* the fields of Runner that are set
  status,      \* collectExit: "absent", "waiting", "exited" or "error" (exitErr)
  exitCode,    \* and the exit code it got
  console,     \* "normal" or "raw"
  resizer,     \* resize goroutine: "none", "idle", "calling", "ended"
  resizeDone,  \* that channel is closed
  notified,    \* signal.Notify is in effect
  interrupts,  \* the channel of interrupts
  proxy,       \* signal goroutine: "none", "idle", "calling", "ended"
  raised,      \* counter for MaxInterrupts
  mishaps      \* history: what a deletion has failed of, "reply" when one was lost

mainVars   == <<todo, deferred, failed, code>>
worldVars  == <<exists, task, taskCode>>
collectVars == <<status, exitCode>>
resizeVars == <<resizer, resizeDone>>
signalVars == <<killed, notified, interrupts, proxy, raised>>
vars == <<cfg, mainVars, signalVars, expired, worldVars, held, collectVars, console,
          resizeVars, mishaps>>

Done == killed \/ todo = <<>>

------------------------------------------------------------------------------
(* The main goroutine: its plan, and how a step ends.                      *)

When(condition, steps) == IF condition THEN steps ELSE <<>>

Prepare == <<"DetectSnapshotter", "CreateLease", "GetImage">>

Start(c) ==
  When(c.network, <<"CreateEndpoint">>)
  \o <<"CreateContainer", "CreateTask", "RegisterWait", "StartTask">>

run(c) ==
  <<"Connect">> \o Prepare \o When(c.terminal, <<"EnableConsole">>) \o Start(c)
  \o <<"Relay", "Wait">>

\* Mutant: the container is deleted before its task.
CleanupContainerFirst ==
  <<"DeleteContainer", "DeleteTask", "DeleteEndpoint", "DeleteLease">>

Cleanup == <<"DeleteTask", "DeleteContainer", "DeleteEndpoint", "DeleteLease">>

\* Mutant: the resize goroutine is awaited before it is told to end.
StopResizeAwaitsFirst == <<"AwaitResize", "CloseResize">>

\* Mutant: the resize goroutine is told to end, and not awaited.
StopResizeUnawaited == <<"CloseResize">>

StopResize == <<"CloseResize", "AwaitResize">>

At(step) == ~killed /\ todo # <<>> /\ Head(todo) = step

\* The step succeeds, and the function goes on.
Proceed(step) == At(step) /\ todo' = Tail(todo) /\ UNCHANGED <<deferred, failed, code>>

\* The step succeeds and has calls deferred.
ProceedDeferring(step, calls) ==
  /\ At(step) /\ todo' = Tail(todo)
  /\ deferred' = calls \o deferred
  /\ UNCHANGED <<failed, code>>

\* The function returns; before that it makes these calls.
Return(calls) == todo' = calls \o deferred /\ deferred' = <<>>

\* The step fails: rolled back, then the function returns the error.
Fail(step, rollback) == At(step) /\ Return(rollback) /\ failed' = TRUE /\ UNCHANGED code

\* Mutant: the error of a deferred call is not joined to the result.
Swallow(step) == At(step) /\ todo' = Tail(todo) /\ UNCHANGED <<deferred, failed, code>>

\* A clean-up step fails: the others go on, and the error is joined.
Join(step) == At(step) /\ todo' = Tail(todo) /\ failed' = TRUE /\ UNCHANGED <<deferred, code>>

Init ==
  /\ cfg \in [terminal : BOOLEAN, network : BOOLEAN]
  /\ todo = run(cfg) /\ deferred = <<>>
  /\ failed = FALSE /\ code = 0 /\ killed = FALSE
  /\ expired = FALSE
  /\ exists = {} /\ task = "none" /\ taskCode = 0
  /\ held = {} /\ status = "absent" /\ exitCode = 0 /\ console = "normal"
  /\ resizer = "none" /\ resizeDone = FALSE
  /\ notified = FALSE /\ interrupts = 0 /\ proxy = "none" /\ raised = 0
  /\ mishaps = {}

\* Nothing but the main goroutine's own state, and what the action says.
Quietly == UNCHANGED <<cfg, signalVars, expired>>

\* A creation took effect, and failed as far as the program can tell.
ReplyLost == mishaps' = mishaps \cup {"reply"}

\* This should have been deleted or restored, and was not.
UndoFailed(thing) == mishaps' = mishaps \cup {thing}

------------------------------------------------------------------------------
(* What run and Prepare do.                                                *)

\* parseConfig, the console's size, and the client: nothing to undo.
Connect ==
  /\ \/ ProceedDeferring("Connect", <<"CloseClient">>)
     \/ Fail("Connect", <<>>)
  /\ Quietly /\ UNCHANGED <<worldVars, held, collectVars, console, resizeVars, mishaps>>

\* The configuration is validated and a snapshotter chosen.
DetectSnapshotter ==
  /\ \/ ~expired /\ Proceed("DetectSnapshotter")
     \/ Fail("DetectSnapshotter", <<>>)
  /\ Quietly /\ UNCHANGED <<worldVars, held, collectVars, console, resizeVars, mishaps>>

CreateLease ==
  /\ \/ ~expired /\ Proceed("CreateLease") /\ exists' = exists \cup {"lease"} /\ UNCHANGED mishaps
     \/ Fail("CreateLease", <<>>) /\ UNCHANGED <<exists, mishaps>>
     \/ Fail("CreateLease", <<>>) /\ exists' = exists \cup {"lease"} /\ ReplyLost
  /\ Quietly /\ UNCHANGED <<task, taskCode, held, collectVars, console, resizeVars>>

\* Mutant: the rollback of the lease is not called off when Prepare succeeds.
PreparedWithRollback ==
  /\ At("GetImage") /\ todo' = <<"DropLease">> \o Tail(todo)
  /\ deferred' = Cleanup \o deferred
  /\ UNCHANGED <<failed, code>>
  /\ held' = held \cup {"lease"}

\* Prepare succeeds: the lease is the Runner's, and run defers Cleanup.
Prepared == ProceedDeferring("GetImage", Cleanup) /\ held' = held \cup {"lease"}

\* PullAndUnpack or GetUnpackedImage, under the lease.
GetImage ==
  /\ \/ ~expired /\ Prepared
     \/ Fail("GetImage", <<"DropLease">>) /\ UNCHANGED held
  /\ Quietly /\ UNCHANGED <<worldVars, collectVars, console, resizeVars, mishaps>>

\* The rollback of Prepare: its own failure is only logged.
DropLease ==
  /\ Proceed("DropLease")
  /\ \/ exists' = exists \ {"lease"} /\ UNCHANGED mishaps
     \/ UndoFailed("lease") /\ UNCHANGED exists
  /\ Quietly /\ UNCHANGED <<task, taskCode, held, collectVars, console, resizeVars>>

\* When it fails half-way the modes are restored, or that fails too.
EnableConsole ==
  /\ \/ /\ ProceedDeferring("EnableConsole", <<"RestoreConsole">>)
        /\ console' = "raw" /\ UNCHANGED mishaps
     \/ Fail("EnableConsole", <<>>) /\ UNCHANGED <<console, mishaps>>
     \/ Fail("EnableConsole", <<>>) /\ console' = "raw" /\ UndoFailed("console")
  /\ Quietly /\ UNCHANGED <<worldVars, held, collectVars, resizeVars>>

------------------------------------------------------------------------------
(* Runner.Start.                                                           *)

\* HCN takes no context.
CreateEndpoint ==
  /\ \/ /\ Proceed("CreateEndpoint")
        /\ exists' = exists \cup {"endpoint"} /\ held' = held \cup {"endpoint"}
        /\ UNCHANGED mishaps
     \/ Fail("CreateEndpoint", <<>>) /\ UNCHANGED <<exists, held, mishaps>>
     \/ Fail("CreateEndpoint", <<>>) /\ exists' = exists \cup {"endpoint"} /\ ReplyLost
        /\ UNCHANGED held
  /\ Quietly /\ UNCHANGED <<task, taskCode, collectVars, console, resizeVars>>

\* NewContainer makes the snapshot first; when it fails the snapshot is removed.
CreateContainer ==
  /\ \/ /\ ~expired /\ Proceed("CreateContainer")
        /\ exists' = exists \cup {"snapshot", "container"} /\ held' = held \cup {"container"}
        /\ UNCHANGED mishaps
     \/ /\ Fail("CreateContainer", <<"DropSnapshot">>)
        /\ exists' \in {exists, exists \cup {"snapshot"}} /\ UNCHANGED <<held, mishaps>>
     \/ /\ Fail("CreateContainer", <<"DropSnapshot">>)
        /\ exists' = exists \cup {"snapshot", "container"} /\ ReplyLost /\ UNCHANGED held
  /\ Quietly /\ UNCHANGED <<task, taskCode, collectVars, console, resizeVars>>

\* Mutant: the snapshot of a container that could not be created is kept.
KeepSnapshot ==
  /\ Proceed("DropSnapshot")
  /\ Quietly /\ UNCHANGED <<worldVars, held, collectVars, console, resizeVars, mishaps>>

DropSnapshot ==
  /\ Proceed("DropSnapshot")
  /\ \/ exists' = exists \ {"snapshot"} /\ UNCHANGED mishaps
     \/ UndoFailed("snapshot") /\ UNCHANGED exists
  /\ Quietly /\ UNCHANGED <<task, taskCode, held, collectVars, console, resizeVars>>

CreateTask ==
  /\ \/ ~expired /\ Proceed("CreateTask") /\ task' = "created" /\ UNCHANGED mishaps
     \/ Fail("CreateTask", <<>>) /\ UNCHANGED <<task, mishaps>>
     \/ Fail("CreateTask", <<>>) /\ task' = "created" /\ ReplyLost
  /\ Quietly /\ UNCHANGED <<exists, taskCode, held, collectVars, console, resizeVars>>

\* task.Wait is registered before the task starts, lest its exit be missed.
RegisterWait ==
  /\ \/ ~expired /\ Proceed("RegisterWait")
     \/ Fail("RegisterWait", <<"DropTask">>)
  /\ Quietly /\ UNCHANGED <<worldVars, held, collectVars, console, resizeVars, mishaps>>

\* The task runs, the Runner has it, and collectExit waits for its status.
StartTask ==
  /\ \/ /\ ~expired /\ Proceed("StartTask")
        /\ task' = "running" /\ held' = held \cup {"task"} /\ status' = "waiting"
     \/ /\ Fail("StartTask", <<"DropTask">>)
        /\ task' \in {"created", "running"} /\ UNCHANGED <<held, status>>
  /\ Quietly /\ UNCHANGED <<exists, taskCode, exitCode, console, resizeVars, mishaps>>

\* task.Delete kills a running task first.
KillAndDelete ==
  \/ task' = "none" /\ UNCHANGED mishaps
  \/ UndoFailed("task") /\ task' \in {task, IF task = "running" THEN "stopped" ELSE task}

DropTask ==
  /\ Proceed("DropTask") /\ KillAndDelete
  /\ Quietly /\ UNCHANGED <<exists, taskCode, held, collectVars, console, resizeVars>>

------------------------------------------------------------------------------
(* Waiting and stopping.                                                   *)

\* The resize goroutine of a terminal, the relay of interrupts, and the calls
\* deferred for them.
Relay ==
  /\ ProceedDeferring("Relay", <<"StopSignals">> \o StopResize)
  /\ resizer' = IF cfg.terminal THEN "idle" ELSE "none"
  /\ notified' = TRUE /\ proxy' = "idle"
  /\ UNCHANGED <<cfg, killed, interrupts, raised, expired, worldVars, held, collectVars, console,
                 resizeDone, mishaps>>

\* Runner.Wait: the exit status, or the deadline, whichever it sees first.
Wait ==
  /\ At("Wait")
  /\ \/ status = "exited" /\ code' = exitCode /\ Return(<<>>) /\ UNCHANGED failed
     \/ (status = "error" \/ expired) /\ Return(<<"Stop">>) /\ failed' = TRUE /\ UNCHANGED code
  /\ Quietly /\ UNCHANGED <<worldVars, held, collectVars, console, resizeVars, mishaps>>

\* Runner.Stop asks for the status, and sends SIGTERM to a task that runs.
Stop ==
  /\ At("Stop")
  /\ \/ todo' = Tail(todo)
     \/ task # "stopped" /\ todo' = <<"Poll">> \o Tail(todo)
  /\ Quietly
  /\ UNCHANGED <<deferred, failed, code, worldVars, held, collectVars, console, resizeVars, mishaps>>

\* The grace period: over when the task has stopped or Stop's own context is done;
\* otherwise SIGKILL follows.
Poll ==
  /\ At("Poll")
  /\ \/ todo' = Tail(todo)
     \/ task # "stopped" /\ todo' = <<"Kill">> \o Tail(todo)
  /\ Quietly
  /\ UNCHANGED <<deferred, failed, code, worldVars, held, collectVars, console, resizeVars, mishaps>>

\* It takes effect at once, later, or not at all.
Kill ==
  /\ Proceed("Kill")
  /\ \/ UNCHANGED <<task, taskCode>>
     \/ task = "running" /\ task' = "stopped" /\ taskCode' \in Codes
  /\ Quietly /\ UNCHANGED <<exists, held, collectVars, console, resizeVars, mishaps>>

------------------------------------------------------------------------------
(* The deferred calls.                                                     *)

StopSignals ==
  /\ Proceed("StopSignals") /\ notified' = FALSE
  /\ UNCHANGED <<cfg, killed, interrupts, proxy, raised, expired, worldVars, held, collectVars,
                 console, resizeVars, mishaps>>

CloseResize ==
  /\ Proceed("CloseResize") /\ resizeDone' = TRUE
  /\ Quietly /\ UNCHANGED <<worldVars, held, collectVars, console, resizer, mishaps>>

AwaitResize ==
  /\ Proceed("AwaitResize") /\ resizer \in {"none", "ended"}
  /\ Quietly /\ UNCHANGED <<worldVars, held, collectVars, console, resizeVars, mishaps>>

RestoreConsole ==
  /\ \/ Proceed("RestoreConsole") /\ console' = "normal" /\ UNCHANGED mishaps
     \/ Join("RestoreConsole") /\ UndoFailed("console") /\ UNCHANGED console
  /\ Quietly /\ UNCHANGED <<worldVars, held, collectVars, resizeVars>>

\* Runner.Cleanup deletes what the Runner holds and joins the errors.
DeleteTask ==
  /\ \/ Proceed("DeleteTask") /\ "task" \notin held /\ UNCHANGED <<task, mishaps>>
     \/ Proceed("DeleteTask") /\ "task" \in held /\ task' = "none" /\ UNCHANGED mishaps
     \/ Join("DeleteTask") /\ "task" \in held /\ UndoFailed("task")
        /\ task' \in {task, IF task = "running" THEN "stopped" ELSE task}
  /\ Quietly /\ UNCHANGED <<exists, taskCode, held, collectVars, console, resizeVars>>

\* containerd refuses to delete a container that has a task.  What a first attempt
\* leaves is deleted in two separate calls.
DeleteContainer ==
  /\ \/ /\ Proceed("DeleteContainer") /\ "container" \notin held
        /\ UNCHANGED exists
     \/ /\ Proceed("DeleteContainer") /\ "container" \in held /\ task = "none"
        /\ exists' = exists \ {"snapshot", "container"}
     \/ /\ At("DeleteContainer") /\ "container" \in held
        /\ todo' = <<"RemoveSnapshot", "DeleteMetadata">> \o Tail(todo)
        /\ \/ UNCHANGED exists
           \/ task = "none" /\ exists' = exists \ {"snapshot"}
        /\ UNCHANGED <<deferred, failed, code>>
  /\ Quietly /\ UNCHANGED <<task, taskCode, held, collectVars, console, resizeVars, mishaps>>

\* One call that deletes one thing, which is not there any more, or fails.
Delete(step, thing, possible) ==
  \/ Proceed(step) /\ possible /\ exists' = exists \ {thing} /\ UNCHANGED mishaps
  \/ Join(step) /\ UndoFailed(thing) /\ UNCHANGED exists

RemoveSnapshot ==
  /\ Delete("RemoveSnapshot", "snapshot", TRUE)
  /\ Quietly /\ UNCHANGED <<task, taskCode, held, collectVars, console, resizeVars>>

DeleteMetadata ==
  /\ Delete("DeleteMetadata", "container", task = "none")
  /\ Quietly /\ UNCHANGED <<task, taskCode, held, collectVars, console, resizeVars>>

DeleteEndpoint ==
  /\ \/ "endpoint" \in held /\ Delete("DeleteEndpoint", "endpoint", TRUE)
     \/ "endpoint" \notin held /\ Proceed("DeleteEndpoint") /\ UNCHANGED <<exists, mishaps>>
  /\ Quietly /\ UNCHANGED <<task, taskCode, held, collectVars, console, resizeVars>>

\* The lease goes last; then the Runner forgets everything, deleted or not.
DeleteLease ==
  /\ Delete("DeleteLease", "lease", TRUE)
  /\ held' = {}
  /\ Quietly /\ UNCHANGED <<task, taskCode, collectVars, console, resizeVars>>

CloseClient ==
  /\ Proceed("CloseClient") \/ Join("CloseClient")
  /\ Quietly /\ UNCHANGED <<worldVars, held, collectVars, console, resizeVars, mishaps>>

Main ==
  \/ Connect \/ DetectSnapshotter \/ CreateLease \/ GetImage \/ DropLease \/ EnableConsole
  \/ CreateEndpoint \/ CreateContainer \/ DropSnapshot
  \/ CreateTask \/ RegisterWait \/ StartTask \/ DropTask
  \/ Relay \/ Wait \/ Stop \/ Poll \/ Kill
  \/ StopSignals \/ CloseResize \/ AwaitResize \/ RestoreConsole
  \/ DeleteTask \/ DeleteContainer \/ RemoveSnapshot \/ DeleteMetadata
  \/ DeleteEndpoint \/ DeleteLease \/ CloseClient

------------------------------------------------------------------------------
(* The other goroutines, the clock, the task and the user.                 *)

\* Mutant: a channel that is closed without a status is an exit with code 0.
CollectedOrZero ==
  status' = "exited" /\ exitCode' = IF task = "stopped" THEN taskCode ELSE 0

\* What the Wait channel delivers: the task's code, or an error at any time.
Collected ==
  \/ task = "stopped" /\ status' = "exited" /\ exitCode' = taskCode
  \/ status' = "error" /\ exitCode' = 0

collectExit ==
  /\ ~Done /\ status = "waiting"
  /\ Collected
  /\ UNCHANGED <<cfg, mainVars, signalVars, expired, worldVars, held, console, resizeVars, mishaps>>

\* The window's size has changed: ResizeTTY, with a deadline of its own.
Resize ==
  /\ ~Done
  /\ \/ resizer = "idle" /\ "task" \in held /\ resizer' = "calling"
     \/ resizer = "calling" /\ resizer' = "idle"
  /\ UNCHANGED <<cfg, mainVars, signalVars, expired, worldVars, held, collectVars, console,
                 resizeDone, mishaps>>

EndResize ==
  /\ ~Done /\ resizer = "idle" /\ resizeDone
  /\ resizer' = "ended"
  /\ UNCHANGED <<cfg, mainVars, signalVars, expired, worldVars, held, collectVars, console,
                 resizeDone, mishaps>>

\* An interrupt is forwarded to the task; the goroutine ends some time after main
\* has closed proxyDone, and nobody waits for it.
Proxy ==
  /\ ~Done
  /\ \/ proxy = "idle" /\ interrupts > 0 /\ interrupts' = interrupts - 1 /\ proxy' = "calling"
     \/ proxy = "calling" /\ proxy' = "idle" /\ UNCHANGED interrupts
     \/ proxy = "idle" /\ ~notified /\ proxy' = "ended" /\ UNCHANGED interrupts
  /\ UNCHANGED <<cfg, mainVars, killed, notified, raised, expired, worldVars, held, collectVars,
                 console, resizeVars, mishaps>>

\* context.WithTimeout(cfg.OperationTimeout)
Expire ==
  /\ ~Done /\ ~expired /\ expired' = TRUE
  /\ UNCHANGED <<cfg, mainVars, signalVars, worldVars, held, collectVars, console, resizeVars, mishaps>>

TaskExits ==
  /\ task = "running"
  /\ task' = "stopped" /\ taskCode' \in Codes
  /\ UNCHANGED <<cfg, mainVars, signalVars, expired, exists, held, collectVars, console, resizeVars,
                 mishaps>>

\* Mutant: the channel of interrupts has no bound.
QueuedUnbounded == interrupts + 1

\* The channel has room for two; what does not fit is dropped.
Queued == IF interrupts < 2 THEN interrupts + 1 ELSE 2

\* Ctrl+C: sent to the channel, or, while Notify is not in effect, the end of the
\* program where it is.
Interrupt ==
  /\ ~Done /\ raised < MaxInterrupts /\ raised' = raised + 1
  /\ IF notified
     THEN interrupts' = Queued /\ UNCHANGED killed
     ELSE killed' = TRUE /\ UNCHANGED interrupts
  /\ UNCHANGED <<cfg, mainVars, notified, proxy, expired, worldVars, held, collectVars, console,
                 resizeVars, mishaps>>

Next ==
  Main \/ collectExit \/ Resize \/ EndResize \/ Proxy \/ Expire \/ TaskExits \/ Interrupt

\* Every call returns: those to containerd at their context's deadline, those to HCN,
\* which take no context, by themselves.  The deadline passes.  The Wait channel delivers
\* when the task has stopped or its context is done.  A select with a closed channel picks
\* it sooner or later.
Spec ==
  /\ Init /\ [][Next]_vars
  /\ WF_vars(Main) /\ WF_vars(Expire)
  /\ WF_vars(collectExit /\ (task = "stopped" \/ expired))
  /\ WF_vars(Resize) /\ SF_vars(EndResize)
------------------------------------------------------------------------------
(* Properties.                                                             *)

Things == {"lease", "endpoint", "snapshot", "container"}

Steps ==
  {"Connect", "DetectSnapshotter", "CreateLease", "GetImage", "DropLease", "EnableConsole",
   "CreateEndpoint", "CreateContainer", "DropSnapshot", "CreateTask", "RegisterWait",
   "StartTask", "DropTask", "Relay", "Wait", "Stop", "Poll", "Kill", "StopSignals",
   "CloseResize", "AwaitResize", "RestoreConsole", "DeleteTask", "DeleteContainer",
   "RemoveSnapshot", "DeleteMetadata", "DeleteEndpoint", "DeleteLease", "CloseClient"}

\* Every variable has its type.
TypeOK ==
  /\ cfg \in [terminal : BOOLEAN, network : BOOLEAN]
  /\ todo \in Seq(Steps) /\ deferred \in Seq(Steps)
  /\ failed \in BOOLEAN /\ code \in Codes \cup {0} /\ killed \in BOOLEAN /\ expired \in BOOLEAN
  /\ exists \subseteq Things /\ task \in {"none", "created", "running", "stopped"}
  /\ taskCode \in Codes \cup {0}
  /\ held \subseteq {"lease", "endpoint", "container", "task"}
  /\ status \in {"absent", "waiting", "exited", "error"} /\ exitCode \in Codes \cup {0}
  /\ console \in {"normal", "raw"}
  /\ resizer \in {"none", "idle", "calling", "ended"} /\ resizeDone \in BOOLEAN
  /\ notified \in BOOLEAN /\ interrupts \in 0..2
  /\ proxy \in {"none", "idle", "calling", "ended"}
  /\ raised \in 0..MaxInterrupts /\ mishaps \subseteq Things \cup {"task", "console", "reply"}

Returned == ~killed /\ todo = <<>>
NothingLeft == exists = {} /\ task = "none" /\ console = "normal"

\* Whatever fails and whenever the deadline passes, run gives everything back
\* before it returns: something is left only if a deletion itself failed, or a
\* creation that had succeeded was reported as failed.
LeakNeedsMishap == Returned /\ mishaps = {} => NothingLeft

\* A run that reports no error has left nothing behind, whatever calls failed.
NoSilentLeak == Returned /\ ~failed => NothingLeft

\* The exit code run returns without an error is the one the task exited with.
ReportedCodeIsTrue == Returned /\ ~failed => status = "exited" /\ code = taskCode

\* A task keeps its container.  Its root file system is taken from under it in one case:
\* its deletion failed, or it was never known of because the reply was lost, and Cleanup
\* went on to the snapshot (runner.go:298); then run returns an error.
TaskKeepsItsSnapshot ==
  task # "none" =>
    /\ "container" \in exists
    /\ \/ "snapshot" \in exists
       \/ failed /\ ("task" \in mishaps \/ "reply" \in mishaps)

\* The lease that protects the snapshot from garbage collection (lease.go:17) outlives
\* it, unless the snapshot's own deletion failed: then run returns an error.
LeaseOutlivesSnapshot ==
  "snapshot" \in exists => "lease" \in exists \/ (failed /\ "snapshot" \in mishaps)

\* On every path through Start's roll-backs and Cleanup, and after any failures in any
\* order, what is still needed is there: it is taken away only when the deletion of what
\* needs it has failed, and never without an error.
NeededOnesRemain == TaskKeepsItsSnapshot /\ LeaseOutlivesSnapshot

\* No goroutine resizes a task while Cleanup deletes it, or writes to a console that
\* was given back: Cleanup starts when the resize goroutine has ended.
ResizeEndsFirst ==
  resizer = "calling" => \/ "RestoreConsole" \in {todo[n] : n \in DOMAIN todo}
                         \/ "RestoreConsole" \in {deferred[n] : n \in DOMAIN deferred}

\* The program ends, although the task may run for ever and any call may fail.
RunEnds == <>Done
==============================================================================
