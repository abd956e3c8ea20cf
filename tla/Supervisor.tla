------------------------------ MODULE Supervisor ------------------------------
(***************************************************************************)
(* main.cpp, the lifecycle half of StartProcess, and HcsSandbox: the main  *)
(* thread starts a suspended cmd.exe in a job, opens the trace, resumes    *)
(* it, waits until the job is empty, takes everything down in order, and   *)
(* after an alert continues the interrupted session in the container       *)
(* runner.  The completion-port thread, the trace thread and the managed   *)
(* processes run beside it, and any call may fail.                         *)
(*                                                                         *)
(* todo is what the main thread still has to do.  A failed step replaces   *)
(* it by the clean-up its error branch performs.                           *)
(***************************************************************************)
EXTENDS Naturals, Sequences, FiniteSetsExt

CONSTANTS
  Faults,   \* the faults considered, of those listed below
  MaxKids,  \* bound: descendants of the root alive at once
  Sessions, \* identifiers of agent sessions
  MaxTime   \* bound: ticks of the clock during the run

AllFaults == {"home", "create", "job", "port", "associate", "assign", "monitor thread",
              "bootstrap", "open", "trace thread", "resume",   \* a call of main fails
              "runner", "support", "create runner",            \* a call of HcsSandbox fails
              "provider",   \* the constructor of a provider throws
              "stop",       \* trace.stop() throws
              "trace",      \* trace.process() throws
              "read",       \* GetQueuedCompletionStatus fails
              "zero",       \* the job's last message is lost
              "stopped"}    \* another program stops the session "MyTrace"

ASSUME SupervisorAssumption ==
  Faults \subseteq AllFaults /\ MaxKids \in Nat /\ MaxTime \in Nat /\ "none" \notin Sessions

VARIABLES
  todo,        \* main: the steps still to do, the current one first
  exitCode,    \* main: its result, "none" while undecided
  root,        \* cmd.exe: "none", "suspended", "running", "ended"
  assigned,    \* it is in the job
  kids,        \* processes of the job it left behind or started
  job,         \* the job handle: "none", "open", "closed"
  zeros,       \* ACTIVE_PROCESS_ZERO messages at the port, none before it exists
  monitor,     \* jobMonitorThread: "none", "reading", "succeeded", "failed"
  joinable,    \* jobMonitorThread.joinable()
  session,     \* the trace session: "none", "open", "stopped", "taken" by another program
  tracer,      \* traceThread: "none", "processing", "throwing", "returned", "joined"
  traceFailed, \* trace_exception is set
  unhandled,   \* an event that reports a violation is not delivered yet
  requested,   \* sandboxReexecutionRequested
  violated,    \* history: a managed process accessed protected data
  zeroLost,    \* history: the message that the job is empty was lost
  rollouts,    \* the session files: the tick each was last written at, 0 before the run
  jobWrote,    \* history: the tick an agent of the job last wrote each at, 0 if none did
  resumed,     \* the session to continue, or "none"
  runner       \* the container runner: "none", "running", "ended"

processVars == <<root, assigned, kids, zeros, zeroLost>>
threadVars  == <<monitor, joinable, session, tracer, traceFailed>>
runnerVars  == <<resumed, runner>>
fileVars    == <<rollouts, jobWrote>>
alertVars   == <<unhandled, requested, violated, fileVars, runnerVars>>
vars == <<todo, exitCode, job, processVars, threadVars, alertVars>>

------------------------------------------------------------------------------
(* The plan of the main thread, and what each error branch makes of it.    *)

StartCmdSuspendedInJob ==
  <<"CreateProcess", "CreateJobObject", "CreateIoCompletionPort", "SetInformationJobObject",
    "AssignProcessToJobObject", "StartMonitor">>

CloseManagedJobProcess == <<"PostZero", "JoinMonitor", "CloseHandles">>

StartHcsSandboxReexecution ==
  <<"FindSession", "FindRunner", "InstallSupportFiles", "CreateRunner", "AwaitRunner">>

\* Mutant: the root is resumed before the providers are registered.
PlanResumesFirst ==
  <<"FindHome">> \o StartCmdSuspendedInJob
  \o <<"FindProvider", "Bootstrap", "Resume", "FindProvider", "OpenTrace",
        "StartTraceThread", "Wait", "StopTrace", "JoinTrace">>
  \o CloseManagedJobProcess \o <<"Decide">>

MainPlan ==
  <<"FindHome">> \o StartCmdSuspendedInJob
  \o <<"FindProvider", "Bootstrap", "FindProvider", "OpenTrace", "StartTraceThread",
        "Resume", "Wait", "StopTrace", "JoinTrace">>
  \o CloseManagedJobProcess \o <<"Decide">>

\* Mutant: a root that cannot be put into the job is left suspended.
LeaveRoot == CloseManagedJobProcess

\* The job cannot be set up around the root that already exists.
UndoStart == <<"TerminateRoot">> \o CloseManagedJobProcess

\* The root is in the job and the monitor thread runs.
UndoJob == <<"TerminateJob", "Wait">> \o CloseManagedJobProcess

\* Mutant: the trace thread is not joined when the root cannot be resumed.
UndoTraceWithoutJoin == <<"StopTrace", "TerminateRoot", "Wait">> \o CloseManagedJobProcess

\* The trace thread runs too, and the root is still suspended.
UndoTrace == <<"StopTrace", "JoinTrace", "TerminateRoot", "Wait">> \o CloseManagedJobProcess

AfterFailed(step) ==
  CASE step \in {"FindHome", "CreateProcess"} \cup Range(StartHcsSandboxReexecution) -> <<>>
    [] step \in {"CreateJobObject", "CreateIoCompletionPort", "SetInformationJobObject",
                 "AssignProcessToJobObject", "StartMonitor"} -> UndoStart
    [] step \in {"Bootstrap", "OpenTrace"} -> UndoJob
    [] step = "StartTraceThread" -> <<"StopTrace">> \o UndoJob
    [] step = "Resume" -> UndoTrace

------------------------------------------------------------------------------
(* Processes and the job.                                                  *)

RootAlive == root \in {"suspended", "running"}
JobActive == (assigned /\ RootAlive) \/ kids > 0
Done == todo = <<>>

\* The processes alive become r and k.  When that empties the job, the port it
\* is associated with is told so, or the message is lost.
Become(r, k) ==
  LET empties == JobActive /\ k = 0 /\ (assigned => r \notin {"suspended", "running"}) IN
  /\ root' = r /\ kids' = k
  /\ \/ zeros' = (IF empties THEN zeros + 1 ELSE zeros) /\ UNCHANGED zeroLost
     \/ empties /\ "zero" \in Faults /\ zeroLost' = TRUE /\ UNCHANGED zeros
  /\ UNCHANGED assigned

TerminateRoot == Become(IF RootAlive THEN "ended" ELSE root, kids)

\* TerminateManagedJob: every process of the job, or the root if there is no job.
TerminateManagedJob ==
  IF job = "open" THEN Become(IF assigned /\ RootAlive THEN "ended" ELSE root, 0)
  ELSE TerminateRoot

------------------------------------------------------------------------------
(* The main thread.                                                        *)

Init ==
  /\ todo = MainPlan /\ exitCode = "none"
  /\ root = "none" /\ assigned = FALSE /\ kids = 0 /\ zeros = 0
  /\ job = "none"
  /\ monitor = "none" /\ joinable = FALSE
  /\ session = "none" /\ tracer = "none" /\ traceFailed = FALSE
  /\ unhandled = FALSE /\ requested = FALSE /\ violated = FALSE
  /\ zeroLost = FALSE /\ rollouts \in UNION {[S -> {0}] : S \in SUBSET Sessions}
  /\ jobWrote = [s \in Sessions |-> 0]
  /\ resumed = "none" /\ runner = "none"

\* The current step is done, and the next one is up.
Step(name) == todo # <<>> /\ Head(todo) = name /\ todo' = Tail(todo) /\ UNCHANGED exitCode

\* The call the step makes fails, which leaves everything else as it was.
Fail(name, fault) ==
  /\ todo # <<>> /\ Head(todo) = name /\ fault \in Faults
  /\ todo' = AfterFailed(name) /\ exitCode' = "1"
  /\ UNCHANGED <<job, processVars, threadVars, alertVars>>

\* An exception nobody catches: the program ends at once, and with it its threads.
Abort(name, fault) ==
  /\ todo # <<>> /\ Head(todo) = name /\ fault \in Faults
  /\ todo' = <<>> /\ exitCode' = "aborted"
  /\ UNCHANGED <<job, processVars, threadVars, alertVars>>

FindHome ==
  \/ Step("FindHome") /\ UNCHANGED <<job, processVars, threadVars, alertVars>>
  \/ Fail("FindHome", "home")

CreateProcess ==
  \/ /\ Step("CreateProcess")
     /\ root' = "suspended"
     /\ UNCHANGED <<job, assigned, kids, zeros, zeroLost, threadVars, alertVars>>
  \/ Fail("CreateProcess", "create")

CreateJobObject ==
  \/ /\ Step("CreateJobObject")
     /\ job' = "open"
     /\ UNCHANGED <<processVars, threadVars, alertVars>>
  \/ Fail("CreateJobObject", "job")

CreateIoCompletionPort ==
  \/ Step("CreateIoCompletionPort") /\ UNCHANGED <<job, processVars, threadVars, alertVars>>
  \/ Fail("CreateIoCompletionPort", "port")

SetInformationJobObject ==
  \/ Step("SetInformationJobObject") /\ UNCHANGED <<job, processVars, threadVars, alertVars>>
  \/ Fail("SetInformationJobObject", "associate")

AssignProcessToJobObject ==
  \/ /\ Step("AssignProcessToJobObject") /\ RootAlive
     /\ assigned' = TRUE
     /\ UNCHANGED <<job, root, kids, zeros, zeroLost, threadVars, alertVars>>
  \/ Fail("AssignProcessToJobObject", "assign")

StartMonitor ==
  \/ /\ Step("StartMonitor")
     /\ monitor' = "reading" /\ joinable' = TRUE
     /\ UNCHANGED <<job, processVars, session, tracer, traceFailed, alertVars>>
  \/ Fail("StartMonitor", "monitor thread")

\* The constructors of the two providers look their names up.
FindProvider ==
  \/ Step("FindProvider") /\ UNCHANGED <<job, processVars, threadVars, alertVars>>
  \/ Abort("FindProvider", "provider")

Bootstrap ==
  \/ Step("Bootstrap") /\ UNCHANGED <<job, processVars, threadVars, alertVars>>
  \/ Fail("Bootstrap", "bootstrap")

OpenTrace ==
  \/ /\ Step("OpenTrace")
     /\ session' = "open"
     /\ UNCHANGED <<job, processVars, monitor, joinable, tracer, traceFailed, alertVars>>
  \/ Fail("OpenTrace", "open")

StartTraceThread ==
  \/ /\ Step("StartTraceThread")
     /\ tracer' = "processing"
     /\ UNCHANGED <<job, processVars, monitor, joinable, session, traceFailed, alertVars>>
  \/ Fail("StartTraceThread", "trace thread")

\* A root that was terminated meanwhile can be resumed to no effect, or not.
Resume ==
  \/ /\ Step("Resume")
     /\ root' = IF root = "suspended" THEN "running" ELSE root
     /\ UNCHANGED <<job, assigned, kids, zeros, zeroLost, threadVars, alertVars>>
  \/ Fail("Resume", "resume")

\* WaitForManagedJobToFinish joins the monitor thread.  Nobody looks at its result.
Wait ==
  /\ Step("Wait")
  /\ joinable => monitor # "reading"
  /\ joinable' = FALSE
  /\ UNCHANGED <<job, processVars, monitor, session, tracer, traceFailed, alertVars>>

StopTrace ==
  /\ Step("StopTrace")
  /\ session' = "stopped"
  /\ UNCHANGED <<job, processVars, monitor, joinable, tracer, traceFailed, alertVars>>

StopThrows == Abort("StopTrace", "stop")

JoinTrace ==
  /\ Step("JoinTrace")
  /\ tracer = "returned" /\ tracer' = "joined"
  /\ UNCHANGED <<job, processVars, monitor, joinable, session, traceFailed, alertVars>>

Terminate ==
  /\ \/ Step("TerminateRoot") /\ TerminateRoot
     \/ Step("TerminateJob") /\ TerminateManagedJob
  /\ UNCHANGED <<job, threadVars, alertVars>>

\* CloseManagedJobProcess: a monitor thread nobody joined is told to return.
PostZero ==
  /\ Step("PostZero")
  /\ zeros' = IF joinable THEN zeros + 1 ELSE zeros
  /\ UNCHANGED <<job, root, assigned, kids, zeroLost, threadVars, alertVars>>

JoinMonitor ==
  /\ Step("JoinMonitor")
  /\ joinable => monitor # "reading"
  /\ joinable' = FALSE
  /\ UNCHANGED <<job, processVars, monitor, session, tracer, traceFailed, alertVars>>

\* Closing the job's handle ends no process: the job has no kill-on-close limit.
CloseHandles ==
  /\ Step("CloseHandles")
  /\ job' = IF job = "open" THEN "closed" ELSE job
  /\ UNCHANGED <<processVars, threadVars, alertVars>>

\* Mutant: a trace error is not reported.
DecideIgnoresTrace ==
  /\ todo # <<>> /\ Head(todo) = "Decide"
  /\ \/ requested /\ todo' = StartHcsSandboxReexecution /\ UNCHANGED exitCode
     \/ ~requested /\ todo' = <<>> /\ exitCode' = "0"
  /\ UNCHANGED <<job, processVars, threadVars, alertVars>>

\* The end of main: an alert leads to the container, whatever the trace did;
\* otherwise a trace error is reported.
Decide ==
  /\ todo # <<>> /\ Head(todo) = "Decide"
  /\ \/ requested /\ todo' = StartHcsSandboxReexecution /\ UNCHANGED exitCode
     \/ ~requested /\ todo' = <<>> /\ exitCode' = IF traceFailed THEN "1" ELSE "0"
  /\ UNCHANGED <<job, processVars, threadVars, alertVars>>

\* Mutant: sessions of before the run are considered.
AllRollouts == DOMAIN rollouts

\* The session files written since the program noted the time, a tick before the run's first.
RecentRollouts == {s \in DOMAIN rollouts : rollouts[s] >= 1}

\* The newest of them; of several of one tick, whichever the directory lists first.
FindInterruptedSessionId ==
  {s \in RecentRollouts : rollouts[s] = Max({rollouts[r] : r \in RecentRollouts})}

FindSession ==
  \/ /\ Step("FindSession") /\ resumed' \in FindInterruptedSessionId
     /\ UNCHANGED <<job, processVars, threadVars, unhandled, requested, violated, fileVars, runner>>
  \/ /\ todo # <<>> /\ Head(todo) = "FindSession" /\ RecentRollouts = {}
     /\ todo' = <<>> /\ exitCode' = "1"
     /\ UNCHANGED <<job, processVars, threadVars, alertVars>>

FindRunner ==
  \/ Step("FindRunner") /\ UNCHANGED <<job, processVars, threadVars, alertVars>>
  \/ Fail("FindRunner", "runner")

InstallSupportFiles ==
  \/ Step("InstallSupportFiles") /\ UNCHANGED <<job, processVars, threadVars, alertVars>>
  \/ Fail("InstallSupportFiles", "support")

CreateRunner ==
  \/ /\ Step("CreateRunner") /\ runner' = "running"
     /\ UNCHANGED <<job, processVars, threadVars, unhandled, requested, violated, fileVars, resumed>>
  \/ Fail("CreateRunner", "create runner")

\* The result is the runner's, whatever that is.
AwaitRunner ==
  /\ todo # <<>> /\ Head(todo) = "AwaitRunner" /\ runner = "ended"
  /\ todo' = <<>> /\ exitCode' = "runner"
  /\ UNCHANGED <<job, processVars, threadVars, alertVars>>

Main ==
  \/ FindHome \/ CreateProcess \/ CreateJobObject \/ CreateIoCompletionPort
  \/ SetInformationJobObject \/ AssignProcessToJobObject \/ StartMonitor
  \/ FindProvider \/ Bootstrap \/ OpenTrace \/ StartTraceThread \/ Resume
  \/ Wait \/ StopTrace \/ StopThrows \/ JoinTrace \/ Terminate
  \/ PostZero \/ JoinMonitor \/ CloseHandles \/ Decide
  \/ FindSession \/ FindRunner \/ InstallSupportFiles \/ CreateRunner \/ AwaitRunner

------------------------------------------------------------------------------
(* The other threads.                                                      *)

\* Mutant: the monitor thread returns without having read a message.
MonitorReturnsUnasked ==
  /\ monitor = "reading" /\ ~Done
  /\ monitor' = "succeeded" /\ zeros' = zeros - 1
  /\ UNCHANGED <<todo, exitCode, job, root, assigned, kids, zeroLost, joinable, session, tracer,
                 traceFailed, alertVars>>

\* MonitorJob returns at the message that says the job is empty.
MonitorJob ==
  /\ monitor = "reading" /\ ~Done
  /\ zeros > 0 /\ zeros' = zeros - 1 /\ monitor' = "succeeded"
  /\ UNCHANGED <<todo, exitCode, job, root, assigned, kids, zeroLost, joinable, session, tracer,
                 traceFailed, alertVars>>

\* Or when GetQueuedCompletionStatus fails.
MonitorFails ==
  /\ monitor = "reading" /\ ~Done /\ "read" \in Faults
  /\ monitor' = "failed"
  /\ UNCHANGED <<todo, exitCode, job, processVars, joinable, session, tracer, traceFailed,
                 alertVars>>

\* The callback handles the event and raises the request; the job lives on.
HandleViolation ==
  /\ tracer = "processing" /\ unhandled
  /\ unhandled' = FALSE /\ requested' = TRUE
  /\ UNCHANGED <<todo, exitCode, job, processVars, threadVars, violated, fileVars, runnerVars>>

\* trace.process() returns once the session is stopped, with the events that
\* were still in its buffers or without them.
ProcessReturns ==
  /\ tracer = "processing" /\ session \in {"stopped", "taken"}
  /\ tracer' = "returned"
  /\ UNCHANGED <<todo, exitCode, job, processVars, monitor, joinable, session, traceFailed,
                 alertVars>>

ProcessThrows ==
  /\ tracer = "processing" /\ "trace" \in Faults
  /\ tracer' = "throwing" /\ traceFailed' = TRUE
  /\ UNCHANGED <<todo, exitCode, job, processVars, monitor, joinable, session, alertVars>>

\* Mutant: a trace error does not end the job.
CatchWithoutTermination ==
  /\ tracer = "throwing"
  /\ tracer' = "returned"
  /\ UNCHANGED <<todo, exitCode, job, processVars, monitor, joinable, session, traceFailed,
                 alertVars>>

\* The handler of that exception ends the job.
CatchTraceException ==
  /\ tracer = "throwing"
  /\ tracer' = "returned"
  /\ TerminateManagedJob
  /\ UNCHANGED <<todo, exitCode, job, monitor, joinable, session, traceFailed, alertVars>>

Tracer ==
  ~Done /\ (HandleViolation \/ ProcessReturns \/ ProcessThrows \/ CatchTraceException)

------------------------------------------------------------------------------
(* The managed processes, and other programs.                              *)

RootEnds ==
  /\ root = "running"
  /\ Become("ended", kids)
  /\ UNCHANGED <<todo, exitCode, job, threadVars, alertVars>>

KidStarts ==
  /\ root = "running" \/ kids > 0
  /\ kids < MaxKids
  /\ Become(root, kids + 1)
  /\ UNCHANGED <<todo, exitCode, job, threadVars, alertVars>>

KidEnds ==
  /\ kids > 0
  /\ Become(root, kids - 1)
  /\ UNCHANGED <<todo, exitCode, job, threadVars, alertVars>>

\* A managed process accesses protected data; a running session logs it.
Violate ==
  /\ root = "running" \/ kids > 0
  /\ violated' = TRUE
  /\ unhandled' = (unhandled \/ session = "open")
  /\ UNCHANGED <<todo, exitCode, job, processVars, threadVars, requested, fileVars, runnerVars>>

\* A session file is written; the clock need not have ticked since the last one.  What
\* is written after main has chosen its session, or after its end, it never reads.
Write(s, t) ==
  LET now == Max({1} \cup {rollouts[r] : r \in DOMAIN rollouts}) IN
  /\ ~Done /\ resumed = "none"
  /\ t \in now..(now + 1) /\ t <= MaxTime
  /\ rollouts' = [r \in DOMAIN rollouts \cup {s} |-> IF r = s THEN t ELSE rollouts[r]]
  /\ UNCHANGED <<todo, exitCode, job, processVars, threadVars, unhandled, requested, violated,
                 runnerVars>>

\* By an agent in the job.
WriteSession(s) ==
  /\ root = "running" \/ kids > 0
  /\ \E t \in 1..MaxTime : Write(s, t) /\ jobWrote' = [jobWrote EXCEPT ![s] = t]

\* By another agent with the same home directory, in the job of another supervisor, say.
OtherAgentWrites(s) ==
  \E t \in 1..MaxTime : Write(s, t) /\ UNCHANGED jobWrote

RunnerEnds ==
  /\ runner = "running" /\ runner' = "ended"
  /\ UNCHANGED <<todo, exitCode, job, processVars, threadVars, unhandled, requested, violated,
                 fileVars, resumed>>

SessionStopped ==
  /\ session = "open" /\ "stopped" \in Faults
  /\ session' = "taken"
  /\ UNCHANGED <<todo, exitCode, job, processVars, monitor, joinable, tracer, traceFailed,
                 alertVars>>

Processes ==
  \/ RootEnds \/ KidStarts \/ KidEnds \/ Violate \/ RunnerEnds
  \/ \E s \in Sessions : WriteSession(s) \/ OtherAgentWrites(s)
Next == Main \/ MonitorJob \/ MonitorFails \/ Tracer \/ Processes \/ SessionStopped

\* The supervisor's three threads run.  What a managed process does, and when it
\* ends, is up to it; faults need not happen.
ThreadFairness ==
  /\ WF_vars(Main)
  /\ WF_vars(MonitorJob)
  /\ WF_vars(~Done /\ (HandleViolation \/ ProcessReturns \/ CatchTraceException))

Spec == Init /\ [][Next]_vars /\ ThreadFairness
------------------------------------------------------------------------------
(* Properties.                                                             *)

Steps == Range(MainPlan) \cup Range(StartHcsSandboxReexecution)
         \cup {"TerminateRoot", "TerminateJob"}

\* Every variable has its type.
TypeOK ==
  /\ todo \in Seq(Steps) /\ exitCode \in {"none", "0", "1", "runner", "aborted"}
  /\ root \in {"none", "suspended", "running", "ended"}
  /\ assigned \in BOOLEAN /\ kids \in 0..MaxKids /\ zeros \in Nat
  /\ job \in {"none", "open", "closed"}
  /\ monitor \in {"none", "reading", "succeeded", "failed"} /\ joinable \in BOOLEAN
  /\ session \in {"none", "open", "stopped", "taken"}
  /\ tracer \in {"none", "processing", "throwing", "returned", "joined"}
  /\ traceFailed \in BOOLEAN
  /\ unhandled \in BOOLEAN /\ requested \in BOOLEAN
  /\ violated \in BOOLEAN /\ zeroLost \in BOOLEAN
  /\ DOMAIN rollouts \subseteq Sessions /\ Range(rollouts) \subseteq 0..MaxTime
  /\ jobWrote \in [Sessions -> 0..MaxTime]
  /\ resumed \in Sessions \cup {"none"} /\ runner \in {"none", "running", "ended"}

ManagedRun == root = "running" \/ kids > 0

\* While a managed process runs, the session that observes it is open: it is opened
\* before the root is resumed and stopped after the last descendant has ended
\* (main.cpp:71), on every error path too, unless another program stops it.  When the
\* completion port fails nothing is known of the job any longer and main goes on
\* (main.cpp:114 ignores the result); when an exception ends it, nobody observes.
ManagedAreTraced ==
  monitor # "failed" /\ exitCode # "aborted" /\ ManagedRun => session \in {"open", "taken"}

\* When the program ends by itself, no process it started is left, suspended or
\* running, in the job or not yet in it, unless the port failed.
NoOrphans ==
  Done /\ monitor # "failed" /\ exitCode # "aborted" => ~RootAlive /\ kids = 0

\* The job wrote to a session, and no other agent wrote to one as late as that.
JobWroteLast ==
  \E r \in Sessions :
    /\ jobWrote[r] > 0
    /\ \A s \in DOMAIN rollouts : rollouts[s] > jobWrote[s] => rollouts[s] < jobWrote[r]

\* The container is started only when nothing of the job is left and nothing observes
\* it any longer.  The session it continues was written during the run, by whomever,
\* and it is the one the job was the last to write if no other agent wrote as late:
\* HcsSandbox.cpp:230 looks at nothing but the time, so that in the other case the job's
\* own session need not be the one, and the job need not have written any.
HandoverIsClean ==
  runner # "none" =>
    /\ tracer = "joined" /\ ~joinable /\ job = "closed"
    /\ monitor # "failed" => ~RootAlive /\ kids = 0
    /\ rollouts[resumed] > 0
    /\ JobWroteLast => \A s \in Sessions : 0 < jobWrote[resumed] /\ jobWrote[s] <= jobWrote[resumed]

\* The job's handle is closed only when no other thread can still use it: the monitor
\* compares it, and the trace thread asks it about every event.  And when the program
\* ends both threads have been joined, on every path: destroying a joinable
\* std::thread would abort the process.
ThreadsEndBeforeHandles ==
  /\ job = "closed" => monitor # "reading" /\ tracer \notin {"processing", "throwing"}
  /\ Done /\ exitCode # "aborted" => ~joinable /\ tracer \in {"none", "joined"}

\* The program reports success only if it is one: nothing is left running, the trace
\* did not fail, and no alert asked for the container.
SuccessIsClean ==
  exitCode = "0" =>
    /\ ~traceFailed /\ ~requested
    /\ monitor # "failed" => root = "ended" /\ kids = 0

\* However the program ends, in the container or by itself, it ends with the job's
\* work finished.
ExitIsClean == HandoverIsClean /\ SuccessIsClean

Over == Done \/ runner = "running" \/ zeroLost

\* Once the job is empty, the program goes on to its end or to the container, and after
\* a failure, of a call or of the trace, it does so whether or not the managed processes
\* would ever end: they are terminated.  Only the loss of the job's last message can
\* keep it waiting (main.cpp:114).
ProgramEnds == (joinable /\ ~JobActive) \/ exitCode = "1" \/ traceFailed ~> Over
==============================================================================
