----------------------------- MODULE TraceSession -----------------------------
(***************************************************************************)
(* The trace of the supervisor (krabs trace.hpp, etw.hpp, and their use in *)
(* main.cpp): registering the session "MyTrace", enabling the providers,   *)
(* opening and processing it in a thread, stopping and closing it, once by *)
(* main and once more by the destructor of the trace object.               *)
(*                                                                         *)
(* A session belongs to the kernel and outlives its program.  There is one *)
(* of that name at a time, and whoever may stop it does so by that name:   *)
(* supervisors that run one after the other, or at once, share it.  Each   *)
(* starts at most one session, and the session is called after it here.    *)
(***************************************************************************)
EXTENDS Naturals

CONSTANTS
  Supervisors,  \* the programs that use the name
  Stale,        \* the session that a program which crashed earlier left behind
  Nil,          \* no session
  Observed,     \* one of the supervisors: the one the contract is checked for
  Faults,       \* the faults considered, of those listed below
  MaxEvents     \* bound: events logged in one session

AllFaults == {"resources",  \* StartTrace: no session can be created
              "enable",     \* EnableTraceEx2 fails
              "open",       \* OpenTrace fails
              "thread",     \* the trace thread cannot be created
              "resume",     \* the root cannot be resumed
              "process",    \* ProcessTrace fails
              "parameter",  \* ControlTrace finds a parameter invalid
              "stop",       \* ControlTrace fails with another error than "not found"
              "close",      \* CloseTrace fails
              "crash"}      \* the program is killed

ASSUME TraceAssumption ==
  /\ Observed \in Supervisors /\ Faults \subseteq AllFaults /\ MaxEvents \in Nat
  /\ Stale \notin Supervisors /\ Nil \notin Supervisors \cup {Stale}

Sessions == Supervisors \cup {Stale}

VARIABLES
  admins,   \* those that may start, stop and configure a session
  live,     \* the session that bears the name, or Nil
  enabled,  \* the sessions in which the providers of their supervisor are enabled
  logged,   \* events each session has logged
  pc,       \* main of each supervisor: the call it makes next
  reg,      \* registrationHandle_: the session it was given for, or Nil
  sess,     \* sessionHandle_: the session it was opened on, or Nil
  thread,   \* "none", "starting", "checked", "processing", "returned", "failed"
  source,   \* the session that ProcessTrace was called for, or Nil
  handled,  \* eventsHandled_
  taken,    \* history: those whose live session was stopped by another supervisor
  refused   \* history: those that went on beside a session they could not stop

kernelVars == <<admins, live, enabled, logged>>
threadVars == <<thread, source, handled>>
histVars == <<taken, refused>>
vars == <<kernelVars, pc, reg, sess, threadVars, histVars>>

------------------------------------------------------------------------------
(* Helpers.                                                                *)

Go(s, to) == pc' = [pc EXCEPT ![s] = to]
Ended(s) == pc[s] \in {"done", "aborted"}

\* ControlTrace(STOP): whichever session bears the name ends.
Denied(s) == live # Nil /\ s \notin admins
StopByName(s) ==
  /\ ~Denied(s)
  /\ live' = Nil
  /\ taken' = taken \cup (Supervisors \cap ({live} \ {s}))
  /\ UNCHANGED <<admins, enabled, logged>>

\* An error other than "no such session" is thrown; register_trace catches the
\* first two of them (etw.hpp:332-351).
Refuses(s) == (Denied(s) \/ "parameter" \in Faults) /\ UNCHANGED <<kernelVars, taken>>
Breaks == "stop" \in Faults /\ UNCHANGED <<kernelVars, taken>>
StopThrows(s) == Refuses(s) \/ Breaks

OpenTrace(s) == live # Nil /\ sess' = [sess EXCEPT ![s] = live]
OpenThrows == live = Nil \/ "open" \in Faults

CloseTrace(s) == sess' = [sess EXCEPT ![s] = Nil]

\* An exception of trace.open() is caught by main, which ends; the destructor of
\* the trace is still to come.  One of trace.stop() is not caught.
OpenFailed(s) == Go(s, "destroy")
Abort(s) == Go(s, "aborted") /\ UNCHANGED <<reg, sess, threadVars>>

Init ==
  /\ admins \in SUBSET Supervisors
  /\ live \in {Nil, Stale} /\ enabled \in SUBSET ({live} \ {Nil})
  /\ logged = [x \in Sessions |-> 0]
  /\ pc = [s \in Supervisors |-> "stale"]
  /\ reg = [s \in Supervisors |-> Nil] /\ sess = [s \in Supervisors |-> Nil]
  /\ thread = [s \in Supervisors |-> "none"]
  /\ source = [s \in Supervisors |-> Nil]
  /\ handled = [s \in Supervisors |-> 0]
  /\ taken = {} /\ refused = {}

------------------------------------------------------------------------------
(* trace.open()                                                            *)

\* The result of the call is ignored.
StopStaleTraceSession(s) ==
  /\ pc[s] = "stale" /\ Go(s, "register")
  /\ StopByName(s) \/ StopThrows(s)
  /\ UNCHANGED <<reg, sess, threadVars, refused>>

\* register_trace.  Without the privilege, a session of the name may be reported
\* before the missing privilege is.
StartTrace(s) ==
  /\ pc[s] \in {"register", "register again"}
  /\ \/ /\ live = Nil /\ s \in admins
        /\ live' = s /\ reg' = [reg EXCEPT ![s] = s]
        /\ Go(s, "enable")
     \/ /\ live # Nil /\ pc[s] = "register" /\ Go(s, "replace")
        /\ UNCHANGED <<live, reg>>
     \/ /\ \/ live # Nil /\ pc[s] = "register again"
           \/ s \notin admins
           \/ "resources" \in Faults
        /\ OpenFailed(s) /\ UNCHANGED <<live, reg>>
  /\ UNCHANGED <<admins, enabled, logged, sess, threadVars, histVars>>

\* The session in the way is stopped; when the privilege is missing or a parameter
\* is found invalid, it is used as it is.
ReplaceTrace(s) ==
  /\ pc[s] = "replace"
  /\ \/ StopByName(s) /\ Go(s, "register again") /\ UNCHANGED refused
     \/ Refuses(s) /\ Go(s, "try") /\ refused' = refused \cup {s}
     \/ Breaks /\ Go(s, "destroy") /\ UNCHANGED refused
  /\ UNCHANGED <<reg, sess, threadVars>>

TryTrace(s) ==
  /\ pc[s] = "try"
  /\ \/ OpenTrace(s) /\ Go(s, "leave")
     \/ OpenThrows /\ OpenFailed(s) /\ UNCHANGED sess
  /\ UNCHANGED <<kernelVars, reg, threadVars, histVars>>

\* Mutant: the registration handle that the failed call left is kept.
LeaveTraceRegistered(s) ==
  /\ pc[s] = "leave"
  /\ sess' = [sess EXCEPT ![s] = Nil]
  /\ reg' = [reg EXCEPT ![s] = live] /\ Go(s, "enable")
  /\ UNCHANGED <<kernelVars, threadVars, histVars>>

LeaveTrace(s) ==
  /\ pc[s] = "leave"
  /\ sess' = [sess EXCEPT ![s] = Nil]
  /\ Go(s, "enable") \/ ("close" \in Faults /\ OpenFailed(s))
  /\ reg' = [reg EXCEPT ![s] = Nil]
  /\ UNCHANGED <<kernelVars, threadVars, histVars>>

\* Mutant: an error of EnableTraceEx2 is not thrown.
EnableProvidersUnchecked(s) ==
  /\ pc[s] = "enable"
  /\ enabled' = IF reg[s] # Nil /\ live = s /\ "enable" \notin Faults
                THEN enabled \cup {s} ELSE enabled
  /\ Go(s, "open")
  /\ UNCHANGED <<admins, live, logged, reg, sess, threadVars, histVars>>

\* Nothing is enabled without a registration, and nothing in a session that ended.
EnableProviders(s) ==
  /\ pc[s] = "enable"
  /\ \/ reg[s] = Nil /\ Go(s, "open") /\ UNCHANGED enabled
     \/ reg[s] # Nil /\ live = s /\ enabled' = enabled \cup {s} /\ Go(s, "open")
     \/ /\ reg[s] # Nil /\ (live # s \/ "enable" \in Faults)
        /\ OpenFailed(s) /\ UNCHANGED enabled
  /\ UNCHANGED <<admins, live, logged, reg, sess, threadVars, histVars>>

\* The session is opened by its name too.
Open(s) ==
  /\ pc[s] = "open"
  /\ \/ OpenTrace(s) /\ Go(s, "launch")
     \/ OpenThrows /\ OpenFailed(s) /\ UNCHANGED sess
  /\ handled' = [handled EXCEPT ![s] = 0]
  /\ UNCHANGED <<kernelVars, reg, thread, source, histVars>>

------------------------------------------------------------------------------
(* The rest of main, and the destructor of the trace.                      *)

StartThread(s) ==
  /\ pc[s] = "launch"
  /\ \/ Go(s, "resume") /\ thread' = [thread EXCEPT ![s] = "starting"]
     \/ "thread" \in Faults /\ Go(s, "stop") /\ UNCHANGED thread
  /\ UNCHANGED <<kernelVars, reg, sess, source, handled, histVars>>

ResumeRoot(s) ==
  /\ pc[s] = "resume"
  /\ Go(s, "run") \/ ("resume" \in Faults /\ Go(s, "stop"))
  /\ UNCHANGED <<kernelVars, reg, sess, threadVars, histVars>>

\* Mutant: main joins the thread before it stops the trace.
JobEndsJoinFirst(s) ==
  /\ pc[s] = "run" /\ Go(s, "join")
  /\ UNCHANGED <<kernelVars, reg, sess, threadVars, histVars>>

\* The job has become empty.
JobEnds(s) ==
  /\ pc[s] = "run" /\ Go(s, "stop")
  /\ UNCHANGED <<kernelVars, reg, sess, threadVars, histVars>>

Stop(s) ==
  /\ pc[s] = "stop"
  /\ \/ StopByName(s) /\ Go(s, "close") /\ UNCHANGED <<reg, sess, threadVars>>
     \/ StopThrows(s) /\ Abort(s)
  /\ UNCHANGED refused

\* Mutant: the trace is destroyed while its thread may still run.
CloseUnjoined(s) ==
  /\ pc[s] = "close"
  /\ CloseTrace(s) /\ Go(s, "destroy") /\ UNCHANGED <<reg, threadVars>>
  /\ UNCHANGED <<kernelVars, histVars>>

Close(s) ==
  /\ pc[s] = "close"
  /\ \/ /\ CloseTrace(s) /\ Go(s, IF thread[s] = "none" THEN "destroy" ELSE "join")
        /\ UNCHANGED <<reg, threadVars>>
     \/ "close" \in Faults /\ Abort(s)
  /\ UNCHANGED <<kernelVars, histVars>>

JoinThread(s) ==
  /\ pc[s] = "join" /\ thread[s] \in {"returned", "failed"}
  /\ Go(s, "destroy")
  /\ UNCHANGED <<kernelVars, reg, sess, threadVars, histVars>>

\* Mutant: the destructor does not stop the session.
DestroyWithoutStop(s) ==
  /\ pc[s] = "destroy" /\ Go(s, "done")
  /\ UNCHANGED <<kernelVars, reg, sess, threadVars, histVars>>

\* ~trace() stops the session of the name once more; nothing is open any longer.
\* It may not throw.
Destroy(s) ==
  /\ pc[s] = "destroy"
  /\ \/ StopByName(s) /\ Go(s, "done") /\ UNCHANGED <<reg, sess, threadVars>>
     \/ StopThrows(s) /\ Abort(s)
  /\ UNCHANGED refused

Crash(s) ==
  /\ "crash" \in Faults /\ ~Ended(s)
  /\ Abort(s) /\ UNCHANGED <<kernelVars, histVars>>

------------------------------------------------------------------------------
(* The trace thread.                                                       *)

\* process_trace throws if main has closed the handle already.
CheckHandle(s) ==
  /\ thread[s] = "starting"
  /\ thread' = [thread EXCEPT ![s] = IF sess[s] = Nil THEN "failed" ELSE "checked"]
  /\ handled' = [handled EXCEPT ![s] = 0]
  /\ UNCHANGED <<kernelVars, pc, reg, sess, source, histVars>>

\* main may have closed it since; ProcessTrace then fails.
CallProcessTrace(s) ==
  /\ thread[s] = "checked"
  /\ \/ /\ sess[s] # Nil
        /\ thread' = [thread EXCEPT ![s] = "processing"]
        /\ source' = [source EXCEPT ![s] = sess[s]]
     \/ /\ sess[s] = Nil \/ "process" \in Faults
        /\ thread' = [thread EXCEPT ![s] = "failed"]
        /\ UNCHANGED source
  /\ UNCHANGED <<kernelVars, pc, reg, sess, handled, histVars>>

\* A callback; after the handle was closed one may still be pending.
OnEvent(s) ==
  /\ thread[s] = "processing" /\ handled[s] < logged[source[s]]
  /\ handled' = [handled EXCEPT ![s] = @ + 1]
  /\ UNCHANGED <<kernelVars, pc, reg, sess, thread, source, histVars>>

\* Mutant: ProcessTrace returns when there is no event left.
ReturnsWhenIdle(s) ==
  /\ thread[s] = "processing" /\ handled[s] = logged[source[s]]
  /\ thread' = [thread EXCEPT ![s] = "returned"]
  /\ UNCHANGED <<kernelVars, pc, reg, sess, source, handled, histVars>>

\* ProcessTrace returns when the session has ended or the handle was closed, with
\* or without the events that are left.
ProcessReturns(s) ==
  /\ thread[s] = "processing" /\ (live # source[s] \/ sess[s] = Nil)
  /\ thread' = [thread EXCEPT ![s] = "returned"]
  /\ UNCHANGED <<kernelVars, pc, reg, sess, source, handled, histVars>>

ProcessFails(s) ==
  /\ thread[s] = "processing" /\ "process" \in Faults /\ ~Ended(s)
  /\ thread' = [thread EXCEPT ![s] = "failed"]
  /\ UNCHANGED <<kernelVars, pc, reg, sess, source, handled, histVars>>

\* The kernel logs an event of an enabled provider.
LogEvent ==
  /\ live # Nil /\ live \in enabled /\ logged[live] < MaxEvents
  /\ logged' = [logged EXCEPT ![live] = @ + 1]
  /\ UNCHANGED <<admins, live, enabled, pc, reg, sess, threadVars, histVars>>

Main(s) ==
  \/ StopStaleTraceSession(s) \/ StartTrace(s) \/ ReplaceTrace(s) \/ TryTrace(s)
  \/ LeaveTrace(s) \/ EnableProviders(s) \/ Open(s) \/ StartThread(s) \/ ResumeRoot(s)
  \/ Stop(s) \/ Close(s) \/ JoinThread(s) \/ Destroy(s)

Tracer(s) ==
  ~Ended(s) /\ (CheckHandle(s) \/ CallProcessTrace(s) \/ OnEvent(s) \/ ProcessReturns(s))

Next ==
  \/ LogEvent
  \/ \E s \in Supervisors : Main(s) \/ JobEnds(s) \/ Tracer(s) \/ ProcessFails(s) \/ Crash(s)

\* Both threads run, and a failed trace ends the job.
ThreadFairness ==
  \A s \in Supervisors :
    /\ WF_vars(Main(s))
    /\ WF_vars(Tracer(s))
    /\ WF_vars(thread[s] = "failed" /\ JobEnds(s))

Spec == Init /\ [][Next]_vars /\ ThreadFairness
------------------------------------------------------------------------------
(* Properties.                                                             *)

Calls == {"stale", "register", "replace", "register again", "try", "leave", "enable",
          "open", "launch", "resume", "run", "stop", "close", "join", "destroy", "done",
          "aborted"}

ThreadStates == {"none", "starting", "checked", "processing", "returned", "failed"}

\* Every variable has its type.
TypeOK ==
  /\ admins \subseteq Supervisors
  /\ live \in Sessions \cup {Nil} /\ enabled \subseteq Sessions
  /\ logged \in [Sessions -> 0..MaxEvents]
  /\ pc \in [Supervisors -> Calls]
  /\ reg \in [Supervisors -> Supervisors \cup {Nil}]
  /\ sess \in [Supervisors -> Sessions \cup {Nil}]
  /\ thread \in [Supervisors -> ThreadStates]
  /\ source \in [Supervisors -> Sessions \cup {Nil}]
  /\ handled \in [Supervisors -> Nat] /\ taken \subseteq Supervisors
  /\ refused \subseteq Supervisors

Observes(s) == sess[s] = s /\ s \in enabled

\* Which supervisors see their job.  One whose stop of the session in the way was
\* refused, for the privilege or as an invalid parameter (etw.hpp:332-351), resumes
\* its root with its providers enabled nowhere, whatever the others then do to the
\* session it listens to.  Every other one resumes it with its providers enabled in
\* the session it has opened, and that session goes on while the root runs, unless
\* another supervisor stopped it: opening by name (etw.hpp:357) then finds the
\* session of somebody else.
ObservesUnlessRefused ==
  \A s \in Supervisors \ taken : pc[s] \in {"resume", "run"} =>
    IF s \in refused THEN s \notin enabled ELSE Observes(s) /\ live = s

\* When the root runs, trace.open() has enabled the providers: "Register both
\* providers before the suspended root can spawn any children." (main.cpp:71)
ProvidersBeforeRoot == \A s \in Supervisors : pc[s] = "run" => s \in enabled

\* A program that ends by itself leaves no session of its own behind, on whichever
\* of the paths through a failed open() it ends (trace.hpp:412).
FinishedLeavesNoSession == \A s \in Supervisors : pc[s] = "done" => live # s

\* No callback runs on a destroyed trace: ETW calls it through a bare pointer
\* (etw.hpp:137).
NoCallbackAfterDestruction ==
  \A s \in Supervisors :
    pc[s] \in {"destroy", "done"} => thread[s] \in {"none", "returned", "failed"}

\* A program that has ended its trace has left nothing of it behind, neither a
\* session in the kernel nor a thread that still calls its trace.
FinishedLeavesNothing == FinishedLeavesNoSession /\ NoCallbackAfterDestruction

\* The session, and the thread, as main knows them.
SessionSeen ==
  IF sess[Observed] # Nil /\ pc[Observed] # "leave"
  THEN IF live = sess[Observed] THEN "open" ELSE "over"
  ELSE IF pc[Observed] \in {"join", "destroy", "done", "aborted"} THEN "over" ELSE "none"

ThreadSeen == IF thread[Observed] = "checked" THEN "starting" ELSE thread[Observed]

Contract ==
  INSTANCE TraceContract WITH
    session <- SessionSeen, tracer <- ThreadSeen, handled <- handled[Observed]

\* The trace is what module Supervisor takes it for, whatever the others do to it.
ImplementsContract == Contract!Spec

\* stop() releases the thread that is in process(): main's join returns, also when
\* the thread has only just come to process_trace.
StopReleasesThread == \A s \in Supervisors : pc[s] = "join" ~> pc[s] # "join"
==============================================================================
