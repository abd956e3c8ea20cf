--------------------------- MODULE TraceSessionProofs ---------------------------
(***************************************************************************)
(* Theorems about the trace and the session it shares, for every set of    *)
(* supervisors, every choice of faults and every number of events.         *)
(*                                                                         *)
(* The inductive invariant has one part for each thing that main's place   *)
(* in trace.hpp says: which handles are there, whose session they are, and *)
(* what the thread may be doing.                                           *)
(***************************************************************************)
EXTENDS TraceSession, TLAPS

USE TraceAssumption

------------------------------------------------------------------------------
(* The inductive invariant.                                                *)

\* The calls main makes before its session can have been started, before its
\* session has been opened, and before its thread has been created.
Unregistered == {"stale", "register", "replace", "register again"}
Unopened == Unregistered \cup {"try", "enable", "open"}
Unthreaded == Unopened \cup {"leave", "launch"}
Closed == {"join", "destroy", "done"}

\* The handle of the session is there between opening and closing, and in the
\* attempt to open a session that may not be replaced.
HandleMatchesCall(s) ==
  /\ pc[s] \in Unopened \cup Closed => sess[s] = Nil
  /\ pc[s] \in {"leave", "launch", "resume", "run", "stop", "close"} => sess[s] # Nil

\* No thread before it is created, none that runs once it was joined, and the
\* session it processes is the one that is open.
ThreadMatchesCall(s) ==
  /\ pc[s] \in Unthreaded => thread[s] = "none"
  /\ pc[s] \in {"resume", "run", "join"} => thread[s] # "none"
  /\ pc[s] \in {"destroy", "done"} => thread[s] \in {"none", "returned", "failed"}
  /\ thread[s] \in {"none", "starting"} => handled[s] = 0
  /\ thread[s] # "none" /\ sess[s] = Nil => pc[s] \in Closed \cup {"aborted"}
  /\ thread[s] = "processing" => source[s] # Nil
  /\ thread[s] = "processing" /\ sess[s] # Nil => source[s] = sess[s]

\* A session that its supervisor has yet to start, or will never start because its
\* stop was refused, is nobody's: a session that has ended never comes back.
NotYetStarted(s) ==
  /\ s \in refused => pc[s] \notin Unregistered
  /\ pc[s] \in Unregistered \/ s \in refused =>
       live # s /\ s \notin enabled /\ \A t \in Supervisors : sess[t] # s

\* A supervisor that was not refused, and that nobody took the session from, has it
\* from its registration to the end of its job.
HoldsItsSession(s) ==
  /\ pc[s] \notin {"try", "leave"}
  /\ pc[s] = "enable" => reg[s] = s
  /\ pc[s] \in {"enable", "open", "launch", "resume", "run"} => live = s
  /\ pc[s] \in {"open", "launch", "resume", "run"} => s \in enabled
  /\ pc[s] \in {"launch", "resume", "run"} => sess[s] = s

TraceInv ==
  /\ TypeOK
  /\ \A s \in Supervisors : HandleMatchesCall(s)
  /\ \A s \in Supervisors : ThreadMatchesCall(s)
  /\ \A s \in Supervisors : NotYetStarted(s)
  /\ \A s \in Supervisors \ (taken \cup refused) : HoldsItsSession(s)
  /\ \A s \in Supervisors : pc[s] = "done" => live # s

------------------------------------------------------------------------------
(* What one step does, to its supervisor and to the others.                *)

Step(t) == Main(t) \/ JobEnds(t) \/ Tracer(t) \/ ProcessFails(t) \/ Crash(t)

\* Every variable that has one value per supervisor has one for each.
Arrays ==
  /\ DOMAIN pc = Supervisors /\ DOMAIN reg = Supervisors /\ DOMAIN sess = Supervisors
  /\ DOMAIN thread = Supervisors /\ DOMAIN source = Supervisors
  /\ DOMAIN handled = Supervisors

LEMMA TypedArrays == TypeOK => Arrays
BY DEF TypeOK, Arrays

\* A step changes nothing of another supervisor.
LEMMA OthersStay ==
  ASSUME NEW t \in Supervisors, Arrays, Step(t)
  PROVE  \A s \in Supervisors \ {t} :
           /\ pc'[s] = pc[s] /\ reg'[s] = reg[s] /\ sess'[s] = sess[s]
           /\ thread'[s] = thread[s] /\ source'[s] = source[s] /\ handled'[s] = handled[s]
<1> USE DEF Go, kernelVars, threadVars, histVars, Arrays
<1>1. CASE StopStaleTraceSession(t)
  BY <1>1 DEF StopStaleTraceSession, StopByName, StopThrows, Refuses, Breaks, Denied
<1>2. CASE StartTrace(t)
  BY <1>2 DEF StartTrace, OpenFailed
<1>3. CASE ReplaceTrace(t)
  BY <1>3 DEF ReplaceTrace, StopByName, StopThrows, Refuses, Breaks, Denied
<1>4. CASE TryTrace(t)
  BY <1>4 DEF TryTrace, OpenTrace, OpenThrows, OpenFailed
<1>5. CASE LeaveTrace(t)
  BY <1>5 DEF LeaveTrace, OpenFailed
<1>6. CASE EnableProviders(t)
  BY <1>6 DEF EnableProviders, OpenFailed
<1>7. CASE Open(t)
  BY <1>7 DEF Open, OpenTrace, OpenThrows, OpenFailed
<1>8. CASE StartThread(t)
  BY <1>8 DEF StartThread
<1>9. CASE ResumeRoot(t)
  BY <1>9 DEF ResumeRoot
<1>10. CASE JobEnds(t)
  BY <1>10 DEF JobEnds
<1>11. CASE Stop(t)
  BY <1>11 DEF Stop, StopByName, StopThrows, Refuses, Breaks, Denied, Abort
<1>12. CASE Close(t)
  BY <1>12 DEF Close, CloseTrace, Abort
<1>13. CASE JoinThread(t)
  BY <1>13 DEF JoinThread
<1>14. CASE Destroy(t)
  BY <1>14 DEF Destroy, StopByName, StopThrows, Refuses, Breaks, Denied, Abort
<1>15. CASE Crash(t)
  BY <1>15 DEF Crash, Abort, Ended
<1>16. CASE CheckHandle(t)
  BY <1>16 DEF CheckHandle
<1>17. CASE CallProcessTrace(t)
  BY <1>17 DEF CallProcessTrace
<1>18. CASE OnEvent(t)
  BY <1>18 DEF OnEvent
<1>19. CASE ProcessReturns(t)
  BY <1>19 DEF ProcessReturns
<1>20. CASE ProcessFails(t)
  BY <1>20 DEF ProcessFails, Ended
<1> QED
  BY <1>1, <1>2, <1>3, <1>4, <1>5, <1>6, <1>7, <1>8, <1>9, <1>10, <1>11, <1>12, <1>13, <1>14,
     <1>15, <1>16, <1>17, <1>18, <1>19, <1>20
     DEF Step, Main, Tracer

\* What it can do to the session they share.
LEMMA SharedSteps ==
  ASSUME NEW t \in Supervisors, Arrays, Step(t)
  PROVE  /\ admins' = admins /\ enabled \subseteq enabled' /\ taken \subseteq taken'
         /\ enabled' \subseteq enabled \cup {t}
         /\ refused \subseteq refused' /\ refused' \subseteq refused \cup {t}
         /\ \/ live' = live \/ live' = Nil
            \/ live' = t /\ pc[t] \in Unregistered /\ pc'[t] = "enable"
         /\ live' # live /\ live # Nil => live' = Nil
         /\ live' # live /\ live \in Supervisors => live \in taken' \cup {t}
         /\ sess'[t] \in {sess[t], Nil, live}
<1> USE DEF Go, kernelVars, threadVars, histVars, Arrays, Unregistered
<1>1. CASE StopStaleTraceSession(t)
  BY <1>1 DEF StopStaleTraceSession, StopByName, StopThrows, Refuses, Breaks, Denied
<1>2. CASE StartTrace(t)
  BY <1>2 DEF StartTrace, OpenFailed
<1>3. CASE ReplaceTrace(t)
  BY <1>3 DEF ReplaceTrace, StopByName, StopThrows, Refuses, Breaks, Denied
<1>4. CASE TryTrace(t)
  BY <1>4 DEF TryTrace, OpenTrace, OpenThrows, OpenFailed
<1>5. CASE LeaveTrace(t)
  BY <1>5 DEF LeaveTrace, OpenFailed
<1>6. CASE EnableProviders(t)
  BY <1>6 DEF EnableProviders, OpenFailed
<1>7. CASE Open(t)
  BY <1>7 DEF Open, OpenTrace, OpenThrows, OpenFailed
<1>8. CASE StartThread(t)
  BY <1>8 DEF StartThread
<1>9. CASE ResumeRoot(t)
  BY <1>9 DEF ResumeRoot
<1>10. CASE JobEnds(t)
  BY <1>10 DEF JobEnds
<1>11. CASE Stop(t)
  BY <1>11 DEF Stop, StopByName, StopThrows, Refuses, Breaks, Denied, Abort
<1>12. CASE Close(t)
  BY <1>12 DEF Close, CloseTrace, Abort
<1>13. CASE JoinThread(t)
  BY <1>13 DEF JoinThread
<1>14. CASE Destroy(t)
  BY <1>14 DEF Destroy, StopByName, StopThrows, Refuses, Breaks, Denied, Abort
<1>15. CASE Crash(t)
  BY <1>15 DEF Crash, Abort, Ended
<1>16. CASE CheckHandle(t)
  BY <1>16 DEF CheckHandle
<1>17. CASE CallProcessTrace(t)
  BY <1>17 DEF CallProcessTrace
<1>18. CASE OnEvent(t)
  BY <1>18 DEF OnEvent
<1>19. CASE ProcessReturns(t)
  BY <1>19 DEF ProcessReturns
<1>20. CASE ProcessFails(t)
  BY <1>20 DEF ProcessFails, Ended
<1> QED
  BY <1>1, <1>2, <1>3, <1>4, <1>5, <1>6, <1>7, <1>8, <1>9, <1>10, <1>11, <1>12, <1>13, <1>14,
     <1>15, <1>16, <1>17, <1>18, <1>19, <1>20
     DEF Step, Main, Tracer

\* Type correctness is kept.
LEMMA StepTyped ==
  ASSUME NEW t \in Supervisors, TypeOK, Step(t)
  PROVE  TypeOK'
<1>1. CASE StopStaleTraceSession(t)
  BY <1>1 DEF StopStaleTraceSession, StopByName, StopThrows, Refuses, Breaks, Denied, Go, kernelVars,
         threadVars, TypeOK, Calls, ThreadStates, Sessions
<1>2. CASE StartTrace(t)
  <2>1. pc' \in [Supervisors -> Calls]
    BY <1>2 DEF StartTrace, OpenFailed, Go, TypeOK, Calls
  <2>2. live' \in Sessions \cup {Nil} /\ reg' \in [Supervisors -> Supervisors \cup {Nil}]
    BY <1>2 DEF StartTrace, TypeOK, Sessions
  <2> QED  BY <1>2, <2>1, <2>2 DEF StartTrace, threadVars, histVars, TypeOK
<1>3. CASE ReplaceTrace(t)
  BY <1>3 DEF ReplaceTrace, StopByName, StopThrows, Refuses, Breaks, Denied, Go, kernelVars, threadVars, histVars,
         TypeOK, Calls, ThreadStates, Sessions
<1>4. CASE TryTrace(t)
  <2>1. pc' \in [Supervisors -> Calls]
    BY <1>4 DEF TryTrace, OpenFailed, Go, TypeOK, Calls
  <2>2. sess' \in [Supervisors -> Sessions \cup {Nil}]
    BY <1>4 DEF TryTrace, OpenTrace, TypeOK
  <2> QED  BY <1>4, <2>1, <2>2 DEF TryTrace, kernelVars, threadVars, histVars, TypeOK
<1>5. CASE LeaveTrace(t)
  BY <1>5 DEF LeaveTrace, OpenFailed, Go, kernelVars, threadVars, histVars, TypeOK, Calls, ThreadStates,
         Sessions
<1>6. CASE EnableProviders(t)
  BY <1>6 DEF EnableProviders, OpenFailed, Go, threadVars, histVars, TypeOK, Calls, ThreadStates,
         Sessions
<1>7. CASE Open(t)
  <2>1. pc' \in [Supervisors -> Calls]
    BY <1>7 DEF Open, OpenFailed, Go, TypeOK, Calls
  <2>2. sess' \in [Supervisors -> Sessions \cup {Nil}]
    BY <1>7 DEF Open, OpenTrace, TypeOK
  <2>3. handled' \in [Supervisors -> Nat]
    BY <1>7 DEF Open, TypeOK
  <2> QED  BY <1>7, <2>1, <2>2, <2>3 DEF Open, kernelVars, histVars, TypeOK
<1>8. CASE StartThread(t)
  BY <1>8 DEF StartThread, Go, kernelVars, histVars, TypeOK, Calls, ThreadStates, Sessions
<1>9. CASE ResumeRoot(t)
  BY <1>9 DEF ResumeRoot, Go, kernelVars, threadVars, histVars, TypeOK, Calls, ThreadStates, Sessions
<1>10. CASE JobEnds(t)
  BY <1>10 DEF JobEnds, Go, kernelVars, threadVars, histVars, TypeOK, Calls, ThreadStates, Sessions
<1>11. CASE Stop(t)
  BY <1>11 DEF Stop, StopByName, StopThrows, Refuses, Breaks, Denied, Abort, Go, kernelVars, threadVars, histVars,
         TypeOK, Calls, ThreadStates, Sessions
<1>12. CASE Close(t)
  BY <1>12 DEF Close, CloseTrace, Abort, Go, kernelVars, threadVars, histVars, TypeOK, Calls,
         ThreadStates, Sessions
<1>13. CASE JoinThread(t)
  BY <1>13 DEF JoinThread, Go, kernelVars, threadVars, histVars, TypeOK, Calls, ThreadStates, Sessions
<1>14. CASE Destroy(t)
  BY <1>14 DEF Destroy, StopByName, StopThrows, Refuses, Breaks, Denied, Abort, Go, kernelVars, threadVars, histVars,
         TypeOK, Calls, ThreadStates, Sessions
<1>15. CASE Crash(t)
  BY <1>15 DEF Crash, Abort, Ended, Go, kernelVars, threadVars, histVars, TypeOK, Calls, ThreadStates,
         Sessions
<1>16. CASE CheckHandle(t)
  BY <1>16 DEF CheckHandle, kernelVars, histVars, TypeOK, Calls, ThreadStates, Sessions
<1>17. CASE CallProcessTrace(t)
  BY <1>17 DEF CallProcessTrace, kernelVars, histVars, TypeOK, Calls, ThreadStates, Sessions
<1>18. CASE OnEvent(t)
  <2>1. handled' \in [Supervisors -> Nat]
    BY <1>18 DEF OnEvent, TypeOK
  <2> QED  BY <1>18, <2>1 DEF OnEvent, kernelVars, histVars, TypeOK
<1>19. CASE ProcessReturns(t)
  BY <1>19 DEF ProcessReturns, kernelVars, histVars, TypeOK, Calls, ThreadStates, Sessions
<1>20. CASE ProcessFails(t)
  BY <1>20 DEF ProcessFails, Ended, kernelVars, histVars, TypeOK, Calls, ThreadStates, Sessions
<1> QED
  BY <1>1, <1>2, <1>3, <1>4, <1>5, <1>6, <1>7, <1>8, <1>9, <1>10, <1>11, <1>12, <1>13, <1>14,
     <1>15, <1>16, <1>17, <1>18, <1>19, <1>20
     DEF Step, Main, Tracer

\* Main has a handle where it should have one.
LEMMA HandleStays ==
  ASSUME NEW t \in Supervisors, Arrays, HandleMatchesCall(t), Step(t)
  PROVE  HandleMatchesCall(t)'
<1> USE DEF Go, kernelVars, threadVars, histVars, Arrays, Unregistered, Unopened, Closed,
            HandleMatchesCall
<1>1. CASE StopStaleTraceSession(t)
  BY <1>1 DEF StopStaleTraceSession, StopByName, StopThrows, Refuses, Breaks, Denied
<1>2. CASE StartTrace(t)
  BY <1>2 DEF StartTrace, OpenFailed
<1>3. CASE ReplaceTrace(t)
  BY <1>3 DEF ReplaceTrace, StopByName, StopThrows, Refuses, Breaks, Denied
<1>4. CASE TryTrace(t)
  BY <1>4 DEF TryTrace, OpenTrace, OpenThrows, OpenFailed
<1>5. CASE LeaveTrace(t)
  BY <1>5 DEF LeaveTrace, OpenFailed
<1>6. CASE EnableProviders(t)
  BY <1>6 DEF EnableProviders, OpenFailed
<1>7. CASE Open(t)
  BY <1>7 DEF Open, OpenTrace, OpenThrows, OpenFailed
<1>8. CASE StartThread(t)
  BY <1>8 DEF StartThread
<1>9. CASE ResumeRoot(t)
  BY <1>9 DEF ResumeRoot
<1>10. CASE JobEnds(t)
  BY <1>10 DEF JobEnds
<1>11. CASE Stop(t)
  BY <1>11 DEF Stop, StopByName, StopThrows, Refuses, Breaks, Denied, Abort
<1>12. CASE Close(t)
  BY <1>12 DEF Close, CloseTrace, Abort
<1>13. CASE JoinThread(t)
  BY <1>13 DEF JoinThread
<1>14. CASE Destroy(t)
  BY <1>14 DEF Destroy, StopByName, StopThrows, Refuses, Breaks, Denied, Abort
<1>15. CASE Crash(t)
  BY <1>15 DEF Crash, Abort, Ended
<1>16. CASE CheckHandle(t)
  BY <1>16 DEF CheckHandle
<1>17. CASE CallProcessTrace(t)
  BY <1>17 DEF CallProcessTrace
<1>18. CASE OnEvent(t)
  BY <1>18 DEF OnEvent
<1>19. CASE ProcessReturns(t)
  BY <1>19 DEF ProcessReturns
<1>20. CASE ProcessFails(t)
  BY <1>20 DEF ProcessFails, Ended
<1> QED
  BY <1>1, <1>2, <1>3, <1>4, <1>5, <1>6, <1>7, <1>8, <1>9, <1>10, <1>11, <1>12, <1>13, <1>14,
     <1>15, <1>16, <1>17, <1>18, <1>19, <1>20
     DEF Step, Main, Tracer

\* The thread is where main takes it to be.
LEMMA ThreadStays ==
  ASSUME NEW t \in Supervisors, Arrays, HandleMatchesCall(t), ThreadMatchesCall(t), Step(t)
  PROVE  ThreadMatchesCall(t)'
<1> USE DEF Go, kernelVars, threadVars, histVars, Arrays, Unregistered, Unopened, Unthreaded, Closed,
            HandleMatchesCall, ThreadMatchesCall
<1>1. CASE StopStaleTraceSession(t)
  BY <1>1 DEF StopStaleTraceSession, StopByName, StopThrows, Refuses, Breaks, Denied
<1>2. CASE StartTrace(t)
  BY <1>2 DEF StartTrace, OpenFailed
<1>3. CASE ReplaceTrace(t)
  BY <1>3 DEF ReplaceTrace, StopByName, StopThrows, Refuses, Breaks, Denied
<1>4. CASE TryTrace(t)
  BY <1>4 DEF TryTrace, OpenTrace, OpenThrows, OpenFailed
<1>5. CASE LeaveTrace(t)
  BY <1>5 DEF LeaveTrace, OpenFailed
<1>6. CASE EnableProviders(t)
  BY <1>6 DEF EnableProviders, OpenFailed
<1>7. CASE Open(t)
  BY <1>7 DEF Open, OpenTrace, OpenThrows, OpenFailed
<1>8. CASE StartThread(t)
  BY <1>8 DEF StartThread
<1>9. CASE ResumeRoot(t)
  BY <1>9 DEF ResumeRoot
<1>10. CASE JobEnds(t)
  BY <1>10 DEF JobEnds
<1>11. CASE Stop(t)
  BY <1>11 DEF Stop, StopByName, StopThrows, Refuses, Breaks, Denied, Abort
<1>12. CASE Close(t)
  BY <1>12 DEF Close, CloseTrace, Abort
<1>13. CASE JoinThread(t)
  BY <1>13 DEF JoinThread
<1>14. CASE Destroy(t)
  BY <1>14 DEF Destroy, StopByName, StopThrows, Refuses, Breaks, Denied, Abort
<1>15. CASE Crash(t)
  BY <1>15 DEF Crash, Abort, Ended
<1>16. CASE CheckHandle(t)
  BY <1>16 DEF CheckHandle
<1>17. CASE CallProcessTrace(t)
  BY <1>17 DEF CallProcessTrace
<1>18. CASE OnEvent(t)
  BY <1>18 DEF OnEvent
<1>19. CASE ProcessReturns(t)
  BY <1>19 DEF ProcessReturns
<1>20. CASE ProcessFails(t)
  BY <1>20 DEF ProcessFails, Ended
<1> QED
  BY <1>1, <1>2, <1>3, <1>4, <1>5, <1>6, <1>7, <1>8, <1>9, <1>10, <1>11, <1>12, <1>13, <1>14,
     <1>15, <1>16, <1>17, <1>18, <1>19, <1>20
     DEF Step, Main, Tracer

\* A session that its supervisor has not started is still nobody's.
LEMMA NotYetStays ==
  ASSUME NEW t \in Supervisors, Arrays, TypeOK,
          \A s \in Supervisors : NotYetStarted(s), Step(t)
  PROVE  NotYetStarted(t)'
<1> USE DEF Go, kernelVars, threadVars, histVars, Arrays, Unregistered, TypeOK, NotYetStarted
<1>1. CASE StopStaleTraceSession(t)
  BY <1>1 DEF StopStaleTraceSession, StopByName, StopThrows, Refuses, Breaks, Denied
<1>2. CASE StartTrace(t)
  BY <1>2 DEF StartTrace, OpenFailed
<1>3. CASE ReplaceTrace(t)
  BY <1>3 DEF ReplaceTrace, StopByName, StopThrows, Refuses, Breaks, Denied
<1>4. CASE TryTrace(t)
  BY <1>4 DEF TryTrace, OpenTrace, OpenThrows, OpenFailed
<1>5. CASE LeaveTrace(t)
  BY <1>5 DEF LeaveTrace, OpenFailed
<1>6. CASE EnableProviders(t)
  BY <1>6 DEF EnableProviders, OpenFailed
<1>7. CASE Open(t)
  BY <1>7 DEF Open, OpenTrace, OpenThrows, OpenFailed
<1>8. CASE StartThread(t)
  BY <1>8 DEF StartThread
<1>9. CASE ResumeRoot(t)
  BY <1>9 DEF ResumeRoot
<1>10. CASE JobEnds(t)
  BY <1>10 DEF JobEnds
<1>11. CASE Stop(t)
  BY <1>11 DEF Stop, StopByName, StopThrows, Refuses, Breaks, Denied, Abort
<1>12. CASE Close(t)
  BY <1>12 DEF Close, CloseTrace, Abort
<1>13. CASE JoinThread(t)
  BY <1>13 DEF JoinThread
<1>14. CASE Destroy(t)
  BY <1>14 DEF Destroy, StopByName, StopThrows, Refuses, Breaks, Denied, Abort
<1>15. CASE Crash(t)
  BY <1>15 DEF Crash, Abort, Ended
<1>16. CASE CheckHandle(t)
  BY <1>16 DEF CheckHandle
<1>17. CASE CallProcessTrace(t)
  BY <1>17 DEF CallProcessTrace
<1>18. CASE OnEvent(t)
  BY <1>18 DEF OnEvent
<1>19. CASE ProcessReturns(t)
  BY <1>19 DEF ProcessReturns
<1>20. CASE ProcessFails(t)
  BY <1>20 DEF ProcessFails, Ended
<1> QED
  BY <1>1, <1>2, <1>3, <1>4, <1>5, <1>6, <1>7, <1>8, <1>9, <1>10, <1>11, <1>12, <1>13, <1>14,
     <1>15, <1>16, <1>17, <1>18, <1>19, <1>20
     DEF Step, Main, Tracer

\* A supervisor keeps its session.
LEMMA HoldingStays ==
  ASSUME NEW t \in Supervisors, Arrays, TypeOK, t \notin taken \cup refused,
          t \notin taken' \cup refused',
          HandleMatchesCall(t), HoldsItsSession(t), Step(t)
  PROVE  HoldsItsSession(t)'
<1> USE DEF Go, kernelVars, threadVars, histVars, Arrays, Unregistered, Unopened, Closed,
            HandleMatchesCall, HoldsItsSession
<1>1. CASE StopStaleTraceSession(t)
  BY <1>1 DEF StopStaleTraceSession, StopByName, StopThrows, Refuses, Breaks, Denied
<1>2. CASE StartTrace(t)
  BY <1>2 DEF StartTrace, OpenFailed
<1>3. CASE ReplaceTrace(t)
  BY <1>3 DEF ReplaceTrace, StopByName, StopThrows, Refuses, Breaks, Denied
<1>4. CASE TryTrace(t)
  BY <1>4 DEF TryTrace, OpenTrace, OpenThrows, OpenFailed
<1>5. CASE LeaveTrace(t)
  BY <1>5 DEF LeaveTrace, OpenFailed
<1>6. CASE EnableProviders(t)
  BY <1>6 DEF EnableProviders, OpenFailed
<1>7. CASE Open(t)
  BY <1>7 DEF Open, OpenTrace, OpenThrows, OpenFailed
<1>8. CASE StartThread(t)
  BY <1>8 DEF StartThread
<1>9. CASE ResumeRoot(t)
  BY <1>9 DEF ResumeRoot
<1>10. CASE JobEnds(t)
  BY <1>10 DEF JobEnds
<1>11. CASE Stop(t)
  BY <1>11 DEF Stop, StopByName, StopThrows, Refuses, Breaks, Denied, Abort
<1>12. CASE Close(t)
  BY <1>12 DEF Close, CloseTrace, Abort
<1>13. CASE JoinThread(t)
  BY <1>13 DEF JoinThread
<1>14. CASE Destroy(t)
  BY <1>14 DEF Destroy, StopByName, StopThrows, Refuses, Breaks, Denied, Abort
<1>15. CASE Crash(t)
  BY <1>15 DEF Crash, Abort, Ended
<1>16. CASE CheckHandle(t)
  BY <1>16 DEF CheckHandle
<1>17. CASE CallProcessTrace(t)
  BY <1>17 DEF CallProcessTrace
<1>18. CASE OnEvent(t)
  BY <1>18 DEF OnEvent
<1>19. CASE ProcessReturns(t)
  BY <1>19 DEF ProcessReturns
<1>20. CASE ProcessFails(t)
  BY <1>20 DEF ProcessFails, Ended
<1> QED
  BY <1>1, <1>2, <1>3, <1>4, <1>5, <1>6, <1>7, <1>8, <1>9, <1>10, <1>11, <1>12, <1>13, <1>14,
     <1>15, <1>16, <1>17, <1>18, <1>19, <1>20
     DEF Step, Main, Tracer

\* main ends only when the name is free.
LEMMA FinishedStays ==
  ASSUME NEW t \in Supervisors, Arrays, pc[t] = "done" => live # t, Step(t)
  PROVE  pc'[t] = "done" => live' # t
<1> USE DEF Go, kernelVars, threadVars, histVars, Arrays
<1>1. CASE StopStaleTraceSession(t)
  BY <1>1 DEF StopStaleTraceSession, StopByName, StopThrows, Refuses, Breaks, Denied
<1>2. CASE StartTrace(t)
  BY <1>2 DEF StartTrace, OpenFailed
<1>3. CASE ReplaceTrace(t)
  BY <1>3 DEF ReplaceTrace, StopByName, StopThrows, Refuses, Breaks, Denied
<1>4. CASE TryTrace(t)
  BY <1>4 DEF TryTrace, OpenTrace, OpenThrows, OpenFailed
<1>5. CASE LeaveTrace(t)
  BY <1>5 DEF LeaveTrace, OpenFailed
<1>6. CASE EnableProviders(t)
  BY <1>6 DEF EnableProviders, OpenFailed
<1>7. CASE Open(t)
  BY <1>7 DEF Open, OpenTrace, OpenThrows, OpenFailed
<1>8. CASE StartThread(t)
  BY <1>8 DEF StartThread
<1>9. CASE ResumeRoot(t)
  BY <1>9 DEF ResumeRoot
<1>10. CASE JobEnds(t)
  BY <1>10 DEF JobEnds
<1>11. CASE Stop(t)
  BY <1>11 DEF Stop, StopByName, StopThrows, Refuses, Breaks, Denied, Abort
<1>12. CASE Close(t)
  BY <1>12 DEF Close, CloseTrace, Abort
<1>13. CASE JoinThread(t)
  BY <1>13 DEF JoinThread
<1>14. CASE Destroy(t)
  BY <1>14 DEF Destroy, StopByName, StopThrows, Refuses, Breaks, Denied, Abort
<1>15. CASE Crash(t)
  BY <1>15 DEF Crash, Abort, Ended
<1>16. CASE CheckHandle(t)
  BY <1>16 DEF CheckHandle
<1>17. CASE CallProcessTrace(t)
  BY <1>17 DEF CallProcessTrace
<1>18. CASE OnEvent(t)
  BY <1>18 DEF OnEvent
<1>19. CASE ProcessReturns(t)
  BY <1>19 DEF ProcessReturns
<1>20. CASE ProcessFails(t)
  BY <1>20 DEF ProcessFails, Ended
<1> QED
  BY <1>1, <1>2, <1>3, <1>4, <1>5, <1>6, <1>7, <1>8, <1>9, <1>10, <1>11, <1>12, <1>13, <1>14,
     <1>15, <1>16, <1>17, <1>18, <1>19, <1>20
     DEF Step, Main, Tracer
------------------------------------------------------------------------------
(* The invariant is inductive.                                             *)

LEMMA InitHolds == Init => TraceInv
BY DEF Init, TraceInv, TypeOK, Calls, ThreadStates, Sessions, HandleMatchesCall,
       ThreadMatchesCall, NotYetStarted, HoldsItsSession, Unregistered, Unopened, Unthreaded,
       Closed

LEMMA StepHolds ==
  ASSUME TraceInv, NEW t \in Supervisors, Step(t)
  PROVE  TraceInv'
<1>1. TypeOK /\ Arrays /\ TypeOK'
  BY TypedArrays, StepTyped DEF TraceInv
<1>2. \A s \in Supervisors \ {t} :
        /\ pc'[s] = pc[s] /\ reg'[s] = reg[s] /\ sess'[s] = sess[s]
        /\ thread'[s] = thread[s] /\ source'[s] = source[s] /\ handled'[s] = handled[s]
  BY <1>1, OthersStay
<1>3. /\ admins' = admins /\ enabled \subseteq enabled' /\ taken \subseteq taken'
      /\ enabled' \subseteq enabled \cup {t}
      /\ refused \subseteq refused' /\ refused' \subseteq refused \cup {t}
      /\ \/ live' = live \/ live' = Nil
         \/ live' = t /\ pc[t] \in Unregistered /\ pc'[t] = "enable"
      /\ live' # live /\ live # Nil => live' = Nil
      /\ live' # live /\ live \in Supervisors => live \in taken' \cup {t}
      /\ sess'[t] \in {sess[t], Nil, live}
  BY <1>1, SharedSteps
<1>4. ASSUME NEW s \in Supervisors PROVE HandleMatchesCall(s)'
  <2>1. CASE s = t  BY <1>1, <2>1, HandleStays DEF TraceInv
  <2>2. CASE s # t  BY <1>2, <2>2 DEF TraceInv, HandleMatchesCall
  <2> QED  BY <2>1, <2>2
<1>5. ASSUME NEW s \in Supervisors PROVE ThreadMatchesCall(s)'
  <2>1. CASE s = t  BY <1>1, <2>1, ThreadStays DEF TraceInv
  <2>2. CASE s # t  BY <1>2, <2>2 DEF TraceInv, ThreadMatchesCall
  <2> QED  BY <2>1, <2>2
<1>6. ASSUME NEW s \in Supervisors PROVE NotYetStarted(s)'
  <2>1. CASE s = t  BY <1>1, <2>1, NotYetStays DEF TraceInv
  <2>2. CASE s # t
    BY <1>2, <1>3, <2>2 DEF TraceInv, NotYetStarted, TraceAssumption
  <2> QED  BY <2>1, <2>2
<1>7. ASSUME NEW s \in Supervisors \ (taken' \cup refused') PROVE HoldsItsSession(s)'
  <2>0. s \in Supervisors \ (taken \cup refused)
    BY <1>3
  <2>1. CASE s = t  BY <1>1, <2>0, <2>1, HoldingStays DEF TraceInv
  <2>2. CASE s # t  BY <1>2, <1>3, <2>0, <2>2 DEF TraceInv, HoldsItsSession, TraceAssumption
  <2> QED  BY <2>1, <2>2
<1>8. ASSUME NEW s \in Supervisors, pc'[s] = "done" PROVE live' # s
  <2>1. CASE s = t  BY <1>1, <1>8, <2>1, FinishedStays DEF TraceInv
  <2>2. CASE s # t  BY <1>2, <1>3, <1>8, <2>2 DEF TraceInv, TraceAssumption
  <2> QED  BY <2>1, <2>2
<1> QED  BY <1>1, <1>4, <1>5, <1>6, <1>7, <1>8 DEF TraceInv

LEMMA NextHolds == TraceInv /\ [Next]_vars => TraceInv'
<1> SUFFICES ASSUME TraceInv, [Next]_vars PROVE TraceInv'
  OBVIOUS
<1>1. CASE LogEvent
  <2>1. TypeOK'
    BY <1>1 DEF LogEvent, threadVars, histVars, TraceInv, TypeOK
  <2> QED
    BY <1>1, <2>1 DEF LogEvent, threadVars, histVars, TraceInv, HandleMatchesCall, ThreadMatchesCall,
                      NotYetStarted, HoldsItsSession
<1>2. CASE UNCHANGED vars
  BY <1>2 DEF vars, kernelVars, threadVars, histVars, TraceInv, TypeOK, HandleMatchesCall,
              ThreadMatchesCall, NotYetStarted, HoldsItsSession
<1>3. CASE \E t \in Supervisors : Step(t)
  BY <1>3, StepHolds
<1> QED  BY <1>1, <1>2, <1>3 DEF Next, Step

THEOREM TraceInvariant == Spec => []TraceInv
<1> QED  BY InitHolds, NextHolds, PTL DEF Spec

\* Type correctness, for every number of supervisors that share the name.
THEOREM TypeCorrect == Spec => []TypeOK
<1>1. TraceInv => TypeOK
  BY DEF TraceInv
<1> QED  BY <1>1, TraceInvariant, PTL

\* Which supervisors see their job: all but those that another one took the session
\* from and those that were refused (etw.hpp:332-351), and these enable nothing.
THEOREM RootIsObserved == Spec => []ObservesUnlessRefused
<1>1. TraceInv => ObservesUnlessRefused
  BY DEF TraceInv, NotYetStarted, HoldsItsSession, ObservesUnlessRefused, Observes
<1> QED  BY <1>1, TraceInvariant, PTL

\* A supervisor that has ended its trace has left neither a session nor a thread
\* behind (trace.hpp:412, etw.hpp:137).
THEOREM NothingIsLeft == Spec => []FinishedLeavesNothing
<1>1. TraceInv => FinishedLeavesNothing
  BY DEF TraceInv, ThreadMatchesCall, FinishedLeavesNothing, FinishedLeavesNoSession,
         NoCallbackAfterDestruction
<1> QED  BY <1>1, TraceInvariant, PTL

------------------------------------------------------------------------------
(* The trace keeps the contract of module TraceContract.                   *)

LEMMA ContractInit == Init => Contract!Init
BY DEF Init, Contract!Init, SessionSeen, ThreadSeen

\* What others do can only end the session.
LEMMA OthersEndTheSession ==
  ASSUME TraceInv, NEW t \in Supervisors \ {Observed}, Step(t)
  PROVE  [Contract!Next]_Contract!vars
<1>1. Arrays /\ Observed \in Supervisors
  BY TypedArrays DEF TraceInv, TraceAssumption
<1>2. /\ pc'[Observed] = pc[Observed] /\ sess'[Observed] = sess[Observed]
      /\ thread'[Observed] = thread[Observed] /\ handled'[Observed] = handled[Observed]
  BY <1>1, OthersStay
<1>3. live' = live \/ live' = Nil \/ (live' = t /\ pc[t] \in Unregistered)
  BY <1>1, SharedSteps
<1>4. live' = t /\ pc[t] \in Unregistered => sess[Observed] # t
  BY <1>1 DEF TraceInv, NotYetStarted
<1>5. SessionSeen' = SessionSeen \/ (SessionSeen = "open" /\ SessionSeen' = "over")
  BY <1>2, <1>3, <1>4 DEF SessionSeen
<1>6. ThreadSeen' = ThreadSeen
  BY <1>2 DEF ThreadSeen
<1> QED  BY <1>2, <1>5, <1>6 DEF Contract!Next, Contract!End, Contract!vars

\* Each of its own calls is a step of the contract, or none.
LEMMA OwnStepsKeepTheContract ==
  ASSUME TraceInv, Step(Observed)
  PROVE  [Contract!Next]_Contract!vars
<1>a. /\ Arrays /\ Observed \in Supervisors
      /\ HandleMatchesCall(Observed) /\ ThreadMatchesCall(Observed)
      /\ NotYetStarted(Observed)
  BY TypedArrays DEF TraceInv, TraceAssumption
<1> USE DEF Go, kernelVars, threadVars, histVars, Arrays, Unregistered, Unopened, Unthreaded, Closed,
            HandleMatchesCall, ThreadMatchesCall, SessionSeen, ThreadSeen, Contract!Next,
            Contract!vars
<1>1. CASE StopStaleTraceSession(Observed)
  BY <1>1, <1>a DEF StopStaleTraceSession, StopByName, StopThrows, Refuses, Breaks, Denied, Contract!End
<1>2. CASE StartTrace(Observed)
  BY <1>2, <1>a DEF StartTrace, OpenFailed, Contract!End
<1>3. CASE ReplaceTrace(Observed)
  BY <1>3, <1>a DEF ReplaceTrace, StopByName, StopThrows, Refuses, Breaks, Denied, Contract!End
<1>4. CASE TryTrace(Observed)
  BY <1>4, <1>a DEF TryTrace, OpenTrace, OpenThrows, OpenFailed, Contract!End
<1>5. CASE LeaveTrace(Observed)
  BY <1>5, <1>a DEF LeaveTrace, OpenFailed, Contract!End
<1>6. CASE EnableProviders(Observed)
  BY <1>6, <1>a DEF EnableProviders, OpenFailed, Contract!End
<1>7. CASE Open(Observed)
  BY <1>7, <1>a DEF Open, OpenTrace, OpenThrows, OpenFailed, Contract!Open, Contract!End
<1>8. CASE StartThread(Observed)
  BY <1>8, <1>a DEF StartThread, Contract!StartThread
<1>9. CASE ResumeRoot(Observed)
  BY <1>9, <1>a DEF ResumeRoot, Contract!End
<1>10. CASE JobEnds(Observed)
  BY <1>10, <1>a DEF JobEnds, Contract!End
<1>11. CASE Stop(Observed)
  BY <1>11, <1>a DEF Stop, StopByName, StopThrows, Refuses, Breaks, Denied, Abort, Contract!End
<1>12. CASE Close(Observed)
  BY <1>12, <1>a DEF Close, CloseTrace, Abort, Contract!End
<1>13. CASE JoinThread(Observed)
  BY <1>13, <1>a DEF JoinThread, Contract!End
<1>14. CASE Destroy(Observed)
  BY <1>14, <1>a DEF Destroy, StopByName, StopThrows, Refuses, Breaks, Denied, Abort, Contract!End
<1>15. CASE Crash(Observed)
  BY <1>15, <1>a DEF Crash, Abort, Ended, Contract!End, Contract!Open
<1>16. CASE CheckHandle(Observed)
  BY <1>16, <1>a DEF CheckHandle, Contract!Fail
<1>17. CASE CallProcessTrace(Observed)
  BY <1>17, <1>a DEF CallProcessTrace, Contract!Process, Contract!Fail
<1>18. CASE OnEvent(Observed)
  BY <1>18, <1>a DEF OnEvent, Contract!Handle
<1>19. CASE ProcessReturns(Observed)
  BY <1>19, <1>a DEF ProcessReturns, Contract!Return
<1>20. CASE ProcessFails(Observed)
  BY <1>20, <1>a DEF ProcessFails, Ended, Contract!Fail
<1> QED
  BY <1>1, <1>2, <1>3, <1>4, <1>5, <1>6, <1>7, <1>8, <1>9, <1>10, <1>11, <1>12, <1>13, <1>14,
     <1>15, <1>16, <1>17, <1>18, <1>19, <1>20
     DEF Step, Main, Tracer

LEMMA NextKeepsTheContract ==
  TraceInv /\ [Next]_vars => [Contract!Next]_Contract!vars
<1> SUFFICES ASSUME TraceInv, [Next]_vars PROVE [Contract!Next]_Contract!vars
  OBVIOUS
<1>1. CASE LogEvent
  BY <1>1 DEF LogEvent, threadVars, histVars, SessionSeen, ThreadSeen, Contract!vars
<1>2. CASE UNCHANGED vars
  BY <1>2 DEF vars, kernelVars, threadVars, histVars, SessionSeen, ThreadSeen, Contract!vars
<1>3. CASE \E t \in Supervisors : Step(t)
  BY <1>3, OwnStepsKeepTheContract, OthersEndTheSession
<1> QED  BY <1>1, <1>2, <1>3 DEF Next, Step

\* The trace is what the supervisor takes it for, whatever the others do to the
\* session they share: the refinement of TraceContract, for every instance.
THEOREM TraceKeepsItsContract == Spec => ImplementsContract
<1> QED
  BY ContractInit, NextKeepsTheContract, TraceInvariant, PTL
     DEF Spec, ImplementsContract, Contract!Spec
==============================================================================
