---------------------------- MODULE TraceContract ----------------------------
(***************************************************************************)
(* What the supervisor expects of its trace (the session and the trace     *)
(* thread of module Supervisor): events are handled by the thread alone,   *)
(* from a session that was opened before, and the thread returns, without  *)
(* an error, only after the session has ended or its handle was closed.    *)
(***************************************************************************)
EXTENDS Naturals

VARIABLES
  session,  \* "none", "open", "over"
  tracer,   \* "none", "starting", "processing", "returned", "failed"
  handled   \* events handled

vars == <<session, tracer, handled>>

Init == session = "none" /\ tracer = "none" /\ handled = 0

Open == session = "none" /\ session' = "open" /\ UNCHANGED <<tracer, handled>>
End  == session # "over" /\ session' = "over" /\ UNCHANGED <<tracer, handled>>

StartThread ==
  session # "none" /\ tracer = "none" /\ tracer' = "starting" /\ UNCHANGED <<session, handled>>

\* The session can end before the thread has come to process it.
Process ==
  tracer = "starting" /\ tracer' = "processing" /\ UNCHANGED <<session, handled>>
Handle ==
  tracer = "processing" /\ handled' = handled + 1 /\ UNCHANGED <<session, tracer>>
Return ==
  /\ tracer = "processing" /\ session = "over"
  /\ tracer' = "returned" /\ UNCHANGED <<session, handled>>
Fail ==
  /\ tracer \in {"starting", "processing"}
  /\ tracer' = "failed" /\ UNCHANGED <<session, handled>>

Next == Open \/ End \/ StartThread \/ Process \/ Handle \/ Return \/ Fail

Spec == Init /\ [][Next]_vars
==============================================================================
