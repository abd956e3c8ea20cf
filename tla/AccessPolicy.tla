----------------------------- MODULE AccessPolicy -----------------------------
(***************************************************************************)
(* What the file monitor promises, with no event, table or queue in sight: *)
(* a managed process may touch protected data, and once it has, the        *)
(* supervisor raises the one-shot request to move to the container.        *)
(* Nothing but such an access raises it, and it is never taken back.       *)
(***************************************************************************)
VARIABLES
  committed,   \* a managed process has accessed protected data
  alerted      \* sandboxReexecutionRequested

vars == <<committed, alerted>>

Init == committed = FALSE /\ alerted = FALSE

\* A managed process accesses a protected file outside the working directory.
Commit == committed' = TRUE /\ UNCHANGED alerted

\* The supervisor learns of it.
Raise == committed /\ ~alerted /\ alerted' = TRUE /\ UNCHANGED committed

Next == Commit \/ Raise

\* Whatever was committed is eventually reported.
Spec == Init /\ [][Next]_vars /\ WF_vars(Raise)
==============================================================================
