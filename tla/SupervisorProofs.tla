--------------------------- MODULE SupervisorProofs ---------------------------
(***************************************************************************)
(* What holds of the supervisor for every choice of faults, every number   *)
(* of descendants and every set of sessions: no process it started is left *)
(* behind, managed processes are observed, handles outlive the threads     *)
(* that use them, and the container is started only after the job.         *)
(*                                                                         *)
(* The control state is a sequence of steps still to do.  The invariant    *)
(* says what the steps that are left tell of the rest of the state: while  *)
(* a step is left, its effect has not happened; once it is gone from the   *)
(* plan, it has.  The order of the steps in the plans, and of the error    *)
(* branches that replace them, is then all a proof has to know of todo.    *)
(***************************************************************************)
EXTENDS Supervisor, SequenceTheorems, WellFoundedInduction, TLAPS

\* What is left of a plan after n steps.
Rest(p, n) == [i \in 1..(Len(p) - n) |-> p[i + n]]

StopAndUndoJob == <<"StopTrace">> \o UndoJob

Plans == {MainPlan, UndoStart, UndoJob, StopAndUndoJob, UndoTrace,
          StartHcsSandboxReexecution}

Remainders == {<<>>} \cup UNION {{Rest(p, n) : n \in 0..Len(p)} : p \in Plans}

\* The steps that main has still to do.
Left == Range(todo)

ActiveTracer == {"processing", "throwing", "returned"}

RootFollowsPlan ==
  /\ "CreateProcess" \in Left => root = "none"
  /\ "Decide" \in Left /\ "CreateProcess" \notin Left => root # "none"
  /\ "AssignProcessToJobObject" \in Left => ~assigned
  /\ "Decide" \in Left /\ "AssignProcessToJobObject" \notin Left => assigned
  /\ "Resume" \in Left => ~ManagedRun

MonitorFollowsPlan ==
  /\ "StartMonitor" \in Left => monitor = "none"
  /\ "Decide" \in Left /\ "StartMonitor" \notin Left => monitor # "none"
  /\ monitor = "reading" => joinable
  /\ joinable => monitor # "none" /\ "Wait" \in Left
  /\ monitor = "none" => ~ManagedRun
  /\ monitor = "none" /\ RootAlive => "StartMonitor" \in Left \/ "TerminateRoot" \in Left

TraceFollowsPlan ==
  /\ "StartTraceThread" \in Left => tracer = "none"
  /\ tracer \in ActiveTracer => "JoinTrace" \in Left
  /\ "Decide" \in Left /\ "JoinTrace" \notin Left => tracer = "joined"
  /\ "StopTrace" \in Left /\ "OpenTrace" \notin Left => session \in {"open", "taken"}

JobFollowsPlan ==
  /\ "CloseHandles" \in Left => job # "closed"
  /\ "Decide" \in Left /\ "CreateJobObject" \notin Left => job # "none"
  /\ "Decide" \in Left /\ "CloseHandles" \notin Left => job = "closed"

\* Main goes past StopTrace only when nothing runs any longer, as far as it can know.
ObservedUntilStopped ==
  monitor # "failed" /\ ManagedRun =>
    /\ "StopTrace" \in Left /\ "Decide" \in Left
    /\ session \in {"open", "taken"}

\* The session to continue was written during the run, and none was written after it.
LastWritten ==
  /\ resumed \in DOMAIN rollouts /\ rollouts[resumed] > 0
  /\ \A s \in DOMAIN rollouts : rollouts[s] <= rollouts[resumed]

HandoverFollowsPlan ==
  /\ runner # "none" => Left \subseteq {"AwaitRunner"}
  /\ "AwaitRunner" \in Left \/ runner # "none" =>
       tracer = "joined" /\ ~joinable /\ job = "closed"
  /\ ("AwaitRunner" \in Left /\ "FindSession" \notin Left) \/ runner # "none" => LastWritten

FollowsPlan ==
  /\ RootFollowsPlan /\ MonitorFollowsPlan /\ TraceFollowsPlan /\ JobFollowsPlan
  /\ ObservedUntilStopped /\ HandoverFollowsPlan

\* The message that the job is empty is true for good: what is in the job was started
\* by a process of the job.
EmptyForGood ==
  /\ ManagedRun => assigned
  /\ zeros > 0 \/ monitor = "succeeded" => assigned /\ ~RootAlive /\ kids = 0

ClosedIsUnused ==
  job = "closed" => monitor # "reading" /\ tracer \notin {"processing", "throwing"}

Succeeded ==
  exitCode = "0" => todo = <<>> /\ tracer = "joined" /\ ~traceFailed /\ ~requested /\ root # "none"

Aborted == exitCode = "aborted"

\* The inductive invariant.
SupervisorInv ==
  /\ TypeOK
  /\ todo \in Remainders
  /\ Aborted => Done /\ runner = "none"
  /\ ~Aborted => FollowsPlan
  /\ EmptyForGood
  /\ ClosedIsUnused
  /\ Succeeded

------------------------------------------------------------------------------
(* Sets of numbers.                                                        *)

\* The relation < on the natural numbers, as a set.
Less == {ss \in Nat \X Nat : ss[1] < ss[2]}

LEMMA LessIsWellFounded == IsWellFoundedOn(Less, Nat)
BY NatLessThanWellFounded DEF OpToRel, Less

\* A set of natural numbers with a bound has a greatest member, which is what Max returns.
LEMMA MaxIsGreatest ==
  ASSUME NEW b \in Nat, NEW S \in SUBSET 0..b, S # {}
  PROVE  Max(S) \in S /\ \A y \in S : Max(S) >= y
<1> DEFINE T == {b - x : x \in S}
<1>0. \A x \in S : x \in Nat /\ x <= b
  OBVIOUS
<1>1. T \subseteq Nat /\ T # {}
  <2>1. \A x \in S : b - x \in Nat
    BY <1>0
  <2> QED BY <2>1
<1>2. PICK d \in T : \A y \in T : ~ (<<y, d>> \in Less)
  <2> HIDE DEF T
  <2> QED BY <1>1, LessIsWellFounded, WFMin
<1>3. \A y \in T : d <= y
  <2> SUFFICES ASSUME NEW y \in T PROVE d <= y
    OBVIOUS
  <2>1. d \in Nat /\ y \in Nat
    BY <1>1
  <2>2. ~(<<y, d>> \in Less)
    BY <1>2
  <2> QED BY <2>1, <2>2 DEF Less
<1>4. PICK x \in S : d = b - x
  OBVIOUS
<1>5. \A y \in S : x >= y
  <2> SUFFICES ASSUME NEW y \in S PROVE x >= y
    OBVIOUS
  <2>1. b - x <= b - y
    BY <1>3, <1>4
  <2> QED BY <2>1, <1>0
<1> QED BY <1>5 DEF Max
------------------------------------------------------------------------------
(* Plans and what is left of them.                                         *)

\* The steps of p after the first n.
After(p, n) == {p[i] : i \in (n + 1)..Len(p)}

LEMMA WhatIsLeft ==
  ASSUME NEW S, NEW p \in Seq(S), NEW n \in 0..Len(p)
  PROVE  /\ Rest(p, n) \in Seq(S)
         /\ Range(Rest(p, n)) = After(p, n)
         /\ n = Len(p) => Rest(p, n) = <<>>
         /\ n < Len(p) => /\ Rest(p, n) # <<>>
                          /\ Head(Rest(p, n)) = p[n + 1]
                          /\ n + 1 \in 0..Len(p) /\ Tail(Rest(p, n)) = Rest(p, n + 1)
<1> DEFINE r == Rest(p, n)
<1>1. r \in Seq(S) /\ Len(r) = Len(p) - n /\ \A i \in 1..Len(r) : r[i] = p[i + n]
  BY DEF Rest
<1>2. Range(r) = After(p, n)
  <2>1. DOMAIN r = 1..(Len(p) - n)
    BY DEF Rest
  <2>2. Range(r) \subseteq After(p, n)
    <3> SUFFICES ASSUME NEW i \in 1..(Len(p) - n) PROVE r[i] \in After(p, n)
      BY <2>1 DEF Range
    <3> QED BY <1>1 DEF After
  <2>3. After(p, n) \subseteq Range(r)
    <3> SUFFICES ASSUME NEW j \in (n + 1)..Len(p) PROVE p[j] \in Range(r)
      BY DEF After
    <3>1. j - n \in 1..(Len(p) - n) /\ (j - n) + n = j
      OBVIOUS
    <3>2. r[j - n] = p[j]
      BY <1>1, <3>1
    <3> QED BY <2>1, <3>1, <3>2 DEF Range
  <2> QED BY <2>2, <2>3
<1>3. ASSUME n = Len(p) PROVE r = <<>>
  BY <1>3 DEF Rest
<1>4. ASSUME n < Len(p)
      PROVE  /\ r # <<>> /\ Head(r) = p[n + 1]
             /\ n + 1 \in 0..Len(p) /\ Tail(r) = Rest(p, n + 1)
  <2>1. Len(r) > 0 /\ r # <<>>
    BY <1>1, <1>4
  <2>2. Head(r) = p[n + 1]
    BY <1>1, <2>1
  <2>3. /\ Tail(r) \in Seq(S) /\ Len(Tail(r)) = Len(p) - (n + 1)
        /\ \A i \in 1..(Len(p) - (n + 1)) : Tail(r)[i] = p[i + (n + 1)]
    BY <1>1, <2>1
  <2>4. Tail(r) = Rest(p, n + 1)
    <3> DEFINE t == Rest(p, n + 1)
    <3>1. /\ t \in Seq(S) /\ Len(t) = Len(p) - (n + 1)
          /\ \A i \in 1..(Len(p) - (n + 1)) : t[i] = p[i + (n + 1)]
      BY <1>4 DEF Rest
    <3> HIDE DEF r, t
    <3>2. Len(Tail(r)) = Len(t) /\ \A i \in 1..Len(Tail(r)) : Tail(r)[i] = t[i]
      BY <2>3, <3>1
    <3>3. Tail(r) = t
      BY <2>3, <3>1, <3>2, SeqEqual, Zenon
    <3> QED BY <3>3 DEF t
  <2> QED BY <2>1, <2>2, <2>4, <1>4
<1> QED BY <1>1, <1>2, <1>3, <1>4

LEMMA MainPlanSteps ==
  /\ Len(MainPlan) = 20
  /\ MainPlan[1] = "FindHome"
  /\ MainPlan[2] = "CreateProcess"
  /\ MainPlan[3] = "CreateJobObject"
  /\ MainPlan[4] = "CreateIoCompletionPort"
  /\ MainPlan[5] = "SetInformationJobObject"
  /\ MainPlan[6] = "AssignProcessToJobObject"
  /\ MainPlan[7] = "StartMonitor"
  /\ MainPlan[8] = "FindProvider"
  /\ MainPlan[9] = "Bootstrap"
  /\ MainPlan[10] = "FindProvider"
  /\ MainPlan[11] = "OpenTrace"
  /\ MainPlan[12] = "StartTraceThread"
  /\ MainPlan[13] = "Resume"
  /\ MainPlan[14] = "Wait"
  /\ MainPlan[15] = "StopTrace"
  /\ MainPlan[16] = "JoinTrace"
  /\ MainPlan[17] = "PostZero"
  /\ MainPlan[18] = "JoinMonitor"
  /\ MainPlan[19] = "CloseHandles"
  /\ MainPlan[20] = "Decide"
BY DEF MainPlan, StartCmdSuspendedInJob, CloseManagedJobProcess

LEMMA UndoStartSteps ==
  /\ Len(UndoStart) = 4
  /\ UndoStart[1] = "TerminateRoot"
  /\ UndoStart[2] = "PostZero"
  /\ UndoStart[3] = "JoinMonitor"
  /\ UndoStart[4] = "CloseHandles"
BY DEF UndoStart, CloseManagedJobProcess

LEMMA UndoJobSteps ==
  /\ Len(UndoJob) = 5
  /\ UndoJob[1] = "TerminateJob"
  /\ UndoJob[2] = "Wait"
  /\ UndoJob[3] = "PostZero"
  /\ UndoJob[4] = "JoinMonitor"
  /\ UndoJob[5] = "CloseHandles"
BY DEF UndoJob, CloseManagedJobProcess

LEMMA StopAndUndoJobSteps ==
  /\ Len(StopAndUndoJob) = 6
  /\ StopAndUndoJob[1] = "StopTrace"
  /\ StopAndUndoJob[2] = "TerminateJob"
  /\ StopAndUndoJob[3] = "Wait"
  /\ StopAndUndoJob[4] = "PostZero"
  /\ StopAndUndoJob[5] = "JoinMonitor"
  /\ StopAndUndoJob[6] = "CloseHandles"
BY DEF StopAndUndoJob, UndoJob, CloseManagedJobProcess

LEMMA UndoTraceSteps ==
  /\ Len(UndoTrace) = 7
  /\ UndoTrace[1] = "StopTrace"
  /\ UndoTrace[2] = "JoinTrace"
  /\ UndoTrace[3] = "TerminateRoot"
  /\ UndoTrace[4] = "Wait"
  /\ UndoTrace[5] = "PostZero"
  /\ UndoTrace[6] = "JoinMonitor"
  /\ UndoTrace[7] = "CloseHandles"
BY DEF UndoTrace, CloseManagedJobProcess

------------------------------------------------------------------------------
(* The steps of each plan, and which of them are left after n.             *)

\* Every step of some plan.
Names == {"FindHome", "CreateProcess", "CreateJobObject", "CreateIoCompletionPort",
   "SetInformationJobObject", "AssignProcessToJobObject", "StartMonitor", "FindProvider",
   "Bootstrap", "OpenTrace", "StartTraceThread", "Resume", "Wait", "StopTrace",
   "JoinTrace", "PostZero", "JoinMonitor", "CloseHandles", "Decide", "TerminateRoot",
   "TerminateJob", "FindSession", "FindRunner", "InstallSupportFiles", "CreateRunner",
   "AwaitRunner"}

LEMMA PlansOver ==
  ASSUME NEW S, Names \subseteq S
  PROVE  \A p \in Plans : p \in Seq(S)
<1>0. /\ "FindHome" \in S
      /\ "CreateProcess" \in S
      /\ "CreateJobObject" \in S
      /\ "CreateIoCompletionPort" \in S
      /\ "SetInformationJobObject" \in S
      /\ "AssignProcessToJobObject" \in S
      /\ "StartMonitor" \in S
      /\ "FindProvider" \in S
      /\ "Bootstrap" \in S
      /\ "OpenTrace" \in S
      /\ "StartTraceThread" \in S
      /\ "Resume" \in S
      /\ "Wait" \in S
      /\ "StopTrace" \in S
      /\ "JoinTrace" \in S
      /\ "PostZero" \in S
      /\ "JoinMonitor" \in S
      /\ "CloseHandles" \in S
      /\ "Decide" \in S
      /\ "TerminateRoot" \in S
      /\ "TerminateJob" \in S
      /\ "FindSession" \in S
      /\ "FindRunner" \in S
      /\ "InstallSupportFiles" \in S
      /\ "CreateRunner" \in S
      /\ "AwaitRunner" \in S
  BY DEF Names
<1>1. StartCmdSuspendedInJob \in Seq(S) /\ CloseManagedJobProcess \in Seq(S)
  BY <1>0 DEF StartCmdSuspendedInJob, CloseManagedJobProcess
<1>2. StartHcsSandboxReexecution \in Seq(S)
  BY <1>0 DEF StartHcsSandboxReexecution
<1> HIDE DEF StartCmdSuspendedInJob, CloseManagedJobProcess
<1>3. UndoStart \in Seq(S) /\ UndoJob \in Seq(S) /\ UndoTrace \in Seq(S)
  <2>1. /\ <<"TerminateRoot">> \in Seq(S) /\ <<"TerminateJob", "Wait">> \in Seq(S)
        /\ <<"StopTrace", "JoinTrace", "TerminateRoot", "Wait">> \in Seq(S)
    BY <1>0
  <2> QED BY <1>1, <2>1, ConcatProperties DEF UndoStart, UndoJob, UndoTrace
<1>4. StopAndUndoJob \in Seq(S)
  <2>1. <<"StopTrace">> \in Seq(S)
    BY <1>0
  <2> QED BY <1>3, <2>1, ConcatProperties DEF StopAndUndoJob
<1>5. MainPlan \in Seq(S)
  <2>1. <<"FindHome">> \in Seq(S) /\ <<"Decide">> \in Seq(S)
    BY <1>0
  <2>2. <<"FindProvider", "Bootstrap", "FindProvider", "OpenTrace", "StartTraceThread",
          "Resume", "Wait", "StopTrace", "JoinTrace">> \in Seq(S)
    BY <1>0
  <2> QED BY <1>1, <2>1, <2>2, ConcatProperties DEF MainPlan
<1> QED BY <1>2, <1>3, <1>4, <1>5 DEF Plans

LEMMA StepsAre ==
  Names \subseteq Steps
<1>1. \A i \in 1..20 : MainPlan[i] \in Range(MainPlan)
  <2>1. MainPlan \in Seq(Names) /\ Len(MainPlan) = 20
    BY PlansOver, MainPlanSteps DEF Plans
  <2>2. DOMAIN MainPlan = 1..20
    BY <2>1, LenProperties
  <2> QED BY <2>2 DEF Range
<1>2. \A i \in 1..5 : StartHcsSandboxReexecution[i] \in Range(StartHcsSandboxReexecution)
  <2>1. DOMAIN StartHcsSandboxReexecution = 1..5
    BY DEF StartHcsSandboxReexecution
  <2> QED BY <2>1 DEF Range
<1>3. Range(MainPlan) \subseteq Steps /\ Range(StartHcsSandboxReexecution) \subseteq Steps
      /\ "TerminateRoot" \in Steps /\ "TerminateJob" \in Steps
  BY DEF Steps
<1>4. /\ "FindHome" \in Steps
      /\ "CreateProcess" \in Steps
      /\ "CreateJobObject" \in Steps
      /\ "CreateIoCompletionPort" \in Steps
      /\ "SetInformationJobObject" \in Steps
      /\ "AssignProcessToJobObject" \in Steps
      /\ "StartMonitor" \in Steps
      /\ "FindProvider" \in Steps
      /\ "Bootstrap" \in Steps
  BY <1>1, <1>3, MainPlanSteps
<1>5. /\ "OpenTrace" \in Steps
      /\ "StartTraceThread" \in Steps
      /\ "Resume" \in Steps
      /\ "Wait" \in Steps
      /\ "StopTrace" \in Steps
      /\ "JoinTrace" \in Steps
      /\ "PostZero" \in Steps
      /\ "JoinMonitor" \in Steps
      /\ "CloseHandles" \in Steps
      /\ "Decide" \in Steps
  BY <1>1, <1>3, MainPlanSteps
<1>6. /\ "FindSession" \in Steps
      /\ "FindRunner" \in Steps
      /\ "InstallSupportFiles" \in Steps
      /\ "CreateRunner" \in Steps
      /\ "AwaitRunner" \in Steps
  BY <1>2, <1>3 DEF StartHcsSandboxReexecution
<1> QED BY <1>3, <1>4, <1>5, <1>6 DEF Names

LEMMA PlansAreSequences == \A p \in Plans : p \in Seq(Steps)
BY StepsAre, PlansOver

LEMMA MainPlanLeft ==
  ASSUME NEW n \in 0..20
  PROVE  /\ "CreateProcess" \in After(MainPlan, n) <=> n < 2
         /\ "CreateJobObject" \in After(MainPlan, n) <=> n < 3
         /\ "AssignProcessToJobObject" \in After(MainPlan, n) <=> n < 6
         /\ "StartMonitor" \in After(MainPlan, n) <=> n < 7
         /\ "OpenTrace" \in After(MainPlan, n) <=> n < 11
         /\ "StartTraceThread" \in After(MainPlan, n) <=> n < 12
         /\ "Resume" \in After(MainPlan, n) <=> n < 13
         /\ "Wait" \in After(MainPlan, n) <=> n < 14
         /\ "StopTrace" \in After(MainPlan, n) <=> n < 15
         /\ "JoinTrace" \in After(MainPlan, n) <=> n < 16
         /\ "CloseHandles" \in After(MainPlan, n) <=> n < 19
         /\ "Decide" \in After(MainPlan, n) <=> n < 20
         /\ "TerminateRoot" \notin After(MainPlan, n)
         /\ "FindSession" \notin After(MainPlan, n)
         /\ "CreateRunner" \notin After(MainPlan, n)
         /\ "AwaitRunner" \notin After(MainPlan, n)
BY MainPlanSteps DEF After

LEMMA UndoStartLeft ==
  ASSUME NEW n \in 0..4
  PROVE  /\ "CreateProcess" \notin After(UndoStart, n)
         /\ "CreateJobObject" \notin After(UndoStart, n)
         /\ "AssignProcessToJobObject" \notin After(UndoStart, n)
         /\ "StartMonitor" \notin After(UndoStart, n)
         /\ "OpenTrace" \notin After(UndoStart, n)
         /\ "StartTraceThread" \notin After(UndoStart, n)
         /\ "Resume" \notin After(UndoStart, n)
         /\ "Wait" \notin After(UndoStart, n)
         /\ "StopTrace" \notin After(UndoStart, n)
         /\ "JoinTrace" \notin After(UndoStart, n)
         /\ "CloseHandles" \in After(UndoStart, n) <=> n < 4
         /\ "Decide" \notin After(UndoStart, n)
         /\ "TerminateRoot" \in After(UndoStart, n) <=> n < 1
         /\ "FindSession" \notin After(UndoStart, n)
         /\ "CreateRunner" \notin After(UndoStart, n)
         /\ "AwaitRunner" \notin After(UndoStart, n)
BY UndoStartSteps DEF After

LEMMA UndoJobLeft ==
  ASSUME NEW n \in 0..5
  PROVE  /\ "CreateProcess" \notin After(UndoJob, n)
         /\ "CreateJobObject" \notin After(UndoJob, n)
         /\ "AssignProcessToJobObject" \notin After(UndoJob, n)
         /\ "StartMonitor" \notin After(UndoJob, n)
         /\ "OpenTrace" \notin After(UndoJob, n)
         /\ "StartTraceThread" \notin After(UndoJob, n)
         /\ "Resume" \notin After(UndoJob, n)
         /\ "Wait" \in After(UndoJob, n) <=> n < 2
         /\ "StopTrace" \notin After(UndoJob, n)
         /\ "JoinTrace" \notin After(UndoJob, n)
         /\ "CloseHandles" \in After(UndoJob, n) <=> n < 5
         /\ "Decide" \notin After(UndoJob, n)
         /\ "TerminateRoot" \notin After(UndoJob, n)
         /\ "FindSession" \notin After(UndoJob, n)
         /\ "CreateRunner" \notin After(UndoJob, n)
         /\ "AwaitRunner" \notin After(UndoJob, n)
BY UndoJobSteps DEF After

LEMMA StopAndUndoJobLeft ==
  ASSUME NEW n \in 0..6
  PROVE  /\ "CreateProcess" \notin After(StopAndUndoJob, n)
         /\ "CreateJobObject" \notin After(StopAndUndoJob, n)
         /\ "AssignProcessToJobObject" \notin After(StopAndUndoJob, n)
         /\ "StartMonitor" \notin After(StopAndUndoJob, n)
         /\ "OpenTrace" \notin After(StopAndUndoJob, n)
         /\ "StartTraceThread" \notin After(StopAndUndoJob, n)
         /\ "Resume" \notin After(StopAndUndoJob, n)
         /\ "Wait" \in After(StopAndUndoJob, n) <=> n < 3
         /\ "StopTrace" \in After(StopAndUndoJob, n) <=> n < 1
         /\ "JoinTrace" \notin After(StopAndUndoJob, n)
         /\ "CloseHandles" \in After(StopAndUndoJob, n) <=> n < 6
         /\ "Decide" \notin After(StopAndUndoJob, n)
         /\ "TerminateRoot" \notin After(StopAndUndoJob, n)
         /\ "FindSession" \notin After(StopAndUndoJob, n)
         /\ "CreateRunner" \notin After(StopAndUndoJob, n)
         /\ "AwaitRunner" \notin After(StopAndUndoJob, n)
BY StopAndUndoJobSteps DEF After

LEMMA UndoTraceLeft ==
  ASSUME NEW n \in 0..7
  PROVE  /\ "CreateProcess" \notin After(UndoTrace, n)
         /\ "CreateJobObject" \notin After(UndoTrace, n)
         /\ "AssignProcessToJobObject" \notin After(UndoTrace, n)
         /\ "StartMonitor" \notin After(UndoTrace, n)
         /\ "OpenTrace" \notin After(UndoTrace, n)
         /\ "StartTraceThread" \notin After(UndoTrace, n)
         /\ "Resume" \notin After(UndoTrace, n)
         /\ "Wait" \in After(UndoTrace, n) <=> n < 4
         /\ "StopTrace" \in After(UndoTrace, n) <=> n < 1
         /\ "JoinTrace" \in After(UndoTrace, n) <=> n < 2
         /\ "CloseHandles" \in After(UndoTrace, n) <=> n < 7
         /\ "Decide" \notin After(UndoTrace, n)
         /\ "TerminateRoot" \in After(UndoTrace, n) <=> n < 3
         /\ "FindSession" \notin After(UndoTrace, n)
         /\ "CreateRunner" \notin After(UndoTrace, n)
         /\ "AwaitRunner" \notin After(UndoTrace, n)
BY UndoTraceSteps DEF After

LEMMA StartHcsSandboxReexecutionLeft ==
  ASSUME NEW n \in 0..5
  PROVE  /\ "CreateProcess" \notin After(StartHcsSandboxReexecution, n)
         /\ "CreateJobObject" \notin After(StartHcsSandboxReexecution, n)
         /\ "AssignProcessToJobObject" \notin After(StartHcsSandboxReexecution, n)
         /\ "StartMonitor" \notin After(StartHcsSandboxReexecution, n)
         /\ "OpenTrace" \notin After(StartHcsSandboxReexecution, n)
         /\ "StartTraceThread" \notin After(StartHcsSandboxReexecution, n)
         /\ "Resume" \notin After(StartHcsSandboxReexecution, n)
         /\ "Wait" \notin After(StartHcsSandboxReexecution, n)
         /\ "StopTrace" \notin After(StartHcsSandboxReexecution, n)
         /\ "JoinTrace" \notin After(StartHcsSandboxReexecution, n)
         /\ "CloseHandles" \notin After(StartHcsSandboxReexecution, n)
         /\ "Decide" \notin After(StartHcsSandboxReexecution, n)
         /\ "TerminateRoot" \notin After(StartHcsSandboxReexecution, n)
         /\ "FindSession" \in After(StartHcsSandboxReexecution, n) <=> n < 1
         /\ "CreateRunner" \in After(StartHcsSandboxReexecution, n) <=> n < 4
         /\ "AwaitRunner" \in After(StartHcsSandboxReexecution, n) <=> n < 5
BY DEF After, StartHcsSandboxReexecution

------------------------------------------------------------------------------
(* The order of the steps.                                                 *)

\* The steps whose effects the invariant speaks of.
Milestones ==
  {"CreateProcess", "CreateJobObject", "AssignProcessToJobObject", "StartMonitor", "OpenTrace",
   "StartTraceThread", "Resume", "Wait", "StopTrace", "JoinTrace", "CloseHandles", "Decide",
   "TerminateRoot", "FindSession", "CreateRunner", "AwaitRunner"}

HcsNames == {"FindSession", "FindRunner", "InstallSupportFiles", "CreateRunner", "AwaitRunner"}

\* When step is up and rest is what comes after it in the plan.
InOrder(step, rest) ==
  /\ step \in Milestones => step \notin rest
  /\ step = "FindHome" => "CreateProcess" \in rest
  /\ step \in {"FindHome", "CreateProcess"} => "AssignProcessToJobObject" \in rest
  /\ step \in {"FindHome", "CreateProcess", "CreateJobObject", "CreateIoCompletionPort",
               "SetInformationJobObject", "AssignProcessToJobObject"} => "StartMonitor" \in rest
  /\ step \in {"FindHome", "CreateProcess", "CreateJobObject", "CreateIoCompletionPort",
               "SetInformationJobObject", "AssignProcessToJobObject", "StartMonitor",
               "Bootstrap", "OpenTrace"} =>
       /\ "StartTraceThread" \in rest /\ "Resume" \in rest /\ "Wait" \in rest
       /\ "CloseHandles" \in rest /\ "Decide" \in rest
  /\ step \in {"Bootstrap", "OpenTrace", "StartTraceThread", "Resume"} =>
       /\ "Decide" \in rest /\ "StartMonitor" \notin rest
       /\ "AssignProcessToJobObject" \notin rest /\ "JoinTrace" \in rest
  /\ step \in {"StartTraceThread", "Resume"} =>
       /\ "OpenTrace" \notin rest /\ "CreateProcess" \notin rest
       /\ "StopTrace" \in rest /\ "CloseHandles" \in rest /\ "Wait" \in rest
  /\ step = "StartTraceThread" => "Resume" \in rest
  /\ step = "Resume" => "StartTraceThread" \notin rest
  /\ step = "StopTrace" /\ "Decide" \in rest => "Wait" \notin rest
  /\ step \in {"PostZero", "JoinMonitor", "CloseHandles", "Decide"} =>
       "Wait" \notin rest /\ "JoinTrace" \notin rest
  /\ step = "CloseHandles" => "CreateJobObject" \notin rest
  /\ step = "Decide" => rest = {}
  /\ step \in HcsNames =>
       /\ "Wait" \notin rest /\ "JoinTrace" \notin rest /\ "Decide" \notin rest
       /\ "StartMonitor" \notin rest /\ "TerminateRoot" \notin rest
  /\ step = "FindSession" => {"CreateRunner", "AwaitRunner"} \subseteq rest
  /\ step \in {"FindRunner", "InstallSupportFiles"} =>
       "AwaitRunner" \in rest /\ "FindSession" \notin rest
  /\ step = "CreateRunner" => rest = {"AwaitRunner"}
  /\ step = "AwaitRunner" => rest = {}

LEMMA MainPlanInOrder ==
  ASSUME NEW n \in 0..19
  PROVE  InOrder(MainPlan[n + 1], After(MainPlan, n + 1))
<1>1. After(MainPlan, 20) = {}
  BY MainPlanSteps DEF After
<1>2. ASSUME n = 19 PROVE InOrder(MainPlan[n + 1], After(MainPlan, n + 1))
  BY <1>1, <1>2, MainPlanSteps DEF InOrder, HcsNames, Milestones
<1>3. n + 1 \in 0..20 /\ (n < 19 => MainPlan[n + 1] \notin HcsNames \cup {"Decide"})
  BY MainPlanSteps DEF HcsNames
<1>4. ASSUME n < 19 PROVE InOrder(MainPlan[n + 1], After(MainPlan, n + 1))
  <2>1. ASSUME n \in 0..6 PROVE InOrder(MainPlan[n + 1], After(MainPlan, n + 1))
    BY <1>3, <2>1, MainPlanSteps, MainPlanLeft DEF InOrder, HcsNames, Milestones
  <2>2. ASSUME n \in 7..10 PROVE InOrder(MainPlan[n + 1], After(MainPlan, n + 1))
    BY <1>3, <2>2, MainPlanSteps, MainPlanLeft DEF InOrder, HcsNames, Milestones
  <2>3. ASSUME n \in 11..14 PROVE InOrder(MainPlan[n + 1], After(MainPlan, n + 1))
    BY <1>3, <2>3, MainPlanSteps, MainPlanLeft DEF InOrder, HcsNames, Milestones
  <2>4. ASSUME n \in 15..18 PROVE InOrder(MainPlan[n + 1], After(MainPlan, n + 1))
    BY <1>3, <2>4, MainPlanSteps, MainPlanLeft DEF InOrder, HcsNames, Milestones
  <2> QED BY <1>4, <2>1, <2>2, <2>3, <2>4
<1> QED BY <1>2, <1>4

LEMMA UndoStartInOrder ==
  ASSUME NEW n \in 0..3
  PROVE  InOrder(UndoStart[n + 1], After(UndoStart, n + 1))
BY UndoStartSteps, UndoStartLeft DEF InOrder, HcsNames, Milestones

LEMMA UndoJobInOrder ==
  ASSUME NEW n \in 0..4
  PROVE  InOrder(UndoJob[n + 1], After(UndoJob, n + 1))
BY UndoJobSteps, UndoJobLeft DEF InOrder, HcsNames, Milestones

LEMMA StopAndUndoJobInOrder ==
  ASSUME NEW n \in 0..5
  PROVE  InOrder(StopAndUndoJob[n + 1], After(StopAndUndoJob, n + 1))
BY StopAndUndoJobSteps, StopAndUndoJobLeft DEF InOrder, HcsNames, Milestones

LEMMA UndoTraceInOrder ==
  ASSUME NEW n \in 0..6
  PROVE  InOrder(UndoTrace[n + 1], After(UndoTrace, n + 1))
BY UndoTraceSteps, UndoTraceLeft DEF InOrder, HcsNames, Milestones

LEMMA StartHcsSandboxReexecutionInOrder ==
  ASSUME NEW n \in 0..4
  PROVE  InOrder(StartHcsSandboxReexecution[n + 1], After(StartHcsSandboxReexecution, n + 1))
<1>1. After(StartHcsSandboxReexecution, 5) = {}
  BY DEF After, StartHcsSandboxReexecution
<1>2. After(StartHcsSandboxReexecution, 4) = {"AwaitRunner"}
  BY DEF After, StartHcsSandboxReexecution
<1>3. \A m \in 1..5 : StartHcsSandboxReexecution[m] =
        CASE m = 1 -> "FindSession" [] m = 2 -> "FindRunner" [] m = 3 -> "InstallSupportFiles"
          [] m = 4 -> "CreateRunner" [] m = 5 -> "AwaitRunner"
  BY DEF StartHcsSandboxReexecution
<1> QED BY <1>1, <1>2, <1>3, StartHcsSandboxReexecutionLeft DEF InOrder, HcsNames, Milestones

LEMMA PlanLengths ==
  /\ Len(MainPlan) = 20 /\ Len(UndoStart) = 4 /\ Len(UndoJob) = 5 /\ Len(StopAndUndoJob) = 6
  /\ Len(UndoTrace) = 7 /\ Len(StartHcsSandboxReexecution) = 5
BY MainPlanSteps, UndoStartSteps, UndoJobSteps, StopAndUndoJobSteps, UndoTraceSteps
   DEF StartHcsSandboxReexecution

LEMMA PlansAreInOrder ==
  ASSUME NEW p \in Plans, NEW n \in 0..(Len(p) - 1)
  PROVE  InOrder(p[n + 1], After(p, n + 1))
<1>1. CASE p = MainPlan
  BY <1>1, PlanLengths, MainPlanInOrder
<1>2. CASE p = UndoStart
  BY <1>2, PlanLengths, UndoStartInOrder
<1>3. CASE p = UndoJob
  BY <1>3, PlanLengths, UndoJobInOrder
<1>4. CASE p = StopAndUndoJob
  BY <1>4, PlanLengths, StopAndUndoJobInOrder
<1>5. CASE p = UndoTrace
  BY <1>5, PlanLengths, UndoTraceInOrder
<1>6. CASE p = StartHcsSandboxReexecution
  BY <1>6, PlanLengths, StartHcsSandboxReexecutionInOrder
<1> QED BY <1>1, <1>2, <1>3, <1>4, <1>5, <1>6 DEF Plans

LEMMA NothingLeft == <<>> \in Remainders /\ Range(<<>>) = {}
BY DEF Remainders, Range

\* A step that is up, and what is left behind it.
LEMMA NextStep ==
  ASSUME NEW q \in Remainders, q # <<>>
  PROVE  /\ Tail(q) \in Remainders
         /\ Range(q) = {Head(q)} \cup Range(Tail(q))
         /\ InOrder(Head(q), Range(Tail(q)))
<1>0. PICK p \in Plans : \E n \in 0..Len(p) : q = Rest(p, n)
  BY DEF Remainders
<1>1. PICK n \in 0..Len(p) : q = Rest(p, n)
  BY <1>0
<1>2. p \in Seq(Steps) /\ Len(p) \in Nat
  BY PlansAreSequences
<1>3. n < Len(p)
  BY <1>1, <1>2, WhatIsLeft
<1>4. /\ Range(q) = After(p, n) /\ Head(q) = p[n + 1]
      /\ n + 1 \in 0..Len(p) /\ Tail(q) = Rest(p, n + 1)
  BY <1>1, <1>2, <1>3, WhatIsLeft
<1>5. Range(Tail(q)) = After(p, n + 1)
  BY <1>2, <1>4, WhatIsLeft
<1>6. After(p, n) = {p[n + 1]} \cup After(p, n + 1)
  <2>1. (n + 1)..Len(p) = {n + 1} \cup (n + 1 + 1)..Len(p)
    BY <1>2, <1>3
  <2> QED BY <2>1 DEF After
<1>7. Tail(q) \in Remainders
  <2>1. Tail(q) \in {Rest(p, m) : m \in 0..Len(p)}
    BY <1>4
  <2> QED BY <2>1 DEF Remainders
<1>8. InOrder(p[n + 1], After(p, n + 1))
  BY <1>2, <1>3, PlansAreInOrder
<1> QED BY <1>4, <1>5, <1>6, <1>7, <1>8

LEMMA RemaindersAreSequences == \A q \in Remainders : q \in Seq(Steps)
<1> SUFFICES ASSUME NEW q \in Remainders PROVE q \in Seq(Steps)
  OBVIOUS
<1>1. CASE q = <<>>
  BY <1>1
<1>2. CASE q # <<>>
  <2>1. PICK p \in Plans : \E n \in 0..Len(p) : q = Rest(p, n)
    BY <1>2 DEF Remainders
  <2>2. PICK n \in 0..Len(p) : q = Rest(p, n)
    BY <2>1
  <2> QED BY <2>2, PlansAreSequences, WhatIsLeft
<1> QED BY <1>1, <1>2

\* A whole plan.
LEMMA WholePlan ==
  ASSUME NEW p \in Plans
  PROVE  p \in Remainders /\ p \in Seq(Steps) /\ Range(p) = After(p, 0)
<1>1. p \in Seq(Steps) /\ Len(p) \in Nat /\ DOMAIN p = 1..Len(p)
  BY PlansAreSequences, LenProperties
<1>2. Rest(p, 0) = p
  BY <1>1 DEF Rest
<1>3. 0 \in 0..Len(p)
  BY <1>1
<1> QED BY <1>1, <1>2, <1>3, WhatIsLeft DEF Remainders

------------------------------------------------------------------------------
(* The initial states, and the steps of main.                              *)

LEMMA InitInv == Init => SupervisorInv
<1> SUFFICES ASSUME Init PROVE SupervisorInv
  OBVIOUS
<1>1. todo = MainPlan /\ todo \in Remainders /\ todo \in Seq(Steps) /\ Left = After(MainPlan, 0)
  BY WholePlan DEF Init, Plans, Left
<1>2. DOMAIN rollouts \subseteq Sessions /\ Range(rollouts) \subseteq 0..MaxTime
  <2>1. PICK S \in SUBSET Sessions : rollouts \in [S -> {0}]
    BY DEF Init
  <2> QED BY <2>1, SupervisorAssumption DEF Range
<1>3. TypeOK
  <2>1. kids \in 0..MaxKids /\ zeros \in Nat
    BY SupervisorAssumption DEF Init
  <2>2. unhandled \in BOOLEAN /\ requested \in BOOLEAN /\ violated \in BOOLEAN
        /\ zeroLost \in BOOLEAN
    BY DEF Init
  <2>3. jobWrote \in [Sessions -> 0..MaxTime]
    BY SupervisorAssumption DEF Init
  <2> QED BY <1>1, <1>2, <2>1, <2>2, <2>3 DEF Init, TypeOK
<1>4. 0 \in 0..20
  OBVIOUS
<1>5. FollowsPlan
  <2>1. /\ "CreateProcess" \in Left /\ "AssignProcessToJobObject" \in Left
        /\ "StartMonitor" \in Left /\ "StartTraceThread" \in Left /\ "OpenTrace" \in Left
        /\ "JoinTrace" \in Left /\ "CloseHandles" \in Left /\ "CreateJobObject" \in Left
        /\ "AwaitRunner" \notin Left
    BY <1>1, <1>4, MainPlanLeft
  <2> QED BY <2>1
             DEF Init, FollowsPlan, RootFollowsPlan, MonitorFollowsPlan, TraceFollowsPlan,
                 JobFollowsPlan, ObservedUntilStopped, HandoverFollowsPlan, ManagedRun,
                 RootAlive, ActiveTracer
<1> QED BY <1>1, <1>3, <1>5
           DEF SupervisorInv, Init, Aborted, EmptyForGood, ClosedIsUnused, Succeeded, ManagedRun,
               RootAlive

\* The step that is up, and what follows it.
LEMMA StepForward ==
  ASSUME SupervisorInv, todo # <<>>, todo' = Tail(todo)
  PROVE  /\ todo' \in Remainders /\ ~Aborted
         /\ Left = {Head(todo)} \cup Left'
         /\ InOrder(Head(todo), Left')
BY NextStep DEF SupervisorInv, Left, Aborted, Done

\* The branches that end the program.
LEMMA NothingLeftToDo ==
  ASSUME todo' = <<>>
  PROVE  todo' \in Remainders /\ Left' = {}
BY NothingLeft DEF Left

LEMMA UndoPlansAre ==
  /\ UndoStart \in Remainders /\ UndoJob \in Remainders /\ UndoTrace \in Remainders
  /\ StopAndUndoJob \in Remainders /\ StartHcsSandboxReexecution \in Remainders
  /\ Range(UndoStart) = After(UndoStart, 0) /\ Range(UndoJob) = After(UndoJob, 0)
  /\ Range(UndoTrace) = After(UndoTrace, 0)
  /\ Range(StopAndUndoJob) = After(StopAndUndoJob, 0)
  /\ Range(StartHcsSandboxReexecution) = After(StartHcsSandboxReexecution, 0)
BY WholePlan DEF Plans

\* What an error branch has left to do.
LEMMA FailedStep ==
  ASSUME NEW step \in Names, todo' = AfterFailed(step)
  PROVE  /\ step \in {"FindHome", "CreateProcess"} \cup HcsNames => todo' = <<>>
         /\ step \in {"CreateJobObject", "CreateIoCompletionPort", "SetInformationJobObject",
                      "AssignProcessToJobObject", "StartMonitor"} => todo' = UndoStart
         /\ step \in {"Bootstrap", "OpenTrace"} => todo' = UndoJob
         /\ step = "StartTraceThread" => todo' = StopAndUndoJob
         /\ step = "Resume" => todo' = UndoTrace
<1>1. Range(StartHcsSandboxReexecution) = HcsNames
  <2>1. DOMAIN StartHcsSandboxReexecution = 1..5
    BY DEF StartHcsSandboxReexecution
  <2>2. \A i \in 1..5 : StartHcsSandboxReexecution[i] =
          CASE i = 1 -> "FindSession" [] i = 2 -> "FindRunner" [] i = 3 -> "InstallSupportFiles"
            [] i = 4 -> "CreateRunner" [] i = 5 -> "AwaitRunner"
    BY DEF StartHcsSandboxReexecution
  <2> HIDE DEF StartHcsSandboxReexecution
  <2> QED BY <2>1, <2>2 DEF Range, HcsNames
<1> HIDE DEF StartHcsSandboxReexecution
<1> QED BY <1>1 DEF AfterFailed, HcsNames, StopAndUndoJob

------------------------------------------------------------------------------
(* Types.                                                                  *)

\* The types of what todo is not among.
StateOK == TypeOK /\ todo \in Remainders

\* A step of main leaves the rest of a plan, a clean-up, or nothing.
LEMMA MainKeepsAPlan ==
  ASSUME StateOK, Main
  PROVE  todo' \in Remainders /\ exitCode' \in {"none", "0", "1", "runner", "aborted"}
<1>1. \A name : Step(name) => todo' \in Remainders /\ exitCode' = exitCode
  BY NextStep DEF Step, StateOK
<1>2. \A name, fault : Abort(name, fault) => todo' \in Remainders /\ exitCode' = "aborted"
  BY NothingLeft DEF Abort
<1>3. \A name \in {"FindHome", "CreateProcess", "CreateJobObject", "CreateIoCompletionPort",
                   "SetInformationJobObject", "AssignProcessToJobObject", "StartMonitor",
                   "Bootstrap", "OpenTrace", "StartTraceThread", "Resume", "FindRunner",
                   "InstallSupportFiles", "CreateRunner"} :
        \A fault : Fail(name, fault) => todo' \in Remainders /\ exitCode' = "1"
  <2> SUFFICES ASSUME NEW name \in Names \ {"FindProvider"}, todo' = AfterFailed(name),
                      name \in {"FindHome", "CreateProcess", "CreateJobObject",
                   "CreateIoCompletionPort",
                   "SetInformationJobObject", "AssignProcessToJobObject", "StartMonitor",
                   "Bootstrap", "OpenTrace", "StartTraceThread", "Resume", "FindRunner",
                   "InstallSupportFiles", "CreateRunner"}
               PROVE  todo' \in Remainders
    BY DEF Fail, Names
  <2> QED BY FailedStep, UndoPlansAre, NothingLeft DEF HcsNames
<1>4. Decide => todo' \in Remainders /\ exitCode' \in {exitCode, "0", "1"}
  BY NothingLeft, UndoPlansAre DEF Decide
<1>5. FindSession => todo' \in Remainders /\ exitCode' \in {exitCode, "1"}
  BY <1>1, NothingLeft DEF FindSession
<1>6. AwaitRunner => todo' \in Remainders /\ exitCode' = "runner"
  BY NothingLeft DEF AwaitRunner
<1>7. exitCode \in {"none", "0", "1", "runner", "aborted"}
  BY DEF StateOK, TypeOK
<1> QED BY <1>1, <1>2, <1>3, <1>4, <1>5, <1>6, <1>7
           DEF Main, FindHome, CreateProcess, CreateJobObject, CreateIoCompletionPort,
               SetInformationJobObject, AssignProcessToJobObject, StartMonitor, FindProvider,
               Bootstrap, OpenTrace, StartTraceThread, Resume, Wait, StopTrace, StopThrows,
               JoinTrace, Terminate, PostZero, JoinMonitor, CloseHandles, FindRunner,
               InstallSupportFiles, CreateRunner

\* What Become needs and leaves.
LEMMA BecomeType ==
  ASSUME TypeOK, NEW r \in {"none", "suspended", "running", "ended"}, NEW k \in 0..MaxKids,
         Become(r, k)
  PROVE  /\ root' = r /\ kids' = k /\ zeros' \in Nat /\ zeroLost' \in BOOLEAN
         /\ assigned' = assigned
<1>1. zeroLost \in BOOLEAN /\ zeros \in Nat
  BY DEF TypeOK
<1>2. root' = r /\ kids' = k /\ assigned' = assigned
  BY DEF Become
<1>3. (zeros' = zeros \/ zeros' = zeros + 1) /\ (zeroLost' = zeroLost \/ zeroLost' = TRUE)
  BY DEF Become
<1>4. zeros' \in Nat
  BY <1>1, <1>3
<1>5. zeroLost' \in BOOLEAN
  BY <1>1, <1>3, Zenon
<1> QED BY <1>2, <1>4, <1>5

\* The time of a write is a number, and not before the run.
LEMMA NowIsKnown ==
  ASSUME TypeOK
  PROVE  LET now == Max({1} \cup {rollouts[r] : r \in DOMAIN rollouts}) IN
           now \in Nat /\ now >= 1 /\ \A r \in DOMAIN rollouts : rollouts[r] <= now
<1> DEFINE T == {1} \cup {rollouts[r] : r \in DOMAIN rollouts}
<1>1. T \in SUBSET 0..(MaxTime + 1) /\ T # {} /\ MaxTime + 1 \in Nat /\ 1 \in T
  BY SupervisorAssumption DEF TypeOK, Range
<1> HIDE DEF T
<1>2. Max(T) \in T /\ \A y \in T : Max(T) >= y
  BY <1>1, MaxIsGreatest
<1>3. Max(T) \in Nat /\ Max(T) >= 1
  <2>1. Max(T) \in 0..(MaxTime + 1)
    BY <1>1, <1>2
  <2> QED BY <1>1, <1>2, <2>1
<1>4. \A r \in DOMAIN rollouts : rollouts[r] <= Max(T)
  BY <1>2 DEF T
<1> QED BY <1>3, <1>4 DEF T

LEMMA TypeStep ==
  ASSUME StateOK, [Next]_vars
  PROVE  StateOK'
<1> USE SupervisorAssumption
<1>0. CASE UNCHANGED vars
  BY <1>0 DEF StateOK, TypeOK, vars, processVars, threadVars, alertVars, fileVars, runnerVars
<1>1. ASSUME Main
      PROVE  todo' \in Remainders /\ todo' \in Seq(Steps)
             /\ exitCode' \in {"none", "0", "1", "runner", "aborted"}
  BY <1>1, MainKeepsAPlan, RemaindersAreSequences
<1>2. todo \in Remainders /\ todo \in Seq(Steps)
  BY DEF StateOK, TypeOK
<1>3. ASSUME FindHome PROVE StateOK'
  <2>1. Main
    BY <1>3 DEF Main
  <2> QED BY <1>1, <1>3, <2>1
             DEF StateOK, FindHome, Step, Fail, TypeOK, processVars, threadVars, alertVars,
                fileVars,
                 runnerVars
<1>4. ASSUME CreateProcess PROVE StateOK'
  <2>1. Main
    BY <1>4 DEF Main
  <2> QED BY <1>1, <1>4, <2>1
             DEF StateOK, CreateProcess, Step, Fail, TypeOK, processVars, threadVars, alertVars,
                fileVars,
                 runnerVars
<1>5. ASSUME CreateJobObject PROVE StateOK'
  <2>1. Main
    BY <1>5 DEF Main
  <2> QED BY <1>1, <1>5, <2>1
             DEF StateOK, CreateJobObject, Step, Fail, TypeOK, processVars, threadVars,
                 alertVars, fileVars, runnerVars
<1>6. ASSUME CreateIoCompletionPort PROVE StateOK'
  <2>1. Main
    BY <1>6 DEF Main
  <2> QED BY <1>1, <1>6, <2>1
             DEF StateOK, CreateIoCompletionPort, Step, Fail, TypeOK, processVars, threadVars,
                 alertVars, fileVars, runnerVars
<1>7. ASSUME SetInformationJobObject PROVE StateOK'
  <2>1. Main
    BY <1>7 DEF Main
  <2> QED BY <1>1, <1>7, <2>1
             DEF StateOK, SetInformationJobObject, Step, Fail, TypeOK, processVars, threadVars,
                 alertVars, fileVars, runnerVars
<1>8. ASSUME AssignProcessToJobObject PROVE StateOK'
  <2>1. Main
    BY <1>8 DEF Main
  <2>2. UNCHANGED <<root, kids, job, zeros, monitor, joinable, session, tracer, traceFailed,
                   unhandled, requested, violated, zeroLost, rollouts, jobWrote, resumed,
                   runner>>
    BY <1>8
       DEF AssignProcessToJobObject, Step, Fail, processVars, threadVars, alertVars, fileVars,
           runnerVars
  <2>3. assigned' = assigned \/ assigned' = TRUE
    BY <1>8
       DEF AssignProcessToJobObject, Step, Fail, processVars, threadVars, alertVars, fileVars,
           runnerVars
  <2>4. assigned' \in BOOLEAN
    BY <2>3, Zenon DEF StateOK, TypeOK
  <2> QED BY <1>1, <2>1, <2>2, <2>4 DEF StateOK, TypeOK
<1>9. ASSUME StartMonitor PROVE StateOK'
  <2>1. Main
    BY <1>9 DEF Main
  <2>2. UNCHANGED <<root, assigned, kids, job, zeros, session, tracer, traceFailed, unhandled,
                   requested, violated, zeroLost, rollouts, jobWrote, resumed, runner>>
    BY <1>9 DEF StartMonitor, Step, Fail, processVars, threadVars, alertVars, fileVars, runnerVars
  <2>3. joinable' = joinable \/ joinable' = TRUE
    BY <1>9 DEF StartMonitor, Step, Fail, processVars, threadVars, alertVars, fileVars, runnerVars
  <2>4. monitor' = monitor \/ monitor' = "reading"
    BY <1>9 DEF StartMonitor, Step, Fail, processVars, threadVars, alertVars, fileVars, runnerVars
  <2>5. joinable' \in BOOLEAN
    BY <2>3, Zenon DEF StateOK, TypeOK
  <2> QED BY <1>1, <2>1, <2>2, <2>4, <2>5 DEF StateOK, TypeOK
<1>10. ASSUME FindProvider PROVE StateOK'
  <2>1. Main
    BY <1>10 DEF Main
  <2> QED BY <1>1, <1>10, <2>1
             DEF StateOK, FindProvider, Step, Abort, TypeOK, processVars, threadVars, alertVars,
                fileVars,
                 runnerVars
<1>11. ASSUME Bootstrap PROVE StateOK'
  <2>1. Main
    BY <1>11 DEF Main
  <2> QED BY <1>1, <1>11, <2>1
             DEF StateOK, Bootstrap, Step, Fail, TypeOK, processVars, threadVars, alertVars,
                fileVars,
                 runnerVars
<1>12. ASSUME OpenTrace PROVE StateOK'
  <2>1. Main
    BY <1>12 DEF Main
  <2> QED BY <1>1, <1>12, <2>1
             DEF StateOK, OpenTrace, Step, Fail, TypeOK, processVars, threadVars, alertVars,
                fileVars,
                 runnerVars
<1>13. ASSUME StartTraceThread PROVE StateOK'
  <2>1. Main
    BY <1>13 DEF Main
  <2>2. UNCHANGED <<root, assigned, kids, job, zeros, monitor, joinable, session, traceFailed,
                   unhandled, requested, violated, zeroLost, rollouts, jobWrote, resumed,
                   runner>>
    BY <1>13 DEF StartTraceThread, Step, Fail, processVars, threadVars, alertVars, fileVars,
                runnerVars
  <2>3. tracer' = tracer \/ tracer' = "processing"
    BY <1>13 DEF StartTraceThread, Step, Fail, processVars, threadVars, alertVars, fileVars,
                runnerVars
  <2> QED BY <1>1, <2>1, <2>2, <2>3 DEF StateOK, TypeOK
<1>14. ASSUME Resume PROVE StateOK'
  <2>1. Main
    BY <1>14 DEF Main
  <2> QED BY <1>1, <1>14, <2>1
             DEF StateOK, Resume, Step, Fail, TypeOK, processVars, threadVars, alertVars, fileVars,
                 runnerVars
<1>15. ASSUME Wait PROVE StateOK'
  <2>1. Main
    BY <1>15 DEF Main
  <2>2. UNCHANGED <<root, assigned, kids, job, zeros, monitor, session, tracer, traceFailed,
                   unhandled, requested, violated, zeroLost, rollouts, jobWrote, resumed,
                   runner>>
    BY <1>15 DEF Wait, Step, processVars, threadVars, alertVars, fileVars, runnerVars
  <2>3. joinable' = joinable \/ joinable' = FALSE
    BY <1>15 DEF Wait, Step, processVars, threadVars, alertVars, fileVars, runnerVars
  <2>4. joinable' \in BOOLEAN
    BY <2>3, Zenon DEF StateOK, TypeOK
  <2> QED BY <1>1, <2>1, <2>2, <2>4 DEF StateOK, TypeOK
<1>16. ASSUME StopTrace PROVE StateOK'
  <2>1. Main
    BY <1>16 DEF Main
  <2> QED BY <1>1, <1>16, <2>1
             DEF StateOK, StopTrace, Step, TypeOK, processVars, threadVars, alertVars, fileVars,
                runnerVars
<1>17. ASSUME StopThrows PROVE StateOK'
  <2>1. Main
    BY <1>17 DEF Main
  <2> QED BY <1>1, <1>17, <2>1
             DEF StateOK, StopThrows, Abort, TypeOK, processVars, threadVars, alertVars, fileVars,
                 runnerVars
<1>18. ASSUME JoinTrace PROVE StateOK'
  <2>1. Main
    BY <1>18 DEF Main
  <2> QED BY <1>1, <1>18, <2>1
             DEF StateOK, JoinTrace, Step, TypeOK, processVars, threadVars, alertVars, fileVars,
                runnerVars
<1>19. ASSUME Terminate PROVE StateOK'
  <2>1. UNCHANGED <<job, threadVars, alertVars>>
    BY <1>19 DEF Terminate
  <2>2. \E r \in {root, "ended"} : \E k \in {kids, 0} : Become(r, k)
    BY <1>19 DEF Terminate, TerminateManagedJob, TerminateRoot
  <2>3. root \in {"none", "suspended", "running", "ended"} /\ kids \in 0..MaxKids
    BY DEF StateOK, TypeOK
  <2>4. /\ root' \in {"none", "suspended", "running", "ended"} /\ kids' \in 0..MaxKids
        /\ zeros' \in Nat /\ zeroLost' \in BOOLEAN /\ assigned' = assigned
    BY <2>2, <2>3, BecomeType DEF StateOK
  <2>5. Main
    BY <1>19 DEF Main
  <2> QED BY <1>1, <2>1, <2>4, <2>5
             DEF StateOK, TypeOK, processVars, threadVars, alertVars, fileVars, runnerVars
<1>20. ASSUME PostZero PROVE StateOK'
  <2>1. Main
    BY <1>20 DEF Main
  <2> QED BY <1>1, <1>20, <2>1
             DEF StateOK, PostZero, Step, TypeOK, processVars, threadVars, alertVars, fileVars,
                runnerVars
<1>21. ASSUME JoinMonitor PROVE StateOK'
  <2>1. Main
    BY <1>21 DEF Main
  <2>2. UNCHANGED <<root, assigned, kids, job, zeros, monitor, session, tracer, traceFailed,
                   unhandled, requested, violated, zeroLost, rollouts, jobWrote, resumed,
                   runner>>
    BY <1>21 DEF JoinMonitor, Step, processVars, threadVars, alertVars, fileVars, runnerVars
  <2>3. joinable' = joinable \/ joinable' = FALSE
    BY <1>21 DEF JoinMonitor, Step, processVars, threadVars, alertVars, fileVars, runnerVars
  <2>4. joinable' \in BOOLEAN
    BY <2>3, Zenon DEF StateOK, TypeOK
  <2> QED BY <1>1, <2>1, <2>2, <2>4 DEF StateOK, TypeOK
<1>22. ASSUME CloseHandles PROVE StateOK'
  <2>1. Main
    BY <1>22 DEF Main
  <2> QED BY <1>1, <1>22, <2>1
             DEF StateOK, CloseHandles, Step, TypeOK, processVars, threadVars, alertVars, fileVars,
                 runnerVars
<1>23. ASSUME Decide PROVE StateOK'
  <2>1. Main
    BY <1>23 DEF Main
  <2> QED BY <1>1, <1>23, <2>1
             DEF StateOK, Decide, TypeOK, processVars, threadVars, alertVars, fileVars, runnerVars
<1>24. ASSUME FindSession PROVE StateOK'
  <2>1. Main
    BY <1>24 DEF Main
  <2>2. CASE UNCHANGED <<job, processVars, threadVars, alertVars>>
    BY <1>1, <2>1, <2>2 DEF StateOK, TypeOK, processVars, threadVars, alertVars, fileVars,
                runnerVars
  <2>3. CASE /\ resumed' \in FindInterruptedSessionId
             /\ UNCHANGED <<job, processVars, threadVars, unhandled, requested, violated,
                            fileVars, runner>>
    <3>1. resumed' \in Sessions
      BY <2>3 DEF FindInterruptedSessionId, RecentRollouts, StateOK, TypeOK
    <3> QED BY <1>1, <2>1, <2>3, <3>1
               DEF StateOK, TypeOK, processVars, threadVars, alertVars, fileVars, runnerVars
  <2> QED BY <1>24, <2>2, <2>3 DEF FindSession
<1>25. ASSUME FindRunner PROVE StateOK'
  <2>1. Main
    BY <1>25 DEF Main
  <2> QED BY <1>1, <1>25, <2>1
             DEF StateOK, FindRunner, Step, Fail, TypeOK, processVars, threadVars, alertVars,
                fileVars,
                 runnerVars
<1>26. ASSUME InstallSupportFiles PROVE StateOK'
  <2>1. Main
    BY <1>26 DEF Main
  <2> QED BY <1>1, <1>26, <2>1
             DEF StateOK, InstallSupportFiles, Step, Fail, TypeOK, processVars, threadVars,
                 alertVars, fileVars, runnerVars
<1>27. ASSUME CreateRunner PROVE StateOK'
  <2>1. Main
    BY <1>27 DEF Main
  <2>2. UNCHANGED <<root, assigned, kids, job, zeros, monitor, joinable, session, tracer,
                   traceFailed, unhandled, requested, violated, zeroLost,
                   rollouts, jobWrote, resumed>>
    BY <1>27 DEF CreateRunner, Step, Fail, processVars, threadVars, alertVars, fileVars, runnerVars
  <2>3. runner' = runner \/ runner' = "running"
    BY <1>27 DEF CreateRunner, Step, Fail, processVars, threadVars, alertVars, fileVars, runnerVars
  <2> QED BY <1>1, <2>1, <2>2, <2>3 DEF StateOK, TypeOK
<1>28. ASSUME AwaitRunner PROVE StateOK'
  <2>1. Main
    BY <1>28 DEF Main
  <2> QED BY <1>1, <1>28, <2>1
             DEF StateOK, AwaitRunner, TypeOK, processVars, threadVars, alertVars, fileVars,
                runnerVars
<1>29. ASSUME Main PROVE StateOK'
  BY <1>3, <1>4, <1>5, <1>6, <1>7, <1>8, <1>9, <1>10, <1>11, <1>12, <1>13, <1>14, <1>15, <1>16,
     <1>17, <1>18, <1>19, <1>20, <1>21, <1>22, <1>23, <1>24, <1>25, <1>26, <1>27, <1>28, <1>29
     DEF Main
<1>30. ASSUME HandleViolation PROVE StateOK'
  <2>1. UNCHANGED <<todo, exitCode, job, processVars, threadVars, violated, fileVars, runnerVars>>
    BY <1>30 DEF HandleViolation
  <2>2. unhandled' \in BOOLEAN /\ requested' \in BOOLEAN
    BY <1>30, Zenon DEF HandleViolation
  <2> QED BY <1>2, <2>1, <2>2 DEF StateOK, TypeOK, processVars, threadVars, alertVars, fileVars,
                runnerVars
<1>31. ASSUME MonitorJob PROVE StateOK'
  BY <1>2, <1>31 DEF StateOK, MonitorJob, TypeOK, processVars, threadVars, alertVars, fileVars,
                runnerVars
<1>32. ASSUME MonitorFails PROVE StateOK'
  BY <1>2, <1>32 DEF StateOK, MonitorFails, TypeOK, processVars, threadVars, alertVars, fileVars,
                runnerVars
<1>33. ASSUME ProcessReturns PROVE StateOK'
  BY <1>2, <1>33
     DEF StateOK, ProcessReturns, TypeOK, processVars, threadVars, alertVars, fileVars, runnerVars
<1>34. ASSUME ProcessThrows PROVE StateOK'
  BY <1>2, <1>34 DEF StateOK, ProcessThrows, TypeOK, processVars, threadVars, alertVars, fileVars,
                runnerVars
<1>35. ASSUME Violate PROVE StateOK'
  BY <1>2, <1>35 DEF StateOK, Violate, TypeOK, processVars, threadVars, alertVars, fileVars,
                runnerVars
<1>36. ASSUME RunnerEnds PROVE StateOK'
  BY <1>2, <1>36 DEF StateOK, RunnerEnds, TypeOK, processVars, threadVars, alertVars, fileVars,
                runnerVars
<1>37. ASSUME SessionStopped PROVE StateOK'
  BY <1>2, <1>37
     DEF StateOK, SessionStopped, TypeOK, processVars, threadVars, alertVars, fileVars, runnerVars
<1>38. ASSUME CatchTraceException PROVE StateOK'
  <2>1. UNCHANGED <<todo, exitCode, job, monitor, joinable, session, traceFailed, alertVars>>
        /\ tracer' \in {tracer, "returned"}
    BY <1>38 DEF CatchTraceException, threadVars
  <2>2. root \in {"none", "suspended", "running", "ended"} /\ kids \in 0..MaxKids
    BY DEF StateOK, TypeOK
  <2>3. \E r \in {root, "ended"} : \E k \in 0..MaxKids : Become(r, k)
    BY <1>38, <2>2 DEF CatchTraceException, TerminateManagedJob, TerminateRoot
  <2>4. /\ root' \in {"none", "suspended", "running", "ended"} /\ kids' \in 0..MaxKids
        /\ zeros' \in Nat /\ zeroLost' \in BOOLEAN /\ assigned' = assigned
    BY <2>2, <2>3, BecomeType DEF StateOK
  <2> QED BY <1>2, <2>1, <2>4 DEF StateOK, TypeOK, processVars, threadVars, alertVars, fileVars,
                runnerVars
<1>39. ASSUME RootEnds PROVE StateOK'
  <2>1. UNCHANGED <<todo, exitCode, job, monitor, joinable, session, traceFailed, alertVars>>
        /\ tracer' \in {tracer, "returned"}
    BY <1>39 DEF RootEnds, threadVars
  <2>2. root \in {"none", "suspended", "running", "ended"} /\ kids \in 0..MaxKids
    BY DEF StateOK, TypeOK
  <2>3. \E r \in {root, "ended"} : \E k \in 0..MaxKids : Become(r, k)
    BY <1>39, <2>2 DEF RootEnds
  <2>4. /\ root' \in {"none", "suspended", "running", "ended"} /\ kids' \in 0..MaxKids
        /\ zeros' \in Nat /\ zeroLost' \in BOOLEAN /\ assigned' = assigned
    BY <2>2, <2>3, BecomeType DEF StateOK
  <2> QED BY <1>2, <2>1, <2>4 DEF StateOK, TypeOK, processVars, threadVars, alertVars, fileVars,
                runnerVars
<1>40. ASSUME KidStarts PROVE StateOK'
  <2>1. UNCHANGED <<todo, exitCode, job, monitor, joinable, session, traceFailed, alertVars>>
        /\ tracer' \in {tracer, "returned"}
    BY <1>40 DEF KidStarts, threadVars
  <2>2. root \in {"none", "suspended", "running", "ended"} /\ kids \in 0..MaxKids
    BY DEF StateOK, TypeOK
  <2>3. \E r \in {root, "ended"} : \E k \in 0..MaxKids : Become(r, k)
    BY <1>40, <2>2 DEF KidStarts
  <2>4. /\ root' \in {"none", "suspended", "running", "ended"} /\ kids' \in 0..MaxKids
        /\ zeros' \in Nat /\ zeroLost' \in BOOLEAN /\ assigned' = assigned
    BY <2>2, <2>3, BecomeType DEF StateOK
  <2> QED BY <1>2, <2>1, <2>4 DEF StateOK, TypeOK, processVars, threadVars, alertVars, fileVars,
                runnerVars
<1>41. ASSUME KidEnds PROVE StateOK'
  <2>1. UNCHANGED <<todo, exitCode, job, monitor, joinable, session, traceFailed, alertVars>>
        /\ tracer' \in {tracer, "returned"}
    BY <1>41 DEF KidEnds, threadVars
  <2>2. root \in {"none", "suspended", "running", "ended"} /\ kids \in 0..MaxKids
    BY DEF StateOK, TypeOK
  <2>3. \E r \in {root, "ended"} : \E k \in 0..MaxKids : Become(r, k)
    BY <1>41, <2>2 DEF KidEnds
  <2>4. /\ root' \in {"none", "suspended", "running", "ended"} /\ kids' \in 0..MaxKids
        /\ zeros' \in Nat /\ zeroLost' \in BOOLEAN /\ assigned' = assigned
    BY <2>2, <2>3, BecomeType DEF StateOK
  <2> QED BY <1>2, <2>1, <2>4 DEF StateOK, TypeOK, processVars, threadVars, alertVars, fileVars,
                runnerVars
<1>42. ASSUME NEW s \in Sessions, WriteSession(s) \/ OtherAgentWrites(s) PROVE StateOK'
  <2>1. PICK t \in 1..MaxTime :
          Write(s, t) /\ (jobWrote' = jobWrote \/ jobWrote' = [jobWrote EXCEPT ![s] = t])
    BY <1>42 DEF WriteSession, OtherAgentWrites
  <2>2. DOMAIN rollouts' \subseteq Sessions /\ Range(rollouts') \subseteq 0..MaxTime
    <3>1. rollouts' = [r \in DOMAIN rollouts \cup {s} |-> IF r = s THEN t ELSE rollouts[r]]
      BY <2>1 DEF Write
    <3>2. \A r \in DOMAIN rollouts : rollouts[r] \in 0..MaxTime
      BY DEF StateOK, TypeOK, Range
    <3>3. \A r \in DOMAIN rollouts' : rollouts'[r] \in 0..MaxTime
      BY <3>1, <3>2
    <3> QED BY <3>1, <3>3 DEF StateOK, TypeOK, Range
  <2>3. jobWrote' \in [Sessions -> 0..MaxTime]
    BY <2>1 DEF StateOK, TypeOK
  <2>4. UNCHANGED <<todo, exitCode, job, processVars, threadVars, unhandled, requested, violated,
                    runnerVars>>
    BY <2>1 DEF Write
  <2> QED BY <1>2, <2>2, <2>3, <2>4 DEF StateOK, TypeOK, processVars, threadVars, runnerVars
<1> QED
  BY <1>0, <1>29, <1>30, <1>31, <1>32, <1>33, <1>34, <1>35, <1>36, <1>37, <1>38, <1>39, <1>40,
     <1>41, <1>42
     DEF Next, Tracer, Processes

------------------------------------------------------------------------------
(* Steps that leave the invariant as it is, but for what is left.          *)

\* What a step must keep besides the types.
Safe ==
  /\ Aborted => Done /\ runner = "none"
  /\ ~Aborted => FollowsPlan
  /\ EmptyForGood /\ ClosedIsUnused /\ Succeeded

\* All that the invariant speaks of, but what is left.
Rest0 == <<root, assigned, kids, zeros, job, monitor, joinable, session, tracer, traceFailed,
           requested, rollouts, resumed, runner>>

\* A step that is no milestone.
LEMMA PassingStep ==
  ASSUME SupervisorInv, NEW name, name \notin Milestones, Step(name), UNCHANGED Rest0
  PROVE  Safe'
<1>1. /\ Left = {name} \cup Left' /\ ~Aborted /\ ~Aborted' /\ exitCode' = exitCode
      /\ todo # <<>>
  BY StepForward DEF Step, Aborted
<1>2. FollowsPlan /\ EmptyForGood /\ ClosedIsUnused /\ Succeeded
  BY <1>1 DEF SupervisorInv
<1>3. \A m \in Milestones : m \in Left' <=> m \in Left
  BY <1>1
<1>4. RootFollowsPlan'
  BY <1>1, <1>2, <1>3 DEF Milestones, Rest0, FollowsPlan, RootFollowsPlan, ManagedRun
<1>5. MonitorFollowsPlan'
  BY <1>1, <1>2, <1>3 DEF Milestones, Rest0, FollowsPlan, MonitorFollowsPlan, ManagedRun, RootAlive
<1>6. TraceFollowsPlan'
  BY <1>1, <1>2, <1>3 DEF Milestones, Rest0, FollowsPlan, TraceFollowsPlan, ActiveTracer
<1>7. JobFollowsPlan'
  BY <1>1, <1>2, <1>3 DEF Milestones, Rest0, FollowsPlan, JobFollowsPlan
<1>8. ObservedUntilStopped'
  BY <1>1, <1>2, <1>3 DEF Milestones, Rest0, FollowsPlan, ObservedUntilStopped, ManagedRun
<1>9. HandoverFollowsPlan'
  BY <1>1, <1>2, <1>3 DEF Milestones, Rest0, FollowsPlan, HandoverFollowsPlan, LastWritten
<1>10. EmptyForGood' /\ ClosedIsUnused' /\ Succeeded'
  BY <1>1, <1>2 DEF Rest0, EmptyForGood, ClosedIsUnused, Succeeded, ManagedRun, RootAlive
<1> QED BY <1>1, <1>4, <1>5, <1>6, <1>7, <1>8, <1>9, <1>10 DEF Safe, FollowsPlan

\* An exception ends the program before the container is started.
LEMMA AbortingStep ==
  ASSUME SupervisorInv, NEW name, name # "AwaitRunner", NEW fault, Abort(name, fault)
  PROVE  Safe'
<1>1. ~Aborted /\ name \in Left /\ todo # <<>>
  <2>1. todo # <<>> /\ Head(todo) = name
    BY DEF Abort
  <2> QED BY <2>1, NextStep DEF SupervisorInv, Aborted, Done, Left
<1>2. FollowsPlan /\ EmptyForGood /\ ClosedIsUnused
  BY <1>1 DEF SupervisorInv
<1>3. runner = "none"
  BY <1>1, <1>2 DEF FollowsPlan, HandoverFollowsPlan
<1>4. /\ todo' = <<>> /\ exitCode' = "aborted"
      /\ UNCHANGED <<root, assigned, kids, zeros, job, monitor, tracer, runner>>
  BY DEF Abort, processVars, threadVars, alertVars, fileVars, runnerVars
<1> QED BY <1>2, <1>3, <1>4
           DEF Safe, Aborted, Done, EmptyForGood, ClosedIsUnused, Succeeded, ManagedRun,
               RootAlive

\* A call of main that fails leaves the clean-up of its branch to do.
LEMMA FailingStep ==
  ASSUME SupervisorInv, NEW name \in Names, NEW fault, Fail(name, fault),
         name \in {"FindHome", "CreateProcess", "CreateJobObject", "CreateIoCompletionPort",
                  "SetInformationJobObject", "AssignProcessToJobObject", "StartMonitor",
                  "Bootstrap", "OpenTrace", "StartTraceThread", "Resume", "FindRunner",
                  "InstallSupportFiles", "CreateRunner"}
  PROVE  Safe'
<1>1. /\ todo # <<>> /\ Head(todo) = name /\ todo' = AfterFailed(name) /\ exitCode' = "1"
      /\ UNCHANGED Rest0
  BY DEF Fail, Rest0, processVars, threadVars, alertVars, fileVars, runnerVars
<1>2. /\ ~Aborted /\ ~Aborted' /\ name \in Left
      /\ Left = {name} \cup Range(Tail(todo)) /\ InOrder(name, Range(Tail(todo)))
  BY <1>1, NextStep DEF SupervisorInv, Aborted, Done, Left
<1>3. FollowsPlan /\ EmptyForGood /\ ClosedIsUnused /\ Succeeded
  BY <1>2 DEF SupervisorInv
<1>4. EmptyForGood' /\ ClosedIsUnused' /\ Succeeded'
  BY <1>1, <1>3 DEF Rest0, EmptyForGood, ClosedIsUnused, Succeeded, ManagedRun, RootAlive
<1>5. ASSUME FollowsPlan' PROVE Safe'
  BY <1>2, <1>4, <1>5 DEF Safe
<1>6. CASE name \in {"FindHome", "CreateProcess"}
  <2>1. Left' = {}
    BY <1>1, <1>6, FailedStep, NothingLeftToDo DEF HcsNames
  <2>3. "CreateProcess" \in Left /\ "StartMonitor" \in Left /\ "StartTraceThread" \in Left
    BY <1>2, <1>6 DEF InOrder, Milestones, HcsNames
  <2>4. RootFollowsPlan'
    BY <1>1, <1>3, <2>1, <2>3
       DEF Rest0, FollowsPlan, RootFollowsPlan, MonitorFollowsPlan, TraceFollowsPlan,
           JobFollowsPlan, HandoverFollowsPlan, ManagedRun, RootAlive, ActiveTracer,
           RootFollowsPlan, ManagedRun
  <2>5. MonitorFollowsPlan'
    BY <1>1, <1>3, <2>1, <2>3
       DEF Rest0, FollowsPlan, RootFollowsPlan, MonitorFollowsPlan, TraceFollowsPlan,
           JobFollowsPlan, HandoverFollowsPlan, ManagedRun, RootAlive, ActiveTracer,
           MonitorFollowsPlan, ManagedRun, RootAlive
  <2>6. TraceFollowsPlan'
    BY <1>1, <1>3, <2>1, <2>3
       DEF Rest0, FollowsPlan, RootFollowsPlan, MonitorFollowsPlan, TraceFollowsPlan,
           JobFollowsPlan, HandoverFollowsPlan, ManagedRun, RootAlive, ActiveTracer,
           TraceFollowsPlan, ActiveTracer
  <2>7. JobFollowsPlan'
    BY <1>1, <1>3, <2>1, <2>3
       DEF JobFollowsPlan, HandoverFollowsPlan, ManagedRun, RootAlive, ActiveTracer,
           JobFollowsPlan
  <2>8. ObservedUntilStopped'
    BY <1>1, <1>3, <2>1, <2>3
       DEF Rest0, FollowsPlan, RootFollowsPlan, MonitorFollowsPlan, TraceFollowsPlan,
           JobFollowsPlan, HandoverFollowsPlan, ManagedRun, RootAlive, ActiveTracer,
           ObservedUntilStopped, ManagedRun
  <2>9. HandoverFollowsPlan'
    BY <1>1, <1>3, <2>1, <2>3
       DEF Rest0, FollowsPlan, RootFollowsPlan, MonitorFollowsPlan, TraceFollowsPlan,
           JobFollowsPlan, HandoverFollowsPlan, ManagedRun, RootAlive, ActiveTracer,
           HandoverFollowsPlan, LastWritten
  <2> QED BY <1>5, <2>4, <2>5, <2>6, <2>7, <2>8, <2>9 DEF FollowsPlan
<1>7. CASE name \in {"FindRunner", "InstallSupportFiles", "CreateRunner"}
  <2>1. Left' = {}
    BY <1>1, <1>7, FailedStep, NothingLeftToDo DEF HcsNames
  <2>3. /\ "AwaitRunner" \in Left /\ "StartMonitor" \notin Left
        /\ "TerminateRoot" \notin Left /\ "Decide" \notin Left
    BY <1>2, <1>7 DEF InOrder, Milestones, HcsNames
  <2>4. RootFollowsPlan'
    BY <1>1, <1>3, <2>1, <2>3
       DEF Rest0, FollowsPlan, RootFollowsPlan, MonitorFollowsPlan, TraceFollowsPlan,
           JobFollowsPlan, HandoverFollowsPlan, ManagedRun, RootAlive, ActiveTracer,
           RootFollowsPlan, ManagedRun
  <2>5. MonitorFollowsPlan'
    BY <1>1, <1>3, <2>1, <2>3
       DEF Rest0, FollowsPlan, RootFollowsPlan, MonitorFollowsPlan, TraceFollowsPlan,
           JobFollowsPlan, HandoverFollowsPlan, ManagedRun, RootAlive, ActiveTracer,
           MonitorFollowsPlan, ManagedRun, RootAlive
  <2>6. TraceFollowsPlan'
    BY <1>1, <1>3, <2>1, <2>3
       DEF Rest0, FollowsPlan, RootFollowsPlan, MonitorFollowsPlan, TraceFollowsPlan,
           JobFollowsPlan, HandoverFollowsPlan, ManagedRun, RootAlive, ActiveTracer,
           TraceFollowsPlan, ActiveTracer
  <2>7. JobFollowsPlan'
    BY <1>1, <1>3, <2>1, <2>3
       DEF JobFollowsPlan, HandoverFollowsPlan, ManagedRun, RootAlive, ActiveTracer,
           JobFollowsPlan
  <2>8. ObservedUntilStopped'
    BY <1>1, <1>3, <2>1, <2>3
       DEF Rest0, FollowsPlan, RootFollowsPlan, MonitorFollowsPlan, TraceFollowsPlan,
           JobFollowsPlan, HandoverFollowsPlan, ManagedRun, RootAlive, ActiveTracer,
           ObservedUntilStopped, ManagedRun
  <2>9. HandoverFollowsPlan'
    BY <1>1, <1>3, <2>1, <2>3
       DEF Rest0, FollowsPlan, RootFollowsPlan, MonitorFollowsPlan, TraceFollowsPlan,
           JobFollowsPlan, HandoverFollowsPlan, ManagedRun, RootAlive, ActiveTracer,
           HandoverFollowsPlan, LastWritten
  <2> QED BY <1>5, <2>4, <2>5, <2>6, <2>7, <2>8, <2>9 DEF FollowsPlan
<1>8. CASE name \in {"CreateJobObject", "CreateIoCompletionPort", "SetInformationJobObject",
                 "AssignProcessToJobObject", "StartMonitor"}
  <2>1. /\ Left' = After(UndoStart, 0) /\ "Decide" \notin Left' /\ "OpenTrace" \notin Left'
        /\ "CreateProcess" \notin Left'
        /\ "AssignProcessToJobObject" \notin Left'
        /\ "Resume" \notin Left'
        /\ "StartMonitor" \notin Left'
        /\ "StartTraceThread" \notin Left'
        /\ "AwaitRunner" \notin Left'
    BY <1>1, <1>8, FailedStep, UndoPlansAre, UndoStartLeft DEF Left
  <2>2. "TerminateRoot" \in Left' /\ "StopTrace" \notin Left'
    BY <2>1, UndoStartLeft
  <2>3. /\ "StartMonitor" \in Left /\ "StartTraceThread" \in Left /\ "CloseHandles" \in Left
        /\ "Resume" \in Left /\ Left # {}
    BY <1>2, <1>8 DEF InOrder, Milestones, HcsNames
  <2>4. RootFollowsPlan'
    BY <1>1, <1>3, <2>1, <2>2, <2>3
       DEF Rest0, FollowsPlan, RootFollowsPlan, MonitorFollowsPlan, TraceFollowsPlan,
           JobFollowsPlan, HandoverFollowsPlan, ManagedRun, RootAlive, ActiveTracer,
           RootFollowsPlan, ManagedRun
  <2>5. MonitorFollowsPlan'
    BY <1>1, <1>3, <2>1, <2>2, <2>3
       DEF Rest0, FollowsPlan, RootFollowsPlan, MonitorFollowsPlan, TraceFollowsPlan,
           JobFollowsPlan, HandoverFollowsPlan, ManagedRun, RootAlive, ActiveTracer,
           MonitorFollowsPlan, ManagedRun, RootAlive
  <2>6. TraceFollowsPlan'
    BY <1>1, <1>3, <2>1, <2>2, <2>3
       DEF Rest0, FollowsPlan, RootFollowsPlan, MonitorFollowsPlan, TraceFollowsPlan,
           JobFollowsPlan, HandoverFollowsPlan, ManagedRun, RootAlive, ActiveTracer,
           TraceFollowsPlan, ActiveTracer
  <2>7. JobFollowsPlan'
    BY <1>1, <1>3, <2>1, <2>2, <2>3
       DEF Rest0, FollowsPlan, RootFollowsPlan, MonitorFollowsPlan, TraceFollowsPlan,
           JobFollowsPlan, HandoverFollowsPlan, ManagedRun, RootAlive, ActiveTracer,
           JobFollowsPlan
  <2>8. ObservedUntilStopped'
    BY <1>1, <1>3, <2>1, <2>2, <2>3
       DEF Rest0, FollowsPlan, RootFollowsPlan, MonitorFollowsPlan, TraceFollowsPlan,
           JobFollowsPlan, HandoverFollowsPlan, ManagedRun, RootAlive, ActiveTracer,
           ObservedUntilStopped, ManagedRun
  <2>9. HandoverFollowsPlan'
    BY <1>1, <1>3, <2>1, <2>2, <2>3
       DEF Rest0, FollowsPlan, RootFollowsPlan, MonitorFollowsPlan, TraceFollowsPlan,
           JobFollowsPlan, HandoverFollowsPlan, ManagedRun, RootAlive, ActiveTracer,
           HandoverFollowsPlan, LastWritten
  <2> QED BY <1>5, <2>4, <2>5, <2>6, <2>7, <2>8, <2>9 DEF FollowsPlan
<1>9. CASE name \in {"Bootstrap", "OpenTrace"}
  <2>1. /\ Left' = After(UndoJob, 0) /\ "Decide" \notin Left' /\ "OpenTrace" \notin Left'
        /\ "CreateProcess" \notin Left'
        /\ "AssignProcessToJobObject" \notin Left'
        /\ "Resume" \notin Left'
        /\ "StartMonitor" \notin Left'
        /\ "StartTraceThread" \notin Left'
        /\ "AwaitRunner" \notin Left'
    BY <1>1, <1>9, FailedStep, UndoPlansAre, UndoJobLeft DEF Left
  <2>2. "Wait" \in Left' /\ "StopTrace" \notin Left'
    BY <2>1, UndoJobLeft
  <2>3. /\ "Decide" \in Left /\ "StartMonitor" \notin Left /\ "StartTraceThread" \in Left
        /\ "CloseHandles" \in Left /\ "Resume" \in Left
    BY <1>2, <1>9 DEF InOrder, Milestones, HcsNames
  <2>4. RootFollowsPlan'
    BY <1>1, <1>3, <2>1, <2>2, <2>3
       DEF Rest0, FollowsPlan, RootFollowsPlan, MonitorFollowsPlan, TraceFollowsPlan,
           JobFollowsPlan, HandoverFollowsPlan, ManagedRun, RootAlive, ActiveTracer,
           RootFollowsPlan, ManagedRun
  <2>5. MonitorFollowsPlan'
    BY <1>1, <1>3, <2>1, <2>2, <2>3
       DEF Rest0, FollowsPlan, RootFollowsPlan, MonitorFollowsPlan, TraceFollowsPlan,
           JobFollowsPlan, HandoverFollowsPlan, ManagedRun, RootAlive, ActiveTracer,
           MonitorFollowsPlan, ManagedRun, RootAlive
  <2>6. TraceFollowsPlan'
    BY <1>1, <1>3, <2>1, <2>2, <2>3
       DEF Rest0, FollowsPlan, RootFollowsPlan, MonitorFollowsPlan, TraceFollowsPlan,
           JobFollowsPlan, HandoverFollowsPlan, ManagedRun, RootAlive, ActiveTracer,
           TraceFollowsPlan, ActiveTracer
  <2>7. JobFollowsPlan'
    BY <1>1, <1>3, <2>1, <2>2, <2>3
       DEF Rest0, FollowsPlan, RootFollowsPlan, MonitorFollowsPlan, TraceFollowsPlan,
           JobFollowsPlan, HandoverFollowsPlan, ManagedRun, RootAlive, ActiveTracer,
           JobFollowsPlan
  <2>8. ObservedUntilStopped'
    BY <1>1, <1>3, <2>1, <2>2, <2>3
       DEF Rest0, FollowsPlan, RootFollowsPlan, MonitorFollowsPlan, TraceFollowsPlan,
           JobFollowsPlan, HandoverFollowsPlan, ManagedRun, RootAlive, ActiveTracer,
           ObservedUntilStopped, ManagedRun
  <2>9. HandoverFollowsPlan'
    BY <1>1, <1>3, <2>1, <2>2, <2>3
       DEF Rest0, FollowsPlan, RootFollowsPlan, MonitorFollowsPlan, TraceFollowsPlan,
           JobFollowsPlan, HandoverFollowsPlan, ManagedRun, RootAlive, ActiveTracer,
           HandoverFollowsPlan, LastWritten
  <2> QED BY <1>5, <2>4, <2>5, <2>6, <2>7, <2>8, <2>9 DEF FollowsPlan
<1>10. CASE name = "StartTraceThread"
  <2>1. /\ Left' = After(StopAndUndoJob, 0) /\ "Decide" \notin Left' /\ "OpenTrace" \notin Left'
        /\ "CreateProcess" \notin Left'
        /\ "AssignProcessToJobObject" \notin Left'
        /\ "Resume" \notin Left'
        /\ "StartMonitor" \notin Left'
        /\ "StartTraceThread" \notin Left'
        /\ "AwaitRunner" \notin Left'
    BY <1>1, <1>10, FailedStep, UndoPlansAre, StopAndUndoJobLeft DEF Left
  <2>2. "Wait" \in Left' /\ "StopTrace" \in Left'
    BY <2>1, StopAndUndoJobLeft
  <2>3. /\ "Decide" \in Left /\ "StartMonitor" \notin Left /\ "StartTraceThread" \in Left
        /\ "CloseHandles" \in Left /\ "Resume" \in Left /\ "StopTrace" \in Left
        /\ "OpenTrace" \notin Left
    BY <1>2, <1>10 DEF InOrder, Milestones, HcsNames
  <2>4. RootFollowsPlan'
    BY <1>1, <1>3, <2>1, <2>2, <2>3
       DEF Rest0, FollowsPlan, RootFollowsPlan, MonitorFollowsPlan, TraceFollowsPlan,
           JobFollowsPlan, HandoverFollowsPlan, ManagedRun, RootAlive, ActiveTracer,
           RootFollowsPlan, ManagedRun
  <2>5. MonitorFollowsPlan'
    BY <1>1, <1>3, <2>1, <2>2, <2>3
       DEF Rest0, FollowsPlan, RootFollowsPlan, MonitorFollowsPlan, TraceFollowsPlan,
           JobFollowsPlan, HandoverFollowsPlan, ManagedRun, RootAlive, ActiveTracer,
           MonitorFollowsPlan, ManagedRun, RootAlive
  <2>6. TraceFollowsPlan'
    BY <1>1, <1>3, <2>1, <2>2, <2>3
       DEF Rest0, FollowsPlan, RootFollowsPlan, MonitorFollowsPlan, TraceFollowsPlan,
           JobFollowsPlan, HandoverFollowsPlan, ManagedRun, RootAlive, ActiveTracer,
           TraceFollowsPlan, ActiveTracer
  <2>7. JobFollowsPlan'
    BY <1>1, <1>3, <2>1, <2>2, <2>3
       DEF Rest0, FollowsPlan, RootFollowsPlan, MonitorFollowsPlan, TraceFollowsPlan,
           JobFollowsPlan, HandoverFollowsPlan, ManagedRun, RootAlive, ActiveTracer,
           JobFollowsPlan
  <2>8. ObservedUntilStopped'
    BY <1>1, <1>3, <2>1, <2>2, <2>3
       DEF Rest0, FollowsPlan, RootFollowsPlan, MonitorFollowsPlan, TraceFollowsPlan,
           JobFollowsPlan, HandoverFollowsPlan, ManagedRun, RootAlive, ActiveTracer,
           ObservedUntilStopped, ManagedRun
  <2>9. HandoverFollowsPlan'
    BY <1>1, <1>3, <2>1, <2>2, <2>3
       DEF Rest0, FollowsPlan, RootFollowsPlan, MonitorFollowsPlan, TraceFollowsPlan,
           JobFollowsPlan, HandoverFollowsPlan, ManagedRun, RootAlive, ActiveTracer,
           HandoverFollowsPlan, LastWritten
  <2> QED BY <1>5, <2>4, <2>5, <2>6, <2>7, <2>8, <2>9 DEF FollowsPlan
<1>11. CASE name = "Resume"
  <2>1. /\ Left' = After(UndoTrace, 0) /\ "Decide" \notin Left' /\ "OpenTrace" \notin Left'
        /\ "CreateProcess" \notin Left'
        /\ "AssignProcessToJobObject" \notin Left'
        /\ "Resume" \notin Left'
        /\ "StartMonitor" \notin Left'
        /\ "StartTraceThread" \notin Left'
        /\ "AwaitRunner" \notin Left'
    BY <1>1, <1>11, FailedStep, UndoPlansAre, UndoTraceLeft DEF Left
  <2>2. "Wait" \in Left' /\ "StopTrace" \in Left' /\ "JoinTrace" \in Left'
    BY <2>1, UndoTraceLeft
  <2>3. /\ "Decide" \in Left /\ "StartMonitor" \notin Left
        /\ "CloseHandles" \in Left /\ "Resume" \in Left /\ "StopTrace" \in Left
        /\ "OpenTrace" \notin Left
    BY <1>2, <1>11 DEF InOrder, Milestones, HcsNames
  <2>4. RootFollowsPlan'
    BY <1>1, <1>3, <2>1, <2>2, <2>3
       DEF Rest0, FollowsPlan, RootFollowsPlan, MonitorFollowsPlan, TraceFollowsPlan,
           JobFollowsPlan, HandoverFollowsPlan, ManagedRun, RootAlive, ActiveTracer,
           RootFollowsPlan, ManagedRun
  <2>5. MonitorFollowsPlan'
    BY <1>1, <1>3, <2>1, <2>2, <2>3
       DEF Rest0, FollowsPlan, RootFollowsPlan, MonitorFollowsPlan, TraceFollowsPlan,
           JobFollowsPlan, HandoverFollowsPlan, ManagedRun, RootAlive, ActiveTracer,
           MonitorFollowsPlan, ManagedRun, RootAlive
  <2>6. TraceFollowsPlan'
    BY <1>1, <1>3, <2>1, <2>2, <2>3
       DEF Rest0, FollowsPlan, RootFollowsPlan, MonitorFollowsPlan, TraceFollowsPlan,
           JobFollowsPlan, HandoverFollowsPlan, ManagedRun, RootAlive, ActiveTracer,
           TraceFollowsPlan, ActiveTracer
  <2>7. JobFollowsPlan'
    BY <1>1, <1>3, <2>1, <2>2, <2>3
       DEF Rest0, FollowsPlan, RootFollowsPlan, MonitorFollowsPlan, TraceFollowsPlan,
           JobFollowsPlan, HandoverFollowsPlan, ManagedRun, RootAlive, ActiveTracer,
           JobFollowsPlan
  <2>8. ObservedUntilStopped'
    BY <1>1, <1>3, <2>1, <2>2, <2>3
       DEF Rest0, FollowsPlan, RootFollowsPlan, MonitorFollowsPlan, TraceFollowsPlan,
           JobFollowsPlan, HandoverFollowsPlan, ManagedRun, RootAlive, ActiveTracer,
           ObservedUntilStopped, ManagedRun
  <2>9. HandoverFollowsPlan'
    BY <1>1, <1>3, <2>1, <2>2, <2>3
       DEF Rest0, FollowsPlan, RootFollowsPlan, MonitorFollowsPlan, TraceFollowsPlan,
           JobFollowsPlan, HandoverFollowsPlan, ManagedRun, RootAlive, ActiveTracer,
           HandoverFollowsPlan, LastWritten
  <2> QED BY <1>5, <2>4, <2>5, <2>6, <2>7, <2>8, <2>9 DEF FollowsPlan
<1> QED BY <1>6, <1>7, <1>8, <1>9, <1>10, <1>11

------------------------------------------------------------------------------
(* The milestones of the plan.                                             *)

LEMMA CreateProcessSafe ==
  ASSUME SupervisorInv, CreateProcess
  PROVE  Safe'
<1>1. ASSUME Step("CreateProcess"), root' = "suspended",
             UNCHANGED <<assigned, kids, zeros, job, monitor, joinable, session, tracer,
                         traceFailed, requested, rollouts, resumed,
                         runner>>
      PROVE  Safe'
  <2>1. /\ Left = {"CreateProcess"} \cup Left' /\ ~Aborted /\ ~Aborted' /\ exitCode' = exitCode
        /\ todo # <<>>
        /\ "AssignProcessToJobObject" \in Left'
        /\ "StartMonitor" \in Left'
        /\ "Resume" \in Left'
        /\ "CloseHandles" \in Left'
        /\ "CreateProcess" \notin Left'
    BY <1>1, StepForward DEF Step, Aborted, InOrder, Milestones
  <2>2. /\ FollowsPlan /\ EmptyForGood /\ ClosedIsUnused /\ Succeeded
        /\ monitor \in {"none", "reading", "succeeded", "failed"}
        /\ job \in {"none", "open", "closed"}
    BY <2>1 DEF SupervisorInv, TypeOK
  <2>3. RootFollowsPlan'
    BY <1>1, <2>1, <2>2
       DEF FollowsPlan, RootFollowsPlan, MonitorFollowsPlan, TraceFollowsPlan, JobFollowsPlan,
           ObservedUntilStopped, HandoverFollowsPlan, ManagedRun, RootAlive, ActiveTracer,
           EmptyForGood
  <2>4. MonitorFollowsPlan'
    BY <1>1, <2>1, <2>2
       DEF FollowsPlan, RootFollowsPlan, MonitorFollowsPlan, TraceFollowsPlan, JobFollowsPlan,
           ObservedUntilStopped, HandoverFollowsPlan, ManagedRun, RootAlive, ActiveTracer,
           EmptyForGood
  <2>5. TraceFollowsPlan'
    BY <1>1, <2>1, <2>2
       DEF FollowsPlan, RootFollowsPlan, MonitorFollowsPlan, TraceFollowsPlan, JobFollowsPlan,
           ObservedUntilStopped, HandoverFollowsPlan, ManagedRun, RootAlive, ActiveTracer
  <2>6. JobFollowsPlan'
    BY <1>1, <2>1, <2>2
       DEF FollowsPlan, RootFollowsPlan, MonitorFollowsPlan, TraceFollowsPlan, JobFollowsPlan,
           ObservedUntilStopped, HandoverFollowsPlan, ManagedRun, RootAlive, ActiveTracer
  <2>7. ObservedUntilStopped'
    BY <1>1, <2>1, <2>2
       DEF FollowsPlan, RootFollowsPlan, MonitorFollowsPlan, TraceFollowsPlan, JobFollowsPlan,
           ObservedUntilStopped, HandoverFollowsPlan, ManagedRun, RootAlive, ActiveTracer,
           EmptyForGood
  <2>8. HandoverFollowsPlan'
    BY <1>1, <2>1, <2>2
       DEF FollowsPlan, RootFollowsPlan, MonitorFollowsPlan, TraceFollowsPlan, JobFollowsPlan,
           ObservedUntilStopped, HandoverFollowsPlan, ManagedRun, RootAlive, ActiveTracer,
           LastWritten
  <2>9. EmptyForGood' /\ ClosedIsUnused' /\ Succeeded'
    BY <1>1, <2>1, <2>2
       DEF EmptyForGood, ClosedIsUnused, Succeeded, FollowsPlan, RootFollowsPlan,
           MonitorFollowsPlan, TraceFollowsPlan, JobFollowsPlan, ObservedUntilStopped,
           HandoverFollowsPlan, ManagedRun, RootAlive, ActiveTracer
  <2> QED BY <2>1, <2>3, <2>4, <2>5, <2>6, <2>7, <2>8, <2>9 DEF Safe, FollowsPlan
<1>2. ASSUME Fail("CreateProcess", "create") PROVE Safe'
  BY <1>2, FailingStep DEF Names
<1> QED BY <1>1, <1>2 DEF CreateProcess, processVars, threadVars, alertVars, fileVars, runnerVars

LEMMA CreateJobObjectSafe ==
  ASSUME SupervisorInv, CreateJobObject
  PROVE  Safe'
<1>1. ASSUME Step("CreateJobObject"), job' = "open",
             UNCHANGED <<root, assigned, kids, zeros, monitor, joinable, session, tracer,
                         traceFailed, requested, rollouts, resumed,
                         runner>>
      PROVE  Safe'
  <2>1. /\ Left = {"CreateJobObject"} \cup Left' /\ ~Aborted /\ ~Aborted' /\ exitCode' = exitCode
        /\ todo # <<>>
        /\ "CloseHandles" \in Left'
        /\ "CreateJobObject" \notin Left'
    BY <1>1, StepForward DEF Step, Aborted, InOrder, Milestones
  <2>2. /\ FollowsPlan /\ EmptyForGood /\ ClosedIsUnused /\ Succeeded
        /\ monitor \in {"none", "reading", "succeeded", "failed"}
        /\ job \in {"none", "open", "closed"}
    BY <2>1 DEF SupervisorInv, TypeOK
  <2>3. RootFollowsPlan'
    BY <1>1, <2>1, <2>2
       DEF FollowsPlan, RootFollowsPlan, MonitorFollowsPlan, TraceFollowsPlan, JobFollowsPlan,
           ObservedUntilStopped, HandoverFollowsPlan, ManagedRun, RootAlive, ActiveTracer,
           EmptyForGood
  <2>4. MonitorFollowsPlan'
    BY <1>1, <2>1, <2>2
       DEF FollowsPlan, RootFollowsPlan, MonitorFollowsPlan, TraceFollowsPlan, JobFollowsPlan,
           ObservedUntilStopped, HandoverFollowsPlan, ManagedRun, RootAlive, ActiveTracer,
           EmptyForGood
  <2>5. TraceFollowsPlan'
    BY <1>1, <2>1, <2>2
       DEF FollowsPlan, RootFollowsPlan, MonitorFollowsPlan, TraceFollowsPlan, JobFollowsPlan,
           ObservedUntilStopped, HandoverFollowsPlan, ManagedRun, RootAlive, ActiveTracer
  <2>6. JobFollowsPlan'
    BY <1>1, <2>1, <2>2
       DEF FollowsPlan, RootFollowsPlan, MonitorFollowsPlan, TraceFollowsPlan, JobFollowsPlan,
           ObservedUntilStopped, HandoverFollowsPlan, ManagedRun, RootAlive, ActiveTracer
  <2>7. ObservedUntilStopped'
    BY <1>1, <2>1, <2>2
       DEF FollowsPlan, RootFollowsPlan, MonitorFollowsPlan, TraceFollowsPlan, JobFollowsPlan,
           ObservedUntilStopped, HandoverFollowsPlan, ManagedRun, RootAlive, ActiveTracer,
           EmptyForGood
  <2>8. HandoverFollowsPlan'
    BY <1>1, <2>1, <2>2
       DEF FollowsPlan, RootFollowsPlan, MonitorFollowsPlan, TraceFollowsPlan, JobFollowsPlan,
           ObservedUntilStopped, HandoverFollowsPlan, ManagedRun, RootAlive, ActiveTracer,
           LastWritten
  <2>9. EmptyForGood' /\ ClosedIsUnused' /\ Succeeded'
    BY <1>1, <2>1, <2>2
       DEF EmptyForGood, ClosedIsUnused, Succeeded, FollowsPlan, RootFollowsPlan,
           MonitorFollowsPlan, TraceFollowsPlan, JobFollowsPlan, ObservedUntilStopped,
           HandoverFollowsPlan, ManagedRun, RootAlive, ActiveTracer
  <2> QED BY <2>1, <2>3, <2>4, <2>5, <2>6, <2>7, <2>8, <2>9 DEF Safe, FollowsPlan
<1>2. ASSUME Fail("CreateJobObject", "job") PROVE Safe'
  BY <1>2, FailingStep DEF Names
<1> QED BY <1>1, <1>2 DEF CreateJobObject, processVars, threadVars, alertVars, fileVars, runnerVars

LEMMA AssignProcessToJobObjectSafe ==
  ASSUME SupervisorInv, AssignProcessToJobObject
  PROVE  Safe'
<1>1. ASSUME Step("AssignProcessToJobObject"), assigned', RootAlive,
             UNCHANGED <<root, kids, zeros, job, monitor, joinable, session, tracer,
                         traceFailed, requested, rollouts, resumed,
                         runner>>
      PROVE  Safe'
  <2>1. /\ Left = {"AssignProcessToJobObject"} \cup Left' /\ ~Aborted /\ ~Aborted'
        /\ exitCode' = exitCode
        /\ todo # <<>>
        /\ "AssignProcessToJobObject" \notin Left'
    BY <1>1, StepForward DEF Step, Aborted, InOrder, Milestones
  <2>2. /\ FollowsPlan /\ EmptyForGood /\ ClosedIsUnused /\ Succeeded
        /\ monitor \in {"none", "reading", "succeeded", "failed"}
        /\ job \in {"none", "open", "closed"}
    BY <2>1 DEF SupervisorInv, TypeOK
  <2>3. RootFollowsPlan'
    BY <1>1, <2>1, <2>2
       DEF FollowsPlan, RootFollowsPlan, MonitorFollowsPlan, TraceFollowsPlan, JobFollowsPlan,
           ObservedUntilStopped, HandoverFollowsPlan, ManagedRun, RootAlive, ActiveTracer,
           EmptyForGood
  <2>4. MonitorFollowsPlan'
    BY <1>1, <2>1, <2>2
       DEF FollowsPlan, RootFollowsPlan, MonitorFollowsPlan, TraceFollowsPlan, JobFollowsPlan,
           ObservedUntilStopped, HandoverFollowsPlan, ManagedRun, RootAlive, ActiveTracer,
           EmptyForGood
  <2>5. TraceFollowsPlan'
    BY <1>1, <2>1, <2>2
       DEF FollowsPlan, RootFollowsPlan, MonitorFollowsPlan, TraceFollowsPlan, JobFollowsPlan,
           ObservedUntilStopped, HandoverFollowsPlan, ManagedRun, RootAlive, ActiveTracer
  <2>6. JobFollowsPlan'
    BY <1>1, <2>1, <2>2
       DEF FollowsPlan, RootFollowsPlan, MonitorFollowsPlan, TraceFollowsPlan, JobFollowsPlan,
           ObservedUntilStopped, HandoverFollowsPlan, ManagedRun, RootAlive, ActiveTracer
  <2>7. ObservedUntilStopped'
    BY <1>1, <2>1, <2>2
       DEF FollowsPlan, RootFollowsPlan, MonitorFollowsPlan, TraceFollowsPlan, JobFollowsPlan,
           ObservedUntilStopped, HandoverFollowsPlan, ManagedRun, RootAlive, ActiveTracer,
           EmptyForGood
  <2>8. HandoverFollowsPlan'
    BY <1>1, <2>1, <2>2
       DEF FollowsPlan, RootFollowsPlan, MonitorFollowsPlan, TraceFollowsPlan, JobFollowsPlan,
           ObservedUntilStopped, HandoverFollowsPlan, ManagedRun, RootAlive, ActiveTracer,
           LastWritten
  <2>9. EmptyForGood' /\ ClosedIsUnused' /\ Succeeded'
    BY <1>1, <2>1, <2>2
       DEF EmptyForGood, ClosedIsUnused, Succeeded, FollowsPlan, RootFollowsPlan,
           MonitorFollowsPlan, TraceFollowsPlan, JobFollowsPlan, ObservedUntilStopped,
           HandoverFollowsPlan, ManagedRun, RootAlive, ActiveTracer
  <2> QED BY <2>1, <2>3, <2>4, <2>5, <2>6, <2>7, <2>8, <2>9 DEF Safe, FollowsPlan
<1>2. ASSUME Fail("AssignProcessToJobObject", "assign") PROVE Safe'
  BY <1>2, FailingStep DEF Names
<1> QED BY <1>1, <1>2 DEF AssignProcessToJobObject, processVars, threadVars, alertVars, fileVars,
                runnerVars

LEMMA StartMonitorSafe ==
  ASSUME SupervisorInv, StartMonitor
  PROVE  Safe'
<1>1. ASSUME Step("StartMonitor"), monitor' = "reading", joinable',
             UNCHANGED <<root, assigned, kids, zeros, job, session, tracer, traceFailed,
                         requested, rollouts, resumed, runner>>
      PROVE  Safe'
  <2>1. /\ Left = {"StartMonitor"} \cup Left' /\ ~Aborted /\ ~Aborted' /\ exitCode' = exitCode
        /\ todo # <<>>
        /\ "Wait" \in Left'
        /\ "CloseHandles" \in Left'
        /\ "Resume" \in Left'
        /\ "StartTraceThread" \in Left'
        /\ "Decide" \in Left'
        /\ "StartMonitor" \notin Left'
    BY <1>1, StepForward DEF Step, Aborted, InOrder, Milestones
  <2>2. /\ FollowsPlan /\ EmptyForGood /\ ClosedIsUnused /\ Succeeded
        /\ monitor \in {"none", "reading", "succeeded", "failed"}
        /\ job \in {"none", "open", "closed"}
    BY <2>1 DEF SupervisorInv, TypeOK
  <2>3. RootFollowsPlan'
    BY <1>1, <2>1, <2>2
       DEF FollowsPlan, RootFollowsPlan, MonitorFollowsPlan, TraceFollowsPlan, JobFollowsPlan,
           ObservedUntilStopped, HandoverFollowsPlan, ManagedRun, RootAlive, ActiveTracer,
           EmptyForGood
  <2>4. MonitorFollowsPlan'
    BY <1>1, <2>1, <2>2
       DEF FollowsPlan, RootFollowsPlan, MonitorFollowsPlan, TraceFollowsPlan, JobFollowsPlan,
           ObservedUntilStopped, HandoverFollowsPlan, ManagedRun, RootAlive, ActiveTracer,
           EmptyForGood
  <2>5. TraceFollowsPlan'
    BY <1>1, <2>1, <2>2
       DEF FollowsPlan, RootFollowsPlan, MonitorFollowsPlan, TraceFollowsPlan, JobFollowsPlan,
           ObservedUntilStopped, HandoverFollowsPlan, ManagedRun, RootAlive, ActiveTracer
  <2>6. JobFollowsPlan'
    BY <1>1, <2>1, <2>2
       DEF FollowsPlan, RootFollowsPlan, MonitorFollowsPlan, TraceFollowsPlan, JobFollowsPlan,
           ObservedUntilStopped, HandoverFollowsPlan, ManagedRun, RootAlive, ActiveTracer
  <2>7. ObservedUntilStopped'
    BY <1>1, <2>1, <2>2
       DEF FollowsPlan, RootFollowsPlan, MonitorFollowsPlan, TraceFollowsPlan, JobFollowsPlan,
           ObservedUntilStopped, HandoverFollowsPlan, ManagedRun, RootAlive, ActiveTracer,
           EmptyForGood
  <2>8. HandoverFollowsPlan'
    BY <1>1, <2>1, <2>2
       DEF FollowsPlan, RootFollowsPlan, MonitorFollowsPlan, TraceFollowsPlan, JobFollowsPlan,
           ObservedUntilStopped, HandoverFollowsPlan, ManagedRun, RootAlive, ActiveTracer,
           LastWritten
  <2>9. EmptyForGood' /\ ClosedIsUnused' /\ Succeeded'
    BY <1>1, <2>1, <2>2
       DEF EmptyForGood, ClosedIsUnused, Succeeded, FollowsPlan, RootFollowsPlan,
           MonitorFollowsPlan, TraceFollowsPlan, JobFollowsPlan, ObservedUntilStopped,
           HandoverFollowsPlan, ManagedRun, RootAlive, ActiveTracer
  <2> QED BY <2>1, <2>3, <2>4, <2>5, <2>6, <2>7, <2>8, <2>9 DEF Safe, FollowsPlan
<1>2. ASSUME Fail("StartMonitor", "monitor thread") PROVE Safe'
  BY <1>2, FailingStep DEF Names
<1> QED BY <1>1, <1>2 DEF StartMonitor, processVars, threadVars, alertVars, fileVars, runnerVars

LEMMA OpenTraceSafe ==
  ASSUME SupervisorInv, OpenTrace
  PROVE  Safe'
<1>1. ASSUME Step("OpenTrace"), session' = "open",
             UNCHANGED <<root, assigned, kids, zeros, job, monitor, joinable, tracer,
                         traceFailed, requested, rollouts, resumed,
                         runner>>
      PROVE  Safe'
  <2>1. /\ Left = {"OpenTrace"} \cup Left' /\ ~Aborted /\ ~Aborted' /\ exitCode' = exitCode
        /\ todo # <<>>
        /\ "Resume" \in Left'
        /\ "OpenTrace" \notin Left'
    BY <1>1, StepForward DEF Step, Aborted, InOrder, Milestones
  <2>2. /\ FollowsPlan /\ EmptyForGood /\ ClosedIsUnused /\ Succeeded
        /\ monitor \in {"none", "reading", "succeeded", "failed"}
        /\ job \in {"none", "open", "closed"}
    BY <2>1 DEF SupervisorInv, TypeOK
  <2>3. RootFollowsPlan'
    BY <1>1, <2>1, <2>2
       DEF FollowsPlan, RootFollowsPlan, MonitorFollowsPlan, TraceFollowsPlan, JobFollowsPlan,
           ObservedUntilStopped, HandoverFollowsPlan, ManagedRun, RootAlive, ActiveTracer,
           EmptyForGood
  <2>4. MonitorFollowsPlan'
    BY <1>1, <2>1, <2>2
       DEF FollowsPlan, RootFollowsPlan, MonitorFollowsPlan, TraceFollowsPlan, JobFollowsPlan,
           ObservedUntilStopped, HandoverFollowsPlan, ManagedRun, RootAlive, ActiveTracer,
           EmptyForGood
  <2>5. TraceFollowsPlan'
    BY <1>1, <2>1, <2>2
       DEF FollowsPlan, RootFollowsPlan, MonitorFollowsPlan, TraceFollowsPlan, JobFollowsPlan,
           ObservedUntilStopped, HandoverFollowsPlan, ManagedRun, RootAlive, ActiveTracer
  <2>6. JobFollowsPlan'
    BY <1>1, <2>1, <2>2
       DEF FollowsPlan, RootFollowsPlan, MonitorFollowsPlan, TraceFollowsPlan, JobFollowsPlan,
           ObservedUntilStopped, HandoverFollowsPlan, ManagedRun, RootAlive, ActiveTracer
  <2>7. ObservedUntilStopped'
    BY <1>1, <2>1, <2>2
       DEF FollowsPlan, RootFollowsPlan, MonitorFollowsPlan, TraceFollowsPlan, JobFollowsPlan,
           ObservedUntilStopped, HandoverFollowsPlan, ManagedRun, RootAlive, ActiveTracer,
           EmptyForGood
  <2>8. HandoverFollowsPlan'
    BY <1>1, <2>1, <2>2
       DEF FollowsPlan, RootFollowsPlan, MonitorFollowsPlan, TraceFollowsPlan, JobFollowsPlan,
           ObservedUntilStopped, HandoverFollowsPlan, ManagedRun, RootAlive, ActiveTracer,
           LastWritten
  <2>9. EmptyForGood' /\ ClosedIsUnused' /\ Succeeded'
    BY <1>1, <2>1, <2>2
       DEF EmptyForGood, ClosedIsUnused, Succeeded, FollowsPlan, RootFollowsPlan,
           MonitorFollowsPlan, TraceFollowsPlan, JobFollowsPlan, ObservedUntilStopped,
           HandoverFollowsPlan, ManagedRun, RootAlive, ActiveTracer
  <2> QED BY <2>1, <2>3, <2>4, <2>5, <2>6, <2>7, <2>8, <2>9 DEF Safe, FollowsPlan
<1>2. ASSUME Fail("OpenTrace", "open") PROVE Safe'
  BY <1>2, FailingStep DEF Names
<1> QED BY <1>1, <1>2 DEF OpenTrace, processVars, threadVars, alertVars, fileVars, runnerVars

LEMMA StartTraceThreadSafe ==
  ASSUME SupervisorInv, StartTraceThread
  PROVE  Safe'
<1>1. ASSUME Step("StartTraceThread"), tracer' = "processing",
             UNCHANGED <<root, assigned, kids, zeros, job, monitor, joinable, session,
                         traceFailed, requested, rollouts, resumed,
                         runner>>
      PROVE  Safe'
  <2>1. /\ Left = {"StartTraceThread"} \cup Left' /\ ~Aborted /\ ~Aborted' /\ exitCode' = exitCode
        /\ todo # <<>>
        /\ "JoinTrace" \in Left'
        /\ "CloseHandles" \in Left'
        /\ "Decide" \in Left'
        /\ "Resume" \in Left'
        /\ "StartTraceThread" \notin Left'
        /\ "OpenTrace" \notin Left'
    BY <1>1, StepForward DEF Step, Aborted, InOrder, Milestones
  <2>2. /\ FollowsPlan /\ EmptyForGood /\ ClosedIsUnused /\ Succeeded
        /\ monitor \in {"none", "reading", "succeeded", "failed"}
        /\ job \in {"none", "open", "closed"}
    BY <2>1 DEF SupervisorInv, TypeOK
  <2>3. RootFollowsPlan'
    BY <1>1, <2>1, <2>2
       DEF FollowsPlan, RootFollowsPlan, MonitorFollowsPlan, TraceFollowsPlan, JobFollowsPlan,
           ObservedUntilStopped, HandoverFollowsPlan, ManagedRun, RootAlive, ActiveTracer,
           EmptyForGood
  <2>4. MonitorFollowsPlan'
    BY <1>1, <2>1, <2>2
       DEF FollowsPlan, RootFollowsPlan, MonitorFollowsPlan, TraceFollowsPlan, JobFollowsPlan,
           ObservedUntilStopped, HandoverFollowsPlan, ManagedRun, RootAlive, ActiveTracer,
           EmptyForGood
  <2>5. TraceFollowsPlan'
    BY <1>1, <2>1, <2>2
       DEF FollowsPlan, RootFollowsPlan, MonitorFollowsPlan, TraceFollowsPlan, JobFollowsPlan,
           ObservedUntilStopped, HandoverFollowsPlan, ManagedRun, RootAlive, ActiveTracer
  <2>6. JobFollowsPlan'
    BY <1>1, <2>1, <2>2
       DEF FollowsPlan, RootFollowsPlan, MonitorFollowsPlan, TraceFollowsPlan, JobFollowsPlan,
           ObservedUntilStopped, HandoverFollowsPlan, ManagedRun, RootAlive, ActiveTracer
  <2>7. ObservedUntilStopped'
    BY <1>1, <2>1, <2>2
       DEF FollowsPlan, RootFollowsPlan, MonitorFollowsPlan, TraceFollowsPlan, JobFollowsPlan,
           ObservedUntilStopped, HandoverFollowsPlan, ManagedRun, RootAlive, ActiveTracer,
           EmptyForGood
  <2>8. HandoverFollowsPlan'
    BY <1>1, <2>1, <2>2
       DEF FollowsPlan, RootFollowsPlan, MonitorFollowsPlan, TraceFollowsPlan, JobFollowsPlan,
           ObservedUntilStopped, HandoverFollowsPlan, ManagedRun, RootAlive, ActiveTracer,
           LastWritten
  <2>9. EmptyForGood' /\ ClosedIsUnused' /\ Succeeded'
    BY <1>1, <2>1, <2>2
       DEF EmptyForGood, ClosedIsUnused, Succeeded, FollowsPlan, RootFollowsPlan,
           MonitorFollowsPlan, TraceFollowsPlan, JobFollowsPlan, ObservedUntilStopped,
           HandoverFollowsPlan, ManagedRun, RootAlive, ActiveTracer
  <2> QED BY <2>1, <2>3, <2>4, <2>5, <2>6, <2>7, <2>8, <2>9 DEF Safe, FollowsPlan
<1>2. ASSUME Fail("StartTraceThread", "trace thread") PROVE Safe'
  BY <1>2, FailingStep DEF Names
<1> QED BY <1>1, <1>2 DEF StartTraceThread, processVars, threadVars, alertVars, fileVars, runnerVars

LEMMA ResumeSafe ==
  ASSUME SupervisorInv, Resume
  PROVE  Safe'
<1>1. ASSUME Step("Resume"), root' = IF root = "suspended" THEN "running" ELSE root,
             UNCHANGED <<assigned, kids, zeros, job, monitor, joinable, session, tracer,
                         traceFailed, requested, rollouts, resumed,
                         runner>>
      PROVE  Safe'
  <2>1. /\ Left = {"Resume"} \cup Left' /\ ~Aborted /\ ~Aborted' /\ exitCode' = exitCode
        /\ todo # <<>>
        /\ "StopTrace" \in Left'
        /\ "Decide" \in Left'
        /\ "JoinTrace" \in Left'
        /\ "Wait" \in Left'
        /\ "Resume" \notin Left'
        /\ "OpenTrace" \notin Left'
        /\ "StartMonitor" \notin Left'
        /\ "StartTraceThread" \notin Left'
        /\ "AssignProcessToJobObject" \notin Left'
        /\ "CreateProcess" \notin Left'
    BY <1>1, StepForward DEF Step, Aborted, InOrder, Milestones
  <2>2. /\ FollowsPlan /\ EmptyForGood /\ ClosedIsUnused /\ Succeeded
        /\ monitor \in {"none", "reading", "succeeded", "failed"}
        /\ job \in {"none", "open", "closed"}
    BY <2>1 DEF SupervisorInv, TypeOK
  <2>3. RootFollowsPlan'
    BY <1>1, <2>1, <2>2
       DEF FollowsPlan, RootFollowsPlan, MonitorFollowsPlan, TraceFollowsPlan, JobFollowsPlan,
           ObservedUntilStopped, HandoverFollowsPlan, ManagedRun, RootAlive, ActiveTracer,
           EmptyForGood
  <2>4. MonitorFollowsPlan'
    BY <1>1, <2>1, <2>2
       DEF FollowsPlan, RootFollowsPlan, MonitorFollowsPlan, TraceFollowsPlan, JobFollowsPlan,
           ObservedUntilStopped, HandoverFollowsPlan, ManagedRun, RootAlive, ActiveTracer,
           EmptyForGood
  <2>5. TraceFollowsPlan'
    BY <1>1, <2>1, <2>2
       DEF FollowsPlan, RootFollowsPlan, MonitorFollowsPlan, TraceFollowsPlan, JobFollowsPlan,
           ObservedUntilStopped, HandoverFollowsPlan, ManagedRun, RootAlive, ActiveTracer
  <2>6. JobFollowsPlan'
    BY <1>1, <2>1, <2>2
       DEF FollowsPlan, RootFollowsPlan, MonitorFollowsPlan, TraceFollowsPlan, JobFollowsPlan,
           ObservedUntilStopped, HandoverFollowsPlan, ManagedRun, RootAlive, ActiveTracer
  <2>7. ObservedUntilStopped'
    BY <1>1, <2>1, <2>2
       DEF FollowsPlan, RootFollowsPlan, MonitorFollowsPlan, TraceFollowsPlan, JobFollowsPlan,
           ObservedUntilStopped, HandoverFollowsPlan, ManagedRun, RootAlive, ActiveTracer,
           EmptyForGood
  <2>8. HandoverFollowsPlan'
    BY <1>1, <2>1, <2>2
       DEF FollowsPlan, RootFollowsPlan, MonitorFollowsPlan, TraceFollowsPlan, JobFollowsPlan,
           ObservedUntilStopped, HandoverFollowsPlan, ManagedRun, RootAlive, ActiveTracer,
           LastWritten
  <2>9. EmptyForGood' /\ ClosedIsUnused' /\ Succeeded'
    BY <1>1, <2>1, <2>2
       DEF EmptyForGood, ClosedIsUnused, Succeeded, FollowsPlan, RootFollowsPlan,
           MonitorFollowsPlan, TraceFollowsPlan, JobFollowsPlan, ObservedUntilStopped,
           HandoverFollowsPlan, ManagedRun, RootAlive, ActiveTracer
  <2> QED BY <2>1, <2>3, <2>4, <2>5, <2>6, <2>7, <2>8, <2>9 DEF Safe, FollowsPlan
<1>2. ASSUME Fail("Resume", "resume") PROVE Safe'
  BY <1>2, FailingStep DEF Names
<1> QED BY <1>1, <1>2 DEF Resume, processVars, threadVars, alertVars, fileVars, runnerVars

LEMMA WaitSafe ==
  ASSUME SupervisorInv, Wait
  PROVE  Safe'
<1>1. ASSUME Step("Wait"), ~joinable', joinable => monitor # "reading",
             UNCHANGED <<root, assigned, kids, zeros, job, monitor, session, tracer,
                         traceFailed, requested, rollouts, resumed,
                         runner>>
      PROVE  Safe'
  <2>1. /\ Left = {"Wait"} \cup Left' /\ ~Aborted /\ ~Aborted' /\ exitCode' = exitCode
        /\ todo # <<>>
        /\ "Wait" \notin Left'
    BY <1>1, StepForward DEF Step, Aborted, InOrder, Milestones
  <2>2. /\ FollowsPlan /\ EmptyForGood /\ ClosedIsUnused /\ Succeeded
        /\ monitor \in {"none", "reading", "succeeded", "failed"}
        /\ job \in {"none", "open", "closed"}
    BY <2>1 DEF SupervisorInv, TypeOK
  <2>3. RootFollowsPlan'
    BY <1>1, <2>1, <2>2
       DEF FollowsPlan, RootFollowsPlan, MonitorFollowsPlan, TraceFollowsPlan, JobFollowsPlan,
           ObservedUntilStopped, HandoverFollowsPlan, ManagedRun, RootAlive, ActiveTracer,
           EmptyForGood
  <2>4. MonitorFollowsPlan'
    BY <1>1, <2>1, <2>2
       DEF FollowsPlan, RootFollowsPlan, MonitorFollowsPlan, TraceFollowsPlan, JobFollowsPlan,
           ObservedUntilStopped, HandoverFollowsPlan, ManagedRun, RootAlive, ActiveTracer,
           EmptyForGood
  <2>5. TraceFollowsPlan'
    BY <1>1, <2>1, <2>2
       DEF FollowsPlan, RootFollowsPlan, MonitorFollowsPlan, TraceFollowsPlan, JobFollowsPlan,
           ObservedUntilStopped, HandoverFollowsPlan, ManagedRun, RootAlive, ActiveTracer
  <2>6. JobFollowsPlan'
    BY <1>1, <2>1, <2>2
       DEF FollowsPlan, RootFollowsPlan, MonitorFollowsPlan, TraceFollowsPlan, JobFollowsPlan,
           ObservedUntilStopped, HandoverFollowsPlan, ManagedRun, RootAlive, ActiveTracer
  <2>7. ObservedUntilStopped'
    BY <1>1, <2>1, <2>2
       DEF FollowsPlan, RootFollowsPlan, MonitorFollowsPlan, TraceFollowsPlan, JobFollowsPlan,
           ObservedUntilStopped, HandoverFollowsPlan, ManagedRun, RootAlive, ActiveTracer,
           EmptyForGood
  <2>8. HandoverFollowsPlan'
    BY <1>1, <2>1, <2>2
       DEF FollowsPlan, RootFollowsPlan, MonitorFollowsPlan, TraceFollowsPlan, JobFollowsPlan,
           ObservedUntilStopped, HandoverFollowsPlan, ManagedRun, RootAlive, ActiveTracer,
           LastWritten
  <2>9. EmptyForGood' /\ ClosedIsUnused' /\ Succeeded'
    BY <1>1, <2>1, <2>2
       DEF EmptyForGood, ClosedIsUnused, Succeeded, FollowsPlan, RootFollowsPlan,
           MonitorFollowsPlan, TraceFollowsPlan, JobFollowsPlan, ObservedUntilStopped,
           HandoverFollowsPlan, ManagedRun, RootAlive, ActiveTracer
  <2> QED BY <2>1, <2>3, <2>4, <2>5, <2>6, <2>7, <2>8, <2>9 DEF Safe, FollowsPlan
<1> QED BY <1>1 DEF Wait, processVars, threadVars, alertVars, fileVars, runnerVars

LEMMA StopTraceSafe ==
  ASSUME SupervisorInv, StopTrace
  PROVE  Safe'
<1>1. ASSUME Step("StopTrace"), session' = "stopped",
             UNCHANGED <<root, assigned, kids, zeros, job, monitor, joinable, tracer,
                         traceFailed, requested, rollouts, resumed,
                         runner>>
      PROVE  Safe'
  <2>1. /\ Left = {"StopTrace"} \cup Left' /\ ~Aborted /\ ~Aborted' /\ exitCode' = exitCode
        /\ todo # <<>>
        /\ "StopTrace" \notin Left'
        /\ "Decide" \in Left' => "Wait" \notin Left'
    BY <1>1, StepForward DEF Step, Aborted, InOrder, Milestones
  <2>2. /\ FollowsPlan /\ EmptyForGood /\ ClosedIsUnused /\ Succeeded
        /\ monitor \in {"none", "reading", "succeeded", "failed"}
        /\ job \in {"none", "open", "closed"}
    BY <2>1 DEF SupervisorInv, TypeOK
  <2>3. RootFollowsPlan'
    BY <1>1, <2>1, <2>2
       DEF FollowsPlan, RootFollowsPlan, MonitorFollowsPlan, TraceFollowsPlan, JobFollowsPlan,
           ObservedUntilStopped, HandoverFollowsPlan, ManagedRun, RootAlive, ActiveTracer,
           EmptyForGood
  <2>4. MonitorFollowsPlan'
    BY <1>1, <2>1, <2>2
       DEF FollowsPlan, RootFollowsPlan, MonitorFollowsPlan, TraceFollowsPlan, JobFollowsPlan,
           ObservedUntilStopped, HandoverFollowsPlan, ManagedRun, RootAlive, ActiveTracer,
           EmptyForGood
  <2>5. TraceFollowsPlan'
    BY <1>1, <2>1, <2>2
       DEF FollowsPlan, RootFollowsPlan, MonitorFollowsPlan, TraceFollowsPlan, JobFollowsPlan,
           ObservedUntilStopped, HandoverFollowsPlan, ManagedRun, RootAlive, ActiveTracer
  <2>6. JobFollowsPlan'
    BY <1>1, <2>1, <2>2
       DEF FollowsPlan, RootFollowsPlan, MonitorFollowsPlan, TraceFollowsPlan, JobFollowsPlan,
           ObservedUntilStopped, HandoverFollowsPlan, ManagedRun, RootAlive, ActiveTracer
  <2>7. ObservedUntilStopped'
    BY <1>1, <2>1, <2>2
       DEF FollowsPlan, RootFollowsPlan, MonitorFollowsPlan, TraceFollowsPlan, JobFollowsPlan,
           ObservedUntilStopped, HandoverFollowsPlan, ManagedRun, RootAlive, ActiveTracer,
           EmptyForGood
  <2>8. HandoverFollowsPlan'
    BY <1>1, <2>1, <2>2
       DEF FollowsPlan, RootFollowsPlan, MonitorFollowsPlan, TraceFollowsPlan, JobFollowsPlan,
           ObservedUntilStopped, HandoverFollowsPlan, ManagedRun, RootAlive, ActiveTracer,
           LastWritten
  <2>9. EmptyForGood' /\ ClosedIsUnused' /\ Succeeded'
    BY <1>1, <2>1, <2>2
       DEF EmptyForGood, ClosedIsUnused, Succeeded, FollowsPlan, RootFollowsPlan,
           MonitorFollowsPlan, TraceFollowsPlan, JobFollowsPlan, ObservedUntilStopped,
           HandoverFollowsPlan, ManagedRun, RootAlive, ActiveTracer
  <2> QED BY <2>1, <2>3, <2>4, <2>5, <2>6, <2>7, <2>8, <2>9 DEF Safe, FollowsPlan
<1> QED BY <1>1 DEF StopTrace, processVars, threadVars, alertVars, fileVars, runnerVars

LEMMA JoinTraceSafe ==
  ASSUME SupervisorInv, JoinTrace
  PROVE  Safe'
<1>1. ASSUME Step("JoinTrace"), tracer' = "joined", tracer = "returned",
             UNCHANGED <<root, assigned, kids, zeros, job, monitor, joinable, session,
                         traceFailed, requested, rollouts, resumed,
                         runner>>
      PROVE  Safe'
  <2>1. /\ Left = {"JoinTrace"} \cup Left' /\ ~Aborted /\ ~Aborted' /\ exitCode' = exitCode
        /\ todo # <<>>
        /\ "JoinTrace" \notin Left'
    BY <1>1, StepForward DEF Step, Aborted, InOrder, Milestones
  <2>2. /\ FollowsPlan /\ EmptyForGood /\ ClosedIsUnused /\ Succeeded
        /\ monitor \in {"none", "reading", "succeeded", "failed"}
        /\ job \in {"none", "open", "closed"}
    BY <2>1 DEF SupervisorInv, TypeOK
  <2>3. RootFollowsPlan'
    BY <1>1, <2>1, <2>2
       DEF FollowsPlan, RootFollowsPlan, MonitorFollowsPlan, TraceFollowsPlan, JobFollowsPlan,
           ObservedUntilStopped, HandoverFollowsPlan, ManagedRun, RootAlive, ActiveTracer,
           EmptyForGood
  <2>4. MonitorFollowsPlan'
    BY <1>1, <2>1, <2>2
       DEF FollowsPlan, RootFollowsPlan, MonitorFollowsPlan, TraceFollowsPlan, JobFollowsPlan,
           ObservedUntilStopped, HandoverFollowsPlan, ManagedRun, RootAlive, ActiveTracer,
           EmptyForGood
  <2>5. TraceFollowsPlan'
    BY <1>1, <2>1, <2>2
       DEF FollowsPlan, RootFollowsPlan, MonitorFollowsPlan, TraceFollowsPlan, JobFollowsPlan,
           ObservedUntilStopped, HandoverFollowsPlan, ManagedRun, RootAlive, ActiveTracer
  <2>6. JobFollowsPlan'
    BY <1>1, <2>1, <2>2
       DEF FollowsPlan, RootFollowsPlan, MonitorFollowsPlan, TraceFollowsPlan, JobFollowsPlan,
           ObservedUntilStopped, HandoverFollowsPlan, ManagedRun, RootAlive, ActiveTracer
  <2>7. ObservedUntilStopped'
    BY <1>1, <2>1, <2>2
       DEF FollowsPlan, RootFollowsPlan, MonitorFollowsPlan, TraceFollowsPlan, JobFollowsPlan,
           ObservedUntilStopped, HandoverFollowsPlan, ManagedRun, RootAlive, ActiveTracer,
           EmptyForGood
  <2>8. HandoverFollowsPlan'
    BY <1>1, <2>1, <2>2
       DEF FollowsPlan, RootFollowsPlan, MonitorFollowsPlan, TraceFollowsPlan, JobFollowsPlan,
           ObservedUntilStopped, HandoverFollowsPlan, ManagedRun, RootAlive, ActiveTracer,
           LastWritten
  <2>9. EmptyForGood' /\ ClosedIsUnused' /\ Succeeded'
    BY <1>1, <2>1, <2>2
       DEF EmptyForGood, ClosedIsUnused, Succeeded, FollowsPlan, RootFollowsPlan,
           MonitorFollowsPlan, TraceFollowsPlan, JobFollowsPlan, ObservedUntilStopped,
           HandoverFollowsPlan, ManagedRun, RootAlive, ActiveTracer
  <2> QED BY <2>1, <2>3, <2>4, <2>5, <2>6, <2>7, <2>8, <2>9 DEF Safe, FollowsPlan
<1> QED BY <1>1 DEF JoinTrace, processVars, threadVars, alertVars, fileVars, runnerVars

LEMMA CloseHandlesSafe ==
  ASSUME SupervisorInv, CloseHandles
  PROVE  Safe'
<1>1. ASSUME Step("CloseHandles"), job' = IF job = "open" THEN "closed" ELSE job,
             UNCHANGED <<root, assigned, kids, zeros, monitor, joinable, session, tracer,
                         traceFailed, requested, rollouts, resumed,
                         runner>>
      PROVE  Safe'
  <2>1. /\ Left = {"CloseHandles"} \cup Left' /\ ~Aborted /\ ~Aborted' /\ exitCode' = exitCode
        /\ todo # <<>>
        /\ "CloseHandles" \notin Left'
        /\ "Wait" \notin Left'
        /\ "JoinTrace" \notin Left'
        /\ "CreateJobObject" \notin Left'
    BY <1>1, StepForward DEF Step, Aborted, InOrder, Milestones
  <2>2. /\ FollowsPlan /\ EmptyForGood /\ ClosedIsUnused /\ Succeeded
        /\ monitor \in {"none", "reading", "succeeded", "failed"}
        /\ job \in {"none", "open", "closed"}
    BY <2>1 DEF SupervisorInv, TypeOK
  <2>3. RootFollowsPlan'
    BY <1>1, <2>1, <2>2
       DEF FollowsPlan, RootFollowsPlan, MonitorFollowsPlan, TraceFollowsPlan, JobFollowsPlan,
           ObservedUntilStopped, HandoverFollowsPlan, ManagedRun, RootAlive, ActiveTracer,
           EmptyForGood
  <2>4. MonitorFollowsPlan'
    BY <1>1, <2>1, <2>2
       DEF FollowsPlan, RootFollowsPlan, MonitorFollowsPlan, TraceFollowsPlan, JobFollowsPlan,
           ObservedUntilStopped, HandoverFollowsPlan, ManagedRun, RootAlive, ActiveTracer,
           EmptyForGood
  <2>5. TraceFollowsPlan'
    BY <1>1, <2>1, <2>2
       DEF FollowsPlan, RootFollowsPlan, MonitorFollowsPlan, TraceFollowsPlan, JobFollowsPlan,
           ObservedUntilStopped, HandoverFollowsPlan, ManagedRun, RootAlive, ActiveTracer
  <2>6. JobFollowsPlan'
    BY <1>1, <2>1, <2>2
       DEF FollowsPlan, RootFollowsPlan, MonitorFollowsPlan, TraceFollowsPlan, JobFollowsPlan,
           ObservedUntilStopped, HandoverFollowsPlan, ManagedRun, RootAlive, ActiveTracer
  <2>7. ObservedUntilStopped'
    BY <1>1, <2>1, <2>2
       DEF FollowsPlan, RootFollowsPlan, MonitorFollowsPlan, TraceFollowsPlan, JobFollowsPlan,
           ObservedUntilStopped, HandoverFollowsPlan, ManagedRun, RootAlive, ActiveTracer,
           EmptyForGood
  <2>8. HandoverFollowsPlan'
    BY <1>1, <2>1, <2>2
       DEF FollowsPlan, RootFollowsPlan, MonitorFollowsPlan, TraceFollowsPlan, JobFollowsPlan,
           ObservedUntilStopped, HandoverFollowsPlan, ManagedRun, RootAlive, ActiveTracer,
           LastWritten
  <2>9. EmptyForGood' /\ ClosedIsUnused' /\ Succeeded'
    BY <1>1, <2>1, <2>2
       DEF EmptyForGood, ClosedIsUnused, Succeeded, FollowsPlan, RootFollowsPlan,
           MonitorFollowsPlan, TraceFollowsPlan, JobFollowsPlan, ObservedUntilStopped,
           HandoverFollowsPlan, ManagedRun, RootAlive, ActiveTracer
  <2> QED BY <2>1, <2>3, <2>4, <2>5, <2>6, <2>7, <2>8, <2>9 DEF Safe, FollowsPlan
<1> QED BY <1>1 DEF CloseHandles, processVars, threadVars, alertVars, fileVars, runnerVars

\* What may become of the processes once the root has run: it may end, and descendants
\* may come and go while something runs.
LEMMA QuietBecome ==
  ASSUME EmptyForGood, NEW r \in {root, "ended"}, r = root \/ RootAlive,
         kids \in 0..MaxKids, NEW k \in 0..MaxKids, k > 0 => ManagedRun, Become(r, k),
         monitor' = monitor, zeros \in Nat
  PROVE  /\ root' = r /\ kids' = k /\ assigned' = assigned
         /\ ManagedRun' => ManagedRun
         /\ RootAlive' => RootAlive
         /\ root' = "none" <=> root = "none"
         /\ EmptyForGood'
<1> USE SupervisorAssumption
<1>1. root' = r /\ kids' = k /\ assigned' = assigned
  BY DEF Become
<1>2. ManagedRun' => ManagedRun
  BY <1>1 DEF ManagedRun
<1>3. (RootAlive' => RootAlive) /\ (root' = "none" <=> root = "none")
  BY <1>1 DEF RootAlive
<1>4. zeros' # zeros => assigned /\ ~(r \in {"suspended", "running"}) /\ k = 0
  BY DEF Become, JobActive, EmptyForGood, ManagedRun, RootAlive
<1>5. ASSUME zeros' > 0 \/ monitor' = "succeeded" PROVE assigned' /\ ~RootAlive' /\ kids' = 0
  <2>1. CASE zeros' # zeros
    BY <1>1, <1>4, <2>1 DEF RootAlive
  <2>2. CASE zeros' = zeros
    <3>1. assigned /\ ~RootAlive /\ kids = 0
      BY <1>5, <2>2 DEF EmptyForGood
    <3>2. ~ManagedRun
      BY <3>1 DEF ManagedRun, RootAlive
    <3> QED BY <1>1, <1>3, <3>1, <3>2
  <2> QED BY <2>1, <2>2
<1>6. ManagedRun' => assigned'
  BY <1>1, <1>2 DEF EmptyForGood
<1> QED BY <1>1, <1>2, <1>3, <1>5, <1>6 DEF EmptyForGood

\* TerminateRoot and TerminateManagedJob only end processes.
LEMMA TerminationIsQuiet ==
  ASSUME EmptyForGood, TypeOK, monitor' = monitor, TerminateRoot \/ TerminateManagedJob
  PROVE  /\ assigned' = assigned
         /\ ManagedRun' => ManagedRun
         /\ RootAlive' => RootAlive
         /\ TerminateRoot => ~RootAlive'
         /\ root' = "none" <=> root = "none"
         /\ EmptyForGood'
<1>1. kids \in 0..MaxKids /\ 0 \in 0..MaxKids /\ zeros \in Nat
  BY SupervisorAssumption DEF TypeOK
<1>2. kids > 0 => ManagedRun
  BY DEF ManagedRun
<1>3. ASSUME TerminateRoot PROVE Become(IF RootAlive THEN "ended" ELSE root, kids)
  BY <1>3 DEF TerminateRoot
<1>4. ASSUME TerminateManagedJob, ~TerminateRoot
      PROVE  Become(IF assigned /\ RootAlive THEN "ended" ELSE root, 0)
  BY <1>4 DEF TerminateManagedJob
<1>5. CASE TerminateRoot
  <2>1. PICK r \in {root, "ended"} :
          /\ r = root \/ RootAlive
          /\ Become(r, kids)
          /\ r = IF RootAlive THEN "ended" ELSE root
    BY <1>3, <1>5
  <2>2. /\ root' = r /\ assigned' = assigned /\ (ManagedRun' => ManagedRun)
        /\ (RootAlive' => RootAlive) /\ (root' = "none" <=> root = "none") /\ EmptyForGood'
    BY <1>1, <1>2, <2>1, QuietBecome
  <2>3. ~RootAlive'
    BY <2>1, <2>2 DEF RootAlive
  <2> QED BY <2>2, <2>3
<1>6. CASE ~TerminateRoot
  <2>1. PICK r \in {root, "ended"} : (r = root \/ RootAlive) /\ Become(r, 0)
    BY <1>4, <1>6
  <2> QED BY <1>1, <1>6, <2>1, QuietBecome
<1> QED BY <1>5, <1>6

LEMMA TerminateSafe ==
  ASSUME SupervisorInv, Terminate
  PROVE  Safe'
<1>1. /\ UNCHANGED <<job, monitor, joinable, session, tracer, traceFailed, requested, rollouts,
                     resumed, runner>>
      /\ todo # <<>> /\ todo' = Tail(todo) /\ exitCode' = exitCode
      /\ Head(todo) \in {"TerminateRoot", "TerminateJob"}
      /\ Head(todo) = "TerminateRoot" => TerminateRoot
      /\ TerminateRoot \/ TerminateManagedJob
  BY DEF Terminate, Step, threadVars, alertVars, fileVars, runnerVars
<1>2. /\ Left = {Head(todo)} \cup Left' /\ ~Aborted /\ ~Aborted'
  BY <1>1, StepForward DEF Aborted
<1>3. /\ FollowsPlan /\ EmptyForGood /\ ClosedIsUnused /\ Succeeded /\ TypeOK
  BY <1>2 DEF SupervisorInv
<1>4. /\ assigned' = assigned
      /\ ManagedRun' => ManagedRun
      /\ RootAlive' => RootAlive /\ Head(todo) # "TerminateRoot"
      /\ root' = "none" <=> root = "none"
      /\ EmptyForGood'
  BY <1>1, <1>3, TerminationIsQuiet
<1>5. \A m \in Milestones \ {"TerminateRoot"} : m \in Left' <=> m \in Left
  BY <1>1, <1>2 DEF Milestones
<1>6. Head(todo) # "TerminateRoot" /\ "TerminateRoot" \in Left => "TerminateRoot" \in Left'
  BY <1>2
<1>7. runner # "none" => Left' \subseteq {"AwaitRunner"}
  BY <1>2, <1>3 DEF FollowsPlan, HandoverFollowsPlan
<1>8. RootFollowsPlan'
  BY <1>1, <1>3, <1>4, <1>5, <1>6, <1>7
     DEF FollowsPlan, RootFollowsPlan, MonitorFollowsPlan, TraceFollowsPlan, JobFollowsPlan,
         ObservedUntilStopped, HandoverFollowsPlan, ActiveTracer, Milestones
<1>9. MonitorFollowsPlan'
  BY <1>1, <1>3, <1>4, <1>5, <1>6, <1>7
     DEF FollowsPlan, RootFollowsPlan, MonitorFollowsPlan, TraceFollowsPlan, JobFollowsPlan,
         ObservedUntilStopped, HandoverFollowsPlan, ActiveTracer, Milestones
<1>10. TraceFollowsPlan'
  BY <1>1, <1>3, <1>4, <1>5, <1>6, <1>7
     DEF FollowsPlan, RootFollowsPlan, MonitorFollowsPlan, TraceFollowsPlan, JobFollowsPlan,
         ObservedUntilStopped, HandoverFollowsPlan, ActiveTracer, Milestones
<1>11. JobFollowsPlan'
  BY <1>1, <1>3, <1>4, <1>5, <1>6, <1>7
     DEF FollowsPlan, RootFollowsPlan, MonitorFollowsPlan, TraceFollowsPlan, JobFollowsPlan,
         ObservedUntilStopped, HandoverFollowsPlan, ActiveTracer, Milestones
<1>12. ObservedUntilStopped'
  BY <1>1, <1>3, <1>4, <1>5, <1>6, <1>7
     DEF FollowsPlan, RootFollowsPlan, MonitorFollowsPlan, TraceFollowsPlan, JobFollowsPlan,
         ObservedUntilStopped, HandoverFollowsPlan, ActiveTracer, Milestones
<1>13. HandoverFollowsPlan'
  BY <1>1, <1>3, <1>4, <1>5, <1>6, <1>7
     DEF FollowsPlan, RootFollowsPlan, MonitorFollowsPlan, TraceFollowsPlan, JobFollowsPlan,
         ObservedUntilStopped, HandoverFollowsPlan, ActiveTracer, LastWritten, Milestones
<1>14. ClosedIsUnused' /\ Succeeded'
  BY <1>1, <1>2, <1>3, <1>4 DEF ClosedIsUnused, Succeeded
<1> QED BY <1>2, <1>4, <1>8, <1>9, <1>10, <1>11, <1>12, <1>13, <1>14 DEF Safe, FollowsPlan

LEMMA DecideSafe ==
  ASSUME SupervisorInv, Decide
  PROVE  Safe'
<1>1. /\ todo # <<>> /\ Head(todo) = "Decide" /\ UNCHANGED Rest0
  BY DEF Decide, Rest0, processVars, threadVars, alertVars, fileVars, runnerVars
<1>2. ~Aborted /\ Left = {"Decide"}
  BY <1>1, NextStep DEF SupervisorInv, Aborted, Done, Left, InOrder
<1>3. /\ FollowsPlan /\ EmptyForGood /\ ClosedIsUnused /\ Succeeded
      /\ monitor \in {"none", "reading", "succeeded", "failed"}
  BY <1>2 DEF SupervisorInv, TypeOK
<1>4. /\ tracer = "joined" /\ ~joinable /\ job = "closed" /\ root # "none"
      /\ monitor = "failed" \/ ~ManagedRun
      /\ monitor = "none" => ~RootAlive
      /\ runner = "none"
  BY <1>2, <1>3
     DEF FollowsPlan, RootFollowsPlan, MonitorFollowsPlan, TraceFollowsPlan, JobFollowsPlan,
         ObservedUntilStopped, HandoverFollowsPlan, ManagedRun, RootAlive, ActiveTracer
<1>5. EmptyForGood' /\ ClosedIsUnused'
  BY <1>1, <1>3 DEF Rest0, EmptyForGood, ClosedIsUnused, ManagedRun, RootAlive
<1>6. CASE requested /\ todo' = StartHcsSandboxReexecution /\ exitCode' = exitCode
  <2>1. Left' = After(StartHcsSandboxReexecution, 0)
    BY <1>6, UndoPlansAre DEF Left
  <2>2. /\ "FindSession" \in Left' /\ "Decide" \notin Left' /\ "StopTrace" \notin Left'
        /\ "CreateProcess" \notin Left' /\ "AssignProcessToJobObject" \notin Left'
        /\ "Resume" \notin Left' /\ "StartMonitor" \notin Left'
        /\ "StartTraceThread" \notin Left' /\ "CloseHandles" \notin Left'
    BY <2>1, StartHcsSandboxReexecutionLeft
  <2>3. RootFollowsPlan'
    BY <1>1, <1>3, <1>4, <2>2
       DEF FollowsPlan, RootFollowsPlan, MonitorFollowsPlan, TraceFollowsPlan, JobFollowsPlan,
           ObservedUntilStopped, HandoverFollowsPlan, ManagedRun, RootAlive, ActiveTracer,
           EmptyForGood, Rest0
  <2>4. MonitorFollowsPlan'
    BY <1>1, <1>3, <1>4, <2>2
       DEF FollowsPlan, RootFollowsPlan, MonitorFollowsPlan, TraceFollowsPlan, JobFollowsPlan,
           ObservedUntilStopped, HandoverFollowsPlan, ManagedRun, RootAlive, ActiveTracer,
           EmptyForGood, Rest0
  <2>5. TraceFollowsPlan'
    BY <1>1, <1>3, <1>4, <2>2
       DEF FollowsPlan, RootFollowsPlan, MonitorFollowsPlan, TraceFollowsPlan, JobFollowsPlan,
           ObservedUntilStopped, HandoverFollowsPlan, ManagedRun, RootAlive, ActiveTracer, Rest0
  <2>6. JobFollowsPlan'
    BY <1>1, <1>3, <1>4, <2>2
       DEF FollowsPlan, RootFollowsPlan, MonitorFollowsPlan, TraceFollowsPlan, JobFollowsPlan,
           ObservedUntilStopped, HandoverFollowsPlan, ManagedRun, RootAlive, ActiveTracer, Rest0
  <2>7. ObservedUntilStopped'
    BY <1>1, <1>3, <1>4, <2>2
       DEF FollowsPlan, RootFollowsPlan, MonitorFollowsPlan, TraceFollowsPlan, JobFollowsPlan,
           ObservedUntilStopped, HandoverFollowsPlan, ManagedRun, RootAlive, ActiveTracer,
           EmptyForGood, Rest0
  <2>8. HandoverFollowsPlan'
    BY <1>1, <1>3, <1>4, <2>2
       DEF HandoverFollowsPlan, ManagedRun, RootAlive, ActiveTracer, LastWritten, Rest0
  <2>9. Succeeded' /\ ~Aborted'
    BY <1>1, <1>2, <1>3, <1>6 DEF Rest0, Succeeded, Aborted
  <2> QED BY <1>5, <2>3, <2>4, <2>5, <2>6, <2>7, <2>8, <2>9 DEF Safe, FollowsPlan
<1>7. CASE /\ ~requested /\ todo' = <<>>
           /\ exitCode' = IF traceFailed THEN "1" ELSE "0"
  <2>1. Left' = {}
    BY <1>7, NothingLeftToDo
  <2>2. ~Aborted' /\ Succeeded'
    BY <1>1, <1>4, <1>7 DEF Rest0, Aborted, Succeeded
  <2>3. RootFollowsPlan'
    BY <1>1, <1>3, <1>4, <2>1
       DEF FollowsPlan, RootFollowsPlan, MonitorFollowsPlan, TraceFollowsPlan, JobFollowsPlan,
           ObservedUntilStopped, HandoverFollowsPlan, ManagedRun, RootAlive, ActiveTracer,
           EmptyForGood, Rest0
  <2>4. MonitorFollowsPlan'
    BY <1>1, <1>3, <1>4, <2>1
       DEF FollowsPlan, RootFollowsPlan, MonitorFollowsPlan, TraceFollowsPlan, JobFollowsPlan,
           ObservedUntilStopped, HandoverFollowsPlan, ManagedRun, RootAlive, ActiveTracer,
           EmptyForGood, Rest0
  <2>5. TraceFollowsPlan'
    BY <1>1, <1>3, <1>4, <2>1
       DEF FollowsPlan, RootFollowsPlan, MonitorFollowsPlan, TraceFollowsPlan, JobFollowsPlan,
           ObservedUntilStopped, HandoverFollowsPlan, ManagedRun, RootAlive, ActiveTracer, Rest0
  <2>6. JobFollowsPlan'
    BY <1>1, <1>3, <1>4, <2>1
       DEF FollowsPlan, RootFollowsPlan, MonitorFollowsPlan, TraceFollowsPlan, JobFollowsPlan,
           ObservedUntilStopped, HandoverFollowsPlan, ManagedRun, RootAlive, ActiveTracer, Rest0
  <2>7. ObservedUntilStopped'
    BY <1>1, <1>3, <1>4, <2>1
       DEF FollowsPlan, RootFollowsPlan, MonitorFollowsPlan, TraceFollowsPlan, JobFollowsPlan,
           ObservedUntilStopped, HandoverFollowsPlan, ManagedRun, RootAlive, ActiveTracer,
           EmptyForGood, Rest0
  <2>8. HandoverFollowsPlan'
    BY <1>1, <1>3, <1>4, <2>1
       DEF HandoverFollowsPlan, ManagedRun, RootAlive, ActiveTracer, LastWritten, Rest0
  <2> QED BY <1>5, <2>2, <2>3, <2>4, <2>5, <2>6, <2>7, <2>8 DEF Safe, FollowsPlan
<1> QED BY <1>6, <1>7 DEF Decide

\* The session that is chosen was the last to be written.
LEMMA ChosenIsLast ==
  ASSUME TypeOK, resumed' \in FindInterruptedSessionId, rollouts' = rollouts
  PROVE  /\ resumed' \in DOMAIN rollouts /\ rollouts[resumed'] > 0
         /\ \A s \in DOMAIN rollouts : rollouts[s] <= rollouts[resumed']
<1> DEFINE T == {rollouts[r] : r \in RecentRollouts}
<1>1. /\ resumed' \in RecentRollouts /\ resumed' \in DOMAIN rollouts
      /\ rollouts[resumed'] >= 1 /\ rollouts[resumed'] = Max(T)
  BY DEF FindInterruptedSessionId, RecentRollouts
<1>2. \A s \in DOMAIN rollouts : rollouts[s] \in 0..MaxTime
  BY DEF TypeOK, Range
<1>3. T \in SUBSET 0..MaxTime /\ T # {} /\ MaxTime \in Nat
  BY <1>1, <1>2, SupervisorAssumption DEF RecentRollouts
<1>4. \A y \in T : Max(T) >= y
  <2> HIDE DEF T
  <2> QED BY <1>3, MaxIsGreatest
<1>5. \A s \in DOMAIN rollouts : rollouts[s] <= rollouts[resumed']
  <2> SUFFICES ASSUME NEW s \in DOMAIN rollouts PROVE rollouts[s] <= rollouts[resumed']
    OBVIOUS
  <2>1. CASE rollouts[s] >= 1
    BY <1>1, <1>2, <1>4, <2>1 DEF RecentRollouts
  <2>2. CASE ~(rollouts[s] >= 1)
    BY <1>1, <1>2, <2>2
  <2> QED BY <2>1, <2>2
<1> QED BY <1>1, <1>2, <1>5

LEMMA FindSessionSafe ==
  ASSUME SupervisorInv, FindSession
  PROVE  Safe'
<1>1. /\ todo # <<>> /\ Head(todo) = "FindSession"
      /\ UNCHANGED <<root, assigned, kids, zeros, job, monitor, joinable, session, tracer,
                     traceFailed, requested, rollouts, runner>>
  BY DEF FindSession, Step, processVars, threadVars, alertVars, fileVars, runnerVars
<1>2. /\ ~Aborted /\ "FindSession" \in Left
      /\ Left = {"FindSession"} \cup Range(Tail(todo))
      /\ InOrder("FindSession", Range(Tail(todo)))
  BY <1>1, NextStep DEF SupervisorInv, Aborted, Done, Left
<1>3. /\ FollowsPlan /\ EmptyForGood /\ ClosedIsUnused /\ Succeeded /\ TypeOK
  BY <1>2 DEF SupervisorInv
<1>4. /\ "AwaitRunner" \in Left /\ "Decide" \notin Left
      /\ "StartMonitor" \notin Left /\ "TerminateRoot" \notin Left
      /\ "FindSession" \notin Range(Tail(todo))
  BY <1>2 DEF InOrder, HcsNames, Milestones
<1>5. runner = "none" /\ EmptyForGood' /\ ClosedIsUnused'
  BY <1>1, <1>2, <1>3
     DEF EmptyForGood, ClosedIsUnused, ManagedRun, RootAlive, FollowsPlan, HandoverFollowsPlan
<1>6. CASE Step("FindSession") /\ resumed' \in FindInterruptedSessionId
  <2>1. Left = {"FindSession"} \cup Left' /\ ~Aborted' /\ todo # <<>> /\ exitCode' = exitCode
    BY <1>2, <1>6 DEF Left, Step, Aborted
  <2>2. LastWritten'
    BY <1>1, <1>3, <1>6, ChosenIsLast DEF LastWritten
  <2>3. RootFollowsPlan'
    BY <1>1, <1>3, <1>4, <1>5, <2>1, <2>2
       DEF FollowsPlan, RootFollowsPlan, MonitorFollowsPlan, TraceFollowsPlan, JobFollowsPlan,
           ObservedUntilStopped, HandoverFollowsPlan, ManagedRun, RootAlive, ActiveTracer,
           EmptyForGood
  <2>4. MonitorFollowsPlan'
    BY <1>1, <1>3, <1>4, <1>5, <2>1, <2>2
       DEF FollowsPlan, RootFollowsPlan, MonitorFollowsPlan, TraceFollowsPlan, JobFollowsPlan,
           ObservedUntilStopped, HandoverFollowsPlan, ManagedRun, RootAlive, ActiveTracer,
           EmptyForGood
  <2>5. TraceFollowsPlan'
    BY <1>1, <1>3, <1>4, <1>5, <2>1, <2>2
       DEF FollowsPlan, RootFollowsPlan, MonitorFollowsPlan, TraceFollowsPlan, JobFollowsPlan,
           ObservedUntilStopped, HandoverFollowsPlan, ManagedRun, RootAlive, ActiveTracer
  <2>6. JobFollowsPlan'
    BY <1>1, <1>3, <1>4, <1>5, <2>1, <2>2
       DEF FollowsPlan, RootFollowsPlan, MonitorFollowsPlan, TraceFollowsPlan, JobFollowsPlan,
           ObservedUntilStopped, HandoverFollowsPlan, ManagedRun, RootAlive, ActiveTracer
  <2>7. ObservedUntilStopped'
    BY <1>1, <1>3, <1>4, <1>5, <2>1, <2>2
       DEF FollowsPlan, RootFollowsPlan, MonitorFollowsPlan, TraceFollowsPlan, JobFollowsPlan,
           ObservedUntilStopped, HandoverFollowsPlan, ManagedRun, RootAlive, ActiveTracer,
           EmptyForGood
  <2>8. HandoverFollowsPlan'
    BY <1>1, <1>3, <1>4, <1>5, <2>1, <2>2
       DEF FollowsPlan, RootFollowsPlan, MonitorFollowsPlan, TraceFollowsPlan, JobFollowsPlan,
           ObservedUntilStopped, HandoverFollowsPlan, ManagedRun, RootAlive, ActiveTracer
  <2>9. Succeeded'
    BY <1>1, <1>3, <2>1 DEF Succeeded
  <2> QED BY <1>5, <2>1, <2>3, <2>4, <2>5, <2>6, <2>7, <2>8, <2>9 DEF Safe, FollowsPlan
<1>7. CASE todo' = <<>> /\ exitCode' = "1" /\ resumed' = resumed
  <2>1. Left' = {} /\ ~Aborted' /\ Succeeded'
    BY <1>7, NothingLeftToDo DEF Aborted, Succeeded
  <2>2. RootFollowsPlan'
    BY <1>1, <1>3, <1>4, <1>5, <2>1
       DEF FollowsPlan, RootFollowsPlan, MonitorFollowsPlan, TraceFollowsPlan, JobFollowsPlan,
           ObservedUntilStopped, HandoverFollowsPlan, ManagedRun, RootAlive, ActiveTracer,
           EmptyForGood
  <2>3. MonitorFollowsPlan'
    BY <1>1, <1>3, <1>4, <1>5, <2>1
       DEF FollowsPlan, RootFollowsPlan, MonitorFollowsPlan, TraceFollowsPlan, JobFollowsPlan,
           ObservedUntilStopped, HandoverFollowsPlan, ManagedRun, RootAlive, ActiveTracer,
           EmptyForGood
  <2>4. TraceFollowsPlan'
    BY <1>1, <1>3, <1>4, <1>5, <2>1
       DEF FollowsPlan, RootFollowsPlan, MonitorFollowsPlan, TraceFollowsPlan, JobFollowsPlan,
           ObservedUntilStopped, HandoverFollowsPlan, ManagedRun, RootAlive, ActiveTracer
  <2>5. JobFollowsPlan'
    BY <1>1, <1>3, <1>4, <1>5, <2>1
       DEF FollowsPlan, RootFollowsPlan, MonitorFollowsPlan, TraceFollowsPlan, JobFollowsPlan,
           ObservedUntilStopped, HandoverFollowsPlan, ManagedRun, RootAlive, ActiveTracer
  <2>6. ObservedUntilStopped'
    BY <1>1, <1>3, <1>4, <1>5, <2>1
       DEF FollowsPlan, RootFollowsPlan, MonitorFollowsPlan, TraceFollowsPlan, JobFollowsPlan,
           ObservedUntilStopped, HandoverFollowsPlan, ManagedRun, RootAlive, ActiveTracer,
           EmptyForGood
  <2>7. HandoverFollowsPlan'
    BY <1>1, <1>3, <1>4, <1>5, <2>1
       DEF ObservedUntilStopped, HandoverFollowsPlan, ManagedRun, RootAlive, ActiveTracer,
           LastWritten
  <2> QED BY <1>5, <2>1, <2>2, <2>3, <2>4, <2>5, <2>6, <2>7 DEF Safe, FollowsPlan
<1> QED BY <1>6, <1>7 DEF FindSession, processVars, threadVars, alertVars, fileVars, runnerVars

LEMMA CreateRunnerSafe ==
  ASSUME SupervisorInv, CreateRunner
  PROVE  Safe'
<1>1. ASSUME Step("CreateRunner"), runner' = "running",
             UNCHANGED <<root, assigned, kids, zeros, job, monitor, joinable, session, tracer,
                         traceFailed, requested, rollouts, resumed>>
      PROVE  Safe'
  <2>1. /\ Left = {"CreateRunner", "AwaitRunner"} /\ Left' = {"AwaitRunner"}
        /\ ~Aborted /\ ~Aborted' /\ exitCode' = exitCode /\ todo # <<>>
    <3>1. /\ Left = {"CreateRunner"} \cup Left' /\ ~Aborted /\ todo # <<>>
          /\ InOrder("CreateRunner", Left')
      BY <1>1, StepForward DEF Step
    <3>2. Left' = {"AwaitRunner"}
      BY <3>1 DEF InOrder
    <3> QED BY <1>1, <3>1, <3>2 DEF Step, Aborted
  <2>2. /\ FollowsPlan /\ EmptyForGood /\ ClosedIsUnused /\ Succeeded
    BY <2>1 DEF SupervisorInv
  <2>3. RootFollowsPlan'
    BY <1>1, <2>1, <2>2
       DEF FollowsPlan, RootFollowsPlan, MonitorFollowsPlan, TraceFollowsPlan, JobFollowsPlan,
           ObservedUntilStopped, HandoverFollowsPlan, ManagedRun, RootAlive, ActiveTracer,
           EmptyForGood
  <2>4. MonitorFollowsPlan'
    BY <1>1, <2>1, <2>2
       DEF FollowsPlan, RootFollowsPlan, MonitorFollowsPlan, TraceFollowsPlan, JobFollowsPlan,
           ObservedUntilStopped, HandoverFollowsPlan, ManagedRun, RootAlive, ActiveTracer,
           EmptyForGood
  <2>5. TraceFollowsPlan'
    BY <1>1, <2>1, <2>2
       DEF FollowsPlan, RootFollowsPlan, MonitorFollowsPlan, TraceFollowsPlan, JobFollowsPlan,
           ObservedUntilStopped, HandoverFollowsPlan, ManagedRun, RootAlive, ActiveTracer
  <2>6. JobFollowsPlan'
    BY <1>1, <2>1, <2>2
       DEF FollowsPlan, RootFollowsPlan, MonitorFollowsPlan, TraceFollowsPlan, JobFollowsPlan,
           ObservedUntilStopped, HandoverFollowsPlan, ManagedRun, RootAlive, ActiveTracer
  <2>7. ObservedUntilStopped'
    BY <1>1, <2>1, <2>2
       DEF FollowsPlan, RootFollowsPlan, MonitorFollowsPlan, TraceFollowsPlan, JobFollowsPlan,
           ObservedUntilStopped, HandoverFollowsPlan, ManagedRun, RootAlive, ActiveTracer,
           EmptyForGood
  <2>8. HandoverFollowsPlan'
    BY <1>1, <2>1, <2>2
       DEF FollowsPlan, RootFollowsPlan, MonitorFollowsPlan, TraceFollowsPlan, JobFollowsPlan,
           ObservedUntilStopped, HandoverFollowsPlan, ManagedRun, RootAlive, ActiveTracer,
           LastWritten
  <2>9. EmptyForGood' /\ ClosedIsUnused' /\ Succeeded'
    BY <1>1, <2>1, <2>2 DEF EmptyForGood, ClosedIsUnused, Succeeded, ManagedRun, RootAlive
  <2> QED BY <2>1, <2>3, <2>4, <2>5, <2>6, <2>7, <2>8, <2>9 DEF Safe, FollowsPlan
<1>2. ASSUME Fail("CreateRunner", "create runner") PROVE Safe'
  BY <1>2, FailingStep DEF Names
<1> QED BY <1>1, <1>2 DEF CreateRunner, processVars, threadVars, alertVars, fileVars, runnerVars

LEMMA AwaitRunnerSafe ==
  ASSUME SupervisorInv, AwaitRunner
  PROVE  Safe'
<1>1. /\ todo # <<>> /\ Head(todo) = "AwaitRunner" /\ runner = "ended"
      /\ todo' = <<>> /\ exitCode' = "runner" /\ UNCHANGED Rest0
  BY DEF AwaitRunner, Rest0, processVars, threadVars, alertVars, fileVars, runnerVars
<1>2. ~Aborted /\ ~Aborted' /\ Left' = {} /\ Succeeded'
  BY <1>1, NothingLeftToDo DEF SupervisorInv, Aborted, Done, Succeeded
<1>3. /\ FollowsPlan /\ EmptyForGood /\ ClosedIsUnused
  BY <1>2 DEF SupervisorInv
<1>4. Left \subseteq {"AwaitRunner"}
  BY <1>1, <1>3 DEF FollowsPlan, HandoverFollowsPlan
<1>5. EmptyForGood' /\ ClosedIsUnused'
  BY <1>1, <1>3 DEF Rest0, EmptyForGood, ClosedIsUnused, ManagedRun, RootAlive
<1>6. RootFollowsPlan'
  BY <1>1, <1>2, <1>3, <1>4
     DEF FollowsPlan, RootFollowsPlan, MonitorFollowsPlan, TraceFollowsPlan, JobFollowsPlan,
         ObservedUntilStopped, HandoverFollowsPlan, ManagedRun, RootAlive, ActiveTracer,
         EmptyForGood, Rest0
<1>7. MonitorFollowsPlan'
  BY <1>1, <1>2, <1>3, <1>4
     DEF FollowsPlan, RootFollowsPlan, MonitorFollowsPlan, TraceFollowsPlan, JobFollowsPlan,
         ObservedUntilStopped, HandoverFollowsPlan, ManagedRun, RootAlive, ActiveTracer,
         EmptyForGood, Rest0
<1>8. TraceFollowsPlan'
  BY <1>1, <1>2, <1>3, <1>4
     DEF FollowsPlan, RootFollowsPlan, MonitorFollowsPlan, TraceFollowsPlan, JobFollowsPlan,
         ObservedUntilStopped, HandoverFollowsPlan, ManagedRun, RootAlive, ActiveTracer, Rest0
<1>9. JobFollowsPlan'
  BY <1>1, <1>2, <1>3, <1>4
     DEF FollowsPlan, RootFollowsPlan, MonitorFollowsPlan, TraceFollowsPlan, JobFollowsPlan,
         ObservedUntilStopped, HandoverFollowsPlan, ManagedRun, RootAlive, ActiveTracer, Rest0
<1>10. ObservedUntilStopped'
  BY <1>1, <1>2, <1>3, <1>4
     DEF FollowsPlan, RootFollowsPlan, MonitorFollowsPlan, TraceFollowsPlan, JobFollowsPlan,
         ObservedUntilStopped, HandoverFollowsPlan, ManagedRun, RootAlive, ActiveTracer,
         EmptyForGood, Rest0
<1>11. HandoverFollowsPlan'
  BY <1>1, <1>2, <1>3, <1>4
     DEF FollowsPlan, RootFollowsPlan, MonitorFollowsPlan, TraceFollowsPlan, JobFollowsPlan,
         ObservedUntilStopped, HandoverFollowsPlan, ManagedRun, RootAlive, ActiveTracer,
         LastWritten, Rest0
<1> QED BY <1>2, <1>5, <1>6, <1>7, <1>8, <1>9, <1>10, <1>11 DEF Safe, FollowsPlan

LEMMA MainSafe ==
  ASSUME SupervisorInv, Main
  PROVE  Safe'
<1>1. ASSUME NEW name \in {"FindHome", "CreateIoCompletionPort", "SetInformationJobObject",
                         "FindProvider", "Bootstrap", "FindRunner", "InstallSupportFiles"},
             Step(name), UNCHANGED <<job, processVars, threadVars, alertVars>>
      PROVE  Safe'
  <2>1. name \notin Milestones /\ UNCHANGED Rest0
    BY <1>1 DEF Milestones, Rest0, processVars, threadVars, alertVars, fileVars, runnerVars
  <2> QED BY <1>1, <2>1, PassingStep
<1>2. ASSUME NEW name \in {"FindHome", "CreateIoCompletionPort", "SetInformationJobObject",
                         "Bootstrap", "FindRunner", "InstallSupportFiles"},
             NEW fault, Fail(name, fault)
      PROVE  Safe'
  BY <1>2, FailingStep DEF Names
<1>3. ASSUME FindHome \/ CreateIoCompletionPort \/ SetInformationJobObject \/ FindProvider
             \/ Bootstrap \/ FindRunner \/ InstallSupportFiles \/ StopThrows
      PROVE  Safe'
  BY <1>1, <1>2, <1>3, AbortingStep
     DEF FindHome, CreateIoCompletionPort, SetInformationJobObject, FindProvider, Bootstrap,
         FindRunner, InstallSupportFiles, StopThrows
<1>4. ASSUME NEW name \in {"PostZero", "JoinMonitor"}, Step(name) PROVE ~joinable
  <2>1. /\ Left = {name} \cup Left' /\ ~Aborted /\ "Wait" \notin Left
    BY <1>4, StepForward DEF Step, InOrder
  <2> QED BY <2>1 DEF SupervisorInv, FollowsPlan, MonitorFollowsPlan
<1>5. ASSUME PostZero PROVE Safe'
  <2>1. Step("PostZero") /\ UNCHANGED Rest0
    BY <1>4, <1>5 DEF PostZero, Rest0, threadVars, alertVars, fileVars, runnerVars
  <2> QED BY <2>1, PassingStep DEF Milestones
<1>6. ASSUME JoinMonitor PROVE Safe'
  <2>1. Step("JoinMonitor") /\ ~joinable /\ ~joinable'
    BY <1>4, <1>6 DEF JoinMonitor
  <2>2. joinable \in BOOLEAN /\ joinable' \in BOOLEAN
    BY <1>6 DEF JoinMonitor, SupervisorInv, TypeOK
  <2>3. joinable' = joinable
    BY <2>1, <2>2
  <2>4. UNCHANGED Rest0
    BY <1>6, <2>3 DEF JoinMonitor, Rest0, processVars, alertVars, fileVars, runnerVars
  <2> QED BY <2>1, <2>4, PassingStep DEF Milestones
<1> QED BY <1>3, <1>5, <1>6, CreateProcessSafe, CreateJobObjectSafe,
           AssignProcessToJobObjectSafe, StartMonitorSafe, OpenTraceSafe, StartTraceThreadSafe,
           ResumeSafe, WaitSafe, StopTraceSafe, JoinTraceSafe, TerminateSafe, CloseHandlesSafe,
           DecideSafe, FindSessionSafe, CreateRunnerSafe, AwaitRunnerSafe
           DEF Main

------------------------------------------------------------------------------
(* The other threads, the managed processes and other programs.            *)

LEMMA MonitorJobSafe ==
  ASSUME SupervisorInv, MonitorJob
  PROVE  Safe'
<1>1. /\ UNCHANGED <<todo, exitCode, root, assigned, kids, job, joinable, session, tracer,
                     traceFailed, requested, rollouts, resumed, runner>>
      /\ monitor = "reading"
      /\ ~Done
      /\ zeros > 0
      /\ zeros' = zeros - 1
      /\ monitor' = "succeeded"
  BY DEF MonitorJob, processVars, threadVars, alertVars, fileVars, runnerVars
<1>2. Left' = Left /\ (Aborted' <=> Aborted) /\ (Done' <=> Done)
  BY <1>1 DEF Left, Aborted, Done
<1>3. /\ ~Aborted => FollowsPlan
      /\ Aborted => Done /\ runner = "none"
      /\ EmptyForGood /\ ClosedIsUnused /\ Succeeded /\ TypeOK
  BY DEF SupervisorInv
<1>5. ~Aborted => RootFollowsPlan'
  BY <1>1, <1>2, <1>3
     DEF FollowsPlan, RootFollowsPlan, MonitorFollowsPlan, TraceFollowsPlan, JobFollowsPlan,
         ObservedUntilStopped, HandoverFollowsPlan, ManagedRun, RootAlive, ActiveTracer,
         EmptyForGood
<1>6. ~Aborted => MonitorFollowsPlan'
  BY <1>1, <1>2, <1>3
     DEF FollowsPlan, RootFollowsPlan, MonitorFollowsPlan, TraceFollowsPlan, JobFollowsPlan,
         ObservedUntilStopped, HandoverFollowsPlan, ManagedRun, RootAlive, ActiveTracer,
         EmptyForGood
<1>7. ~Aborted => TraceFollowsPlan'
  BY <1>1, <1>2, <1>3
     DEF FollowsPlan, RootFollowsPlan, MonitorFollowsPlan, TraceFollowsPlan, JobFollowsPlan,
         ObservedUntilStopped, HandoverFollowsPlan, ManagedRun, RootAlive, ActiveTracer
<1>8. ~Aborted => JobFollowsPlan'
  BY <1>1, <1>2, <1>3
     DEF FollowsPlan, RootFollowsPlan, MonitorFollowsPlan, TraceFollowsPlan, JobFollowsPlan,
         ObservedUntilStopped, HandoverFollowsPlan, ManagedRun, RootAlive, ActiveTracer
<1>9. ~Aborted => ObservedUntilStopped'
  BY <1>1, <1>2, <1>3
     DEF ObservedUntilStopped, HandoverFollowsPlan, ManagedRun, RootAlive, ActiveTracer,
         EmptyForGood
<1>10. ~Aborted => HandoverFollowsPlan'
  BY <1>1, <1>2, <1>3
     DEF FollowsPlan, RootFollowsPlan, MonitorFollowsPlan, TraceFollowsPlan, JobFollowsPlan,
         ObservedUntilStopped, HandoverFollowsPlan, ManagedRun, RootAlive, ActiveTracer,
         LastWritten
<1>11. EmptyForGood' /\ ClosedIsUnused' /\ Succeeded'
  BY <1>1, <1>2, <1>3
     DEF TypeOK, EmptyForGood, ClosedIsUnused, Succeeded, ManagedRun, RootAlive, ActiveTracer
<1>12. Aborted' => Done' /\ runner' = "none"
  BY <1>1, <1>2, <1>3
<1> QED BY <1>2, <1>5, <1>6, <1>7, <1>8, <1>9, <1>10, <1>11, <1>12 DEF Safe, FollowsPlan

LEMMA MonitorFailsSafe ==
  ASSUME SupervisorInv, MonitorFails
  PROVE  Safe'
<1>1. /\ UNCHANGED <<todo, exitCode, root, assigned, kids, zeros, job, joinable, session, tracer,
                     traceFailed, requested, rollouts, resumed, runner>>
      /\ monitor = "reading"
      /\ ~Done
      /\ monitor' = "failed"
  BY DEF MonitorFails, processVars, threadVars, alertVars, fileVars, runnerVars
<1>2. Left' = Left /\ (Aborted' <=> Aborted) /\ (Done' <=> Done)
  BY <1>1 DEF Left, Aborted, Done
<1>3. /\ ~Aborted => FollowsPlan
      /\ Aborted => Done /\ runner = "none"
      /\ EmptyForGood /\ ClosedIsUnused /\ Succeeded /\ TypeOK
  BY DEF SupervisorInv
<1>5. ~Aborted => RootFollowsPlan'
  BY <1>1, <1>2, <1>3
     DEF FollowsPlan, RootFollowsPlan, MonitorFollowsPlan, TraceFollowsPlan, JobFollowsPlan,
         ObservedUntilStopped, HandoverFollowsPlan, ManagedRun, RootAlive, ActiveTracer,
         EmptyForGood
<1>6. ~Aborted => MonitorFollowsPlan'
  BY <1>1, <1>2, <1>3
     DEF FollowsPlan, RootFollowsPlan, MonitorFollowsPlan, TraceFollowsPlan, JobFollowsPlan,
         ObservedUntilStopped, HandoverFollowsPlan, ManagedRun, RootAlive, ActiveTracer,
         EmptyForGood
<1>7. ~Aborted => TraceFollowsPlan'
  BY <1>1, <1>2, <1>3
     DEF FollowsPlan, RootFollowsPlan, MonitorFollowsPlan, TraceFollowsPlan, JobFollowsPlan,
         ObservedUntilStopped, HandoverFollowsPlan, ManagedRun, RootAlive, ActiveTracer
<1>8. ~Aborted => JobFollowsPlan'
  BY <1>1, <1>2, <1>3
     DEF FollowsPlan, RootFollowsPlan, MonitorFollowsPlan, TraceFollowsPlan, JobFollowsPlan,
         ObservedUntilStopped, HandoverFollowsPlan, ManagedRun, RootAlive, ActiveTracer
<1>9. ~Aborted => ObservedUntilStopped'
  BY <1>1, <1>2, <1>3
     DEF ObservedUntilStopped, HandoverFollowsPlan, ManagedRun, RootAlive, ActiveTracer,
         EmptyForGood
<1>10. ~Aborted => HandoverFollowsPlan'
  BY <1>1, <1>2, <1>3
     DEF FollowsPlan, RootFollowsPlan, MonitorFollowsPlan, TraceFollowsPlan, JobFollowsPlan,
         ObservedUntilStopped, HandoverFollowsPlan, ManagedRun, RootAlive, ActiveTracer,
         LastWritten
<1>11. EmptyForGood' /\ ClosedIsUnused' /\ Succeeded'
  BY <1>1, <1>2, <1>3
     DEF TypeOK, EmptyForGood, ClosedIsUnused, Succeeded, ManagedRun, RootAlive, ActiveTracer
<1>12. Aborted' => Done' /\ runner' = "none"
  BY <1>1, <1>2, <1>3
<1> QED BY <1>2, <1>5, <1>6, <1>7, <1>8, <1>9, <1>10, <1>11, <1>12 DEF Safe, FollowsPlan

LEMMA HandleViolationSafe ==
  ASSUME SupervisorInv, HandleViolation
  PROVE  Safe'
<1>1. /\ UNCHANGED <<todo, exitCode, root, assigned, kids, zeros, job, monitor, joinable, session,
                     tracer, traceFailed, rollouts, resumed, runner>>
      /\ tracer = "processing"
  BY DEF HandleViolation, processVars, threadVars, alertVars, fileVars, runnerVars
<1>2. Left' = Left /\ (Aborted' <=> Aborted) /\ (Done' <=> Done)
  BY <1>1 DEF Left, Aborted, Done
<1>3. /\ ~Aborted => FollowsPlan
      /\ Aborted => Done /\ runner = "none"
      /\ EmptyForGood /\ ClosedIsUnused /\ Succeeded /\ TypeOK
  BY DEF SupervisorInv
<1>5. ~Aborted => RootFollowsPlan'
  BY <1>1, <1>2, <1>3
     DEF FollowsPlan, RootFollowsPlan, MonitorFollowsPlan, TraceFollowsPlan, JobFollowsPlan,
         ObservedUntilStopped, HandoverFollowsPlan, ManagedRun, RootAlive, ActiveTracer,
         EmptyForGood
<1>6. ~Aborted => MonitorFollowsPlan'
  BY <1>1, <1>2, <1>3
     DEF FollowsPlan, RootFollowsPlan, MonitorFollowsPlan, TraceFollowsPlan, JobFollowsPlan,
         ObservedUntilStopped, HandoverFollowsPlan, ManagedRun, RootAlive, ActiveTracer,
         EmptyForGood
<1>7. ~Aborted => TraceFollowsPlan'
  BY <1>1, <1>2, <1>3
     DEF FollowsPlan, RootFollowsPlan, MonitorFollowsPlan, TraceFollowsPlan, JobFollowsPlan,
         ObservedUntilStopped, HandoverFollowsPlan, ManagedRun, RootAlive, ActiveTracer
<1>8. ~Aborted => JobFollowsPlan'
  BY <1>1, <1>2, <1>3
     DEF FollowsPlan, RootFollowsPlan, MonitorFollowsPlan, TraceFollowsPlan, JobFollowsPlan,
         ObservedUntilStopped, HandoverFollowsPlan, ManagedRun, RootAlive, ActiveTracer
<1>9. ~Aborted => ObservedUntilStopped'
  BY <1>1, <1>2, <1>3
     DEF FollowsPlan, RootFollowsPlan, MonitorFollowsPlan, TraceFollowsPlan, JobFollowsPlan,
         ObservedUntilStopped, HandoverFollowsPlan, ManagedRun, RootAlive, ActiveTracer,
         EmptyForGood
<1>10. ~Aborted => HandoverFollowsPlan'
  BY <1>1, <1>2, <1>3
     DEF FollowsPlan, RootFollowsPlan, MonitorFollowsPlan, TraceFollowsPlan, JobFollowsPlan,
         ObservedUntilStopped, HandoverFollowsPlan, ManagedRun, RootAlive, ActiveTracer,
         LastWritten
<1>11. EmptyForGood' /\ ClosedIsUnused' /\ Succeeded'
  BY <1>1, <1>2, <1>3
     DEF TypeOK, EmptyForGood, ClosedIsUnused, Succeeded, ManagedRun, RootAlive, ActiveTracer
<1>12. Aborted' => Done' /\ runner' = "none"
  BY <1>1, <1>2, <1>3
<1> QED BY <1>2, <1>5, <1>6, <1>7, <1>8, <1>9, <1>10, <1>11, <1>12 DEF Safe, FollowsPlan

LEMMA ProcessReturnsSafe ==
  ASSUME SupervisorInv, ProcessReturns
  PROVE  Safe'
<1>1. /\ UNCHANGED <<todo, exitCode, root, assigned, kids, zeros, job, monitor, joinable, session,
                     traceFailed, requested, rollouts, resumed, runner>>
      /\ tracer = "processing"
      /\ tracer' = "returned"
  BY DEF ProcessReturns, processVars, threadVars, alertVars, fileVars, runnerVars
<1>2. Left' = Left /\ (Aborted' <=> Aborted) /\ (Done' <=> Done)
  BY <1>1 DEF Left, Aborted, Done
<1>3. /\ ~Aborted => FollowsPlan
      /\ Aborted => Done /\ runner = "none"
      /\ EmptyForGood /\ ClosedIsUnused /\ Succeeded /\ TypeOK
  BY DEF SupervisorInv
<1>5. ~Aborted => RootFollowsPlan'
  BY <1>1, <1>2, <1>3
     DEF FollowsPlan, RootFollowsPlan, MonitorFollowsPlan, TraceFollowsPlan, JobFollowsPlan,
         ObservedUntilStopped, HandoverFollowsPlan, ManagedRun, RootAlive, ActiveTracer,
         EmptyForGood
<1>6. ~Aborted => MonitorFollowsPlan'
  BY <1>1, <1>2, <1>3
     DEF FollowsPlan, RootFollowsPlan, MonitorFollowsPlan, TraceFollowsPlan, JobFollowsPlan,
         ObservedUntilStopped, HandoverFollowsPlan, ManagedRun, RootAlive, ActiveTracer,
         EmptyForGood
<1>7. ~Aborted => TraceFollowsPlan'
  BY <1>1, <1>2, <1>3
     DEF FollowsPlan, RootFollowsPlan, MonitorFollowsPlan, TraceFollowsPlan, JobFollowsPlan,
         ObservedUntilStopped, HandoverFollowsPlan, ManagedRun, RootAlive, ActiveTracer
<1>8. ~Aborted => JobFollowsPlan'
  BY <1>1, <1>2, <1>3
     DEF FollowsPlan, RootFollowsPlan, MonitorFollowsPlan, TraceFollowsPlan, JobFollowsPlan,
         ObservedUntilStopped, HandoverFollowsPlan, ManagedRun, RootAlive, ActiveTracer
<1>9. ~Aborted => ObservedUntilStopped'
  BY <1>1, <1>2, <1>3
     DEF FollowsPlan, RootFollowsPlan, MonitorFollowsPlan, TraceFollowsPlan, JobFollowsPlan,
         ObservedUntilStopped, HandoverFollowsPlan, ManagedRun, RootAlive, ActiveTracer,
         EmptyForGood
<1>10. ~Aborted => HandoverFollowsPlan'
  BY <1>1, <1>2, <1>3
     DEF FollowsPlan, RootFollowsPlan, MonitorFollowsPlan, TraceFollowsPlan, JobFollowsPlan,
         ObservedUntilStopped, HandoverFollowsPlan, ManagedRun, RootAlive, ActiveTracer,
         LastWritten
<1>11. EmptyForGood' /\ ClosedIsUnused' /\ Succeeded'
  BY <1>1, <1>2, <1>3
     DEF TypeOK, EmptyForGood, ClosedIsUnused, Succeeded, ManagedRun, RootAlive, ActiveTracer
<1>12. Aborted' => Done' /\ runner' = "none"
  BY <1>1, <1>2, <1>3
<1> QED BY <1>2, <1>5, <1>6, <1>7, <1>8, <1>9, <1>10, <1>11, <1>12 DEF Safe, FollowsPlan

LEMMA ProcessThrowsSafe ==
  ASSUME SupervisorInv, ProcessThrows
  PROVE  Safe'
<1>1. /\ UNCHANGED <<todo, exitCode, root, assigned, kids, zeros, job, monitor, joinable, session,
                     requested, rollouts, resumed, runner>>
      /\ tracer = "processing"
      /\ tracer' = "throwing"
  BY DEF ProcessThrows, processVars, threadVars, alertVars, fileVars, runnerVars
<1>2. Left' = Left /\ (Aborted' <=> Aborted) /\ (Done' <=> Done)
  BY <1>1 DEF Left, Aborted, Done
<1>3. /\ ~Aborted => FollowsPlan
      /\ Aborted => Done /\ runner = "none"
      /\ EmptyForGood /\ ClosedIsUnused /\ Succeeded /\ TypeOK
  BY DEF SupervisorInv
<1>5. ~Aborted => RootFollowsPlan'
  BY <1>1, <1>2, <1>3
     DEF FollowsPlan, RootFollowsPlan, MonitorFollowsPlan, TraceFollowsPlan, JobFollowsPlan,
         ObservedUntilStopped, HandoverFollowsPlan, ManagedRun, RootAlive, ActiveTracer,
         EmptyForGood
<1>6. ~Aborted => MonitorFollowsPlan'
  BY <1>1, <1>2, <1>3
     DEF FollowsPlan, RootFollowsPlan, MonitorFollowsPlan, TraceFollowsPlan, JobFollowsPlan,
         ObservedUntilStopped, HandoverFollowsPlan, ManagedRun, RootAlive, ActiveTracer,
         EmptyForGood
<1>7. ~Aborted => TraceFollowsPlan'
  BY <1>1, <1>2, <1>3
     DEF FollowsPlan, RootFollowsPlan, MonitorFollowsPlan, TraceFollowsPlan, JobFollowsPlan,
         ObservedUntilStopped, HandoverFollowsPlan, ManagedRun, RootAlive, ActiveTracer
<1>8. ~Aborted => JobFollowsPlan'
  BY <1>1, <1>2, <1>3
     DEF FollowsPlan, RootFollowsPlan, MonitorFollowsPlan, TraceFollowsPlan, JobFollowsPlan,
         ObservedUntilStopped, HandoverFollowsPlan, ManagedRun, RootAlive, ActiveTracer
<1>9. ~Aborted => ObservedUntilStopped'
  BY <1>1, <1>2, <1>3
     DEF FollowsPlan, RootFollowsPlan, MonitorFollowsPlan, TraceFollowsPlan, JobFollowsPlan,
         ObservedUntilStopped, HandoverFollowsPlan, ManagedRun, RootAlive, ActiveTracer,
         EmptyForGood
<1>10. ~Aborted => HandoverFollowsPlan'
  BY <1>1, <1>2, <1>3
     DEF FollowsPlan, RootFollowsPlan, MonitorFollowsPlan, TraceFollowsPlan, JobFollowsPlan,
         ObservedUntilStopped, HandoverFollowsPlan, ManagedRun, RootAlive, ActiveTracer,
         LastWritten
<1>11. EmptyForGood' /\ ClosedIsUnused' /\ Succeeded'
  BY <1>1, <1>2, <1>3
     DEF TypeOK, EmptyForGood, ClosedIsUnused, Succeeded, ManagedRun, RootAlive, ActiveTracer
<1>12. Aborted' => Done' /\ runner' = "none"
  BY <1>1, <1>2, <1>3
<1> QED BY <1>2, <1>5, <1>6, <1>7, <1>8, <1>9, <1>10, <1>11, <1>12 DEF Safe, FollowsPlan

LEMMA ViolateSafe ==
  ASSUME SupervisorInv, Violate
  PROVE  Safe'
<1>1. /\ UNCHANGED <<todo, exitCode, root, assigned, kids, zeros, job, monitor, joinable, session,
                     tracer, traceFailed, requested, rollouts, resumed, runner>>
  BY DEF Violate, processVars, threadVars, alertVars, fileVars, runnerVars
<1>2. Left' = Left /\ (Aborted' <=> Aborted) /\ (Done' <=> Done)
  BY <1>1 DEF Left, Aborted, Done
<1>3. /\ ~Aborted => FollowsPlan
      /\ Aborted => Done /\ runner = "none"
      /\ EmptyForGood /\ ClosedIsUnused /\ Succeeded /\ TypeOK
  BY DEF SupervisorInv
<1>5. ~Aborted => RootFollowsPlan'
  BY <1>1, <1>2, <1>3
     DEF FollowsPlan, RootFollowsPlan, MonitorFollowsPlan, TraceFollowsPlan, JobFollowsPlan,
         ObservedUntilStopped, HandoverFollowsPlan, ManagedRun, RootAlive, ActiveTracer,
         EmptyForGood
<1>6. ~Aborted => MonitorFollowsPlan'
  BY <1>1, <1>2, <1>3
     DEF FollowsPlan, RootFollowsPlan, MonitorFollowsPlan, TraceFollowsPlan, JobFollowsPlan,
         ObservedUntilStopped, HandoverFollowsPlan, ManagedRun, RootAlive, ActiveTracer,
         EmptyForGood
<1>7. ~Aborted => TraceFollowsPlan'
  BY <1>1, <1>2, <1>3
     DEF FollowsPlan, RootFollowsPlan, MonitorFollowsPlan, TraceFollowsPlan, JobFollowsPlan,
         ObservedUntilStopped, HandoverFollowsPlan, ManagedRun, RootAlive, ActiveTracer
<1>8. ~Aborted => JobFollowsPlan'
  BY <1>1, <1>2, <1>3
     DEF FollowsPlan, RootFollowsPlan, MonitorFollowsPlan, TraceFollowsPlan, JobFollowsPlan,
         ObservedUntilStopped, HandoverFollowsPlan, ManagedRun, RootAlive, ActiveTracer
<1>9. ~Aborted => ObservedUntilStopped'
  BY <1>1, <1>2, <1>3
     DEF FollowsPlan, RootFollowsPlan, MonitorFollowsPlan, TraceFollowsPlan, JobFollowsPlan,
         ObservedUntilStopped, HandoverFollowsPlan, ManagedRun, RootAlive, ActiveTracer,
         EmptyForGood
<1>10. ~Aborted => HandoverFollowsPlan'
  BY <1>1, <1>2, <1>3
     DEF FollowsPlan, RootFollowsPlan, MonitorFollowsPlan, TraceFollowsPlan, JobFollowsPlan,
         ObservedUntilStopped, HandoverFollowsPlan, ManagedRun, RootAlive, ActiveTracer,
         LastWritten
<1>11. EmptyForGood' /\ ClosedIsUnused' /\ Succeeded'
  BY <1>1, <1>2, <1>3
     DEF TypeOK, EmptyForGood, ClosedIsUnused, Succeeded, ManagedRun, RootAlive, ActiveTracer
<1>12. Aborted' => Done' /\ runner' = "none"
  BY <1>1, <1>2, <1>3
<1> QED BY <1>2, <1>5, <1>6, <1>7, <1>8, <1>9, <1>10, <1>11, <1>12 DEF Safe, FollowsPlan

LEMMA SessionStoppedSafe ==
  ASSUME SupervisorInv, SessionStopped
  PROVE  Safe'
<1>1. /\ UNCHANGED <<todo, exitCode, root, assigned, kids, zeros, job, monitor, joinable, tracer,
                     traceFailed, requested, rollouts, resumed, runner>>
      /\ session = "open"
      /\ session' = "taken"
  BY DEF SessionStopped, processVars, threadVars, alertVars, fileVars, runnerVars
<1>2. Left' = Left /\ (Aborted' <=> Aborted) /\ (Done' <=> Done)
  BY <1>1 DEF Left, Aborted, Done
<1>3. /\ ~Aborted => FollowsPlan
      /\ Aborted => Done /\ runner = "none"
      /\ EmptyForGood /\ ClosedIsUnused /\ Succeeded /\ TypeOK
  BY DEF SupervisorInv
<1>5. ~Aborted => RootFollowsPlan'
  BY <1>1, <1>2, <1>3
     DEF FollowsPlan, RootFollowsPlan, MonitorFollowsPlan, TraceFollowsPlan, JobFollowsPlan,
         ObservedUntilStopped, HandoverFollowsPlan, ManagedRun, RootAlive, ActiveTracer,
         EmptyForGood
<1>6. ~Aborted => MonitorFollowsPlan'
  BY <1>1, <1>2, <1>3
     DEF FollowsPlan, RootFollowsPlan, MonitorFollowsPlan, TraceFollowsPlan, JobFollowsPlan,
         ObservedUntilStopped, HandoverFollowsPlan, ManagedRun, RootAlive, ActiveTracer,
         EmptyForGood
<1>7. ~Aborted => TraceFollowsPlan'
  BY <1>1, <1>2, <1>3
     DEF FollowsPlan, RootFollowsPlan, MonitorFollowsPlan, TraceFollowsPlan, JobFollowsPlan,
         ObservedUntilStopped, HandoverFollowsPlan, ManagedRun, RootAlive, ActiveTracer
<1>8. ~Aborted => JobFollowsPlan'
  BY <1>1, <1>2, <1>3
     DEF FollowsPlan, RootFollowsPlan, MonitorFollowsPlan, TraceFollowsPlan, JobFollowsPlan,
         ObservedUntilStopped, HandoverFollowsPlan, ManagedRun, RootAlive, ActiveTracer
<1>9. ~Aborted => ObservedUntilStopped'
  BY <1>1, <1>2, <1>3
     DEF FollowsPlan, RootFollowsPlan, MonitorFollowsPlan, TraceFollowsPlan, JobFollowsPlan,
         ObservedUntilStopped, HandoverFollowsPlan, ManagedRun, RootAlive, ActiveTracer,
         EmptyForGood
<1>10. ~Aborted => HandoverFollowsPlan'
  BY <1>1, <1>2, <1>3
     DEF FollowsPlan, RootFollowsPlan, MonitorFollowsPlan, TraceFollowsPlan, JobFollowsPlan,
         ObservedUntilStopped, HandoverFollowsPlan, ManagedRun, RootAlive, ActiveTracer,
         LastWritten
<1>11. EmptyForGood' /\ ClosedIsUnused' /\ Succeeded'
  BY <1>1, <1>2, <1>3
     DEF TypeOK, EmptyForGood, ClosedIsUnused, Succeeded, ManagedRun, RootAlive, ActiveTracer
<1>12. Aborted' => Done' /\ runner' = "none"
  BY <1>1, <1>2, <1>3
<1> QED BY <1>2, <1>5, <1>6, <1>7, <1>8, <1>9, <1>10, <1>11, <1>12 DEF Safe, FollowsPlan

LEMMA RunnerEndsSafe ==
  ASSUME SupervisorInv, RunnerEnds
  PROVE  Safe'
<1>1. /\ UNCHANGED <<todo, exitCode, root, assigned, kids, zeros, job, monitor, joinable, session,
                     tracer, traceFailed, requested, rollouts, resumed>>
      /\ runner = "running"
      /\ runner' = "ended"
  BY DEF RunnerEnds, processVars, threadVars, alertVars, fileVars, runnerVars
<1>2. Left' = Left /\ (Aborted' <=> Aborted) /\ (Done' <=> Done)
  BY <1>1 DEF Left, Aborted, Done
<1>3. /\ ~Aborted => FollowsPlan
      /\ Aborted => Done /\ runner = "none"
      /\ EmptyForGood /\ ClosedIsUnused /\ Succeeded /\ TypeOK
  BY DEF SupervisorInv
<1>5. ~Aborted => RootFollowsPlan'
  BY <1>1, <1>2, <1>3
     DEF FollowsPlan, RootFollowsPlan, MonitorFollowsPlan, TraceFollowsPlan, JobFollowsPlan,
         ObservedUntilStopped, HandoverFollowsPlan, ManagedRun, RootAlive, ActiveTracer,
         EmptyForGood
<1>6. ~Aborted => MonitorFollowsPlan'
  BY <1>1, <1>2, <1>3
     DEF FollowsPlan, RootFollowsPlan, MonitorFollowsPlan, TraceFollowsPlan, JobFollowsPlan,
         ObservedUntilStopped, HandoverFollowsPlan, ManagedRun, RootAlive, ActiveTracer,
         EmptyForGood
<1>7. ~Aborted => TraceFollowsPlan'
  BY <1>1, <1>2, <1>3
     DEF FollowsPlan, RootFollowsPlan, MonitorFollowsPlan, TraceFollowsPlan, JobFollowsPlan,
         ObservedUntilStopped, HandoverFollowsPlan, ManagedRun, RootAlive, ActiveTracer
<1>8. ~Aborted => JobFollowsPlan'
  BY <1>1, <1>2, <1>3
     DEF FollowsPlan, RootFollowsPlan, MonitorFollowsPlan, TraceFollowsPlan, JobFollowsPlan,
         ObservedUntilStopped, HandoverFollowsPlan, ManagedRun, RootAlive, ActiveTracer
<1>9. ~Aborted => ObservedUntilStopped'
  BY <1>1, <1>2, <1>3
     DEF FollowsPlan, RootFollowsPlan, MonitorFollowsPlan, TraceFollowsPlan, JobFollowsPlan,
         ObservedUntilStopped, HandoverFollowsPlan, ManagedRun, RootAlive, ActiveTracer,
         EmptyForGood
<1>10. ~Aborted => HandoverFollowsPlan'
  BY <1>1, <1>2, <1>3
     DEF FollowsPlan, RootFollowsPlan, MonitorFollowsPlan, TraceFollowsPlan, JobFollowsPlan,
         ObservedUntilStopped, HandoverFollowsPlan, ManagedRun, RootAlive, ActiveTracer,
         LastWritten
<1>11. EmptyForGood' /\ ClosedIsUnused' /\ Succeeded'
  BY <1>1, <1>2, <1>3
     DEF TypeOK, EmptyForGood, ClosedIsUnused, Succeeded, ManagedRun, RootAlive, ActiveTracer
<1>12. Aborted' => Done' /\ runner' = "none"
  BY <1>1, <1>2, <1>3
<1> QED BY <1>2, <1>5, <1>6, <1>7, <1>8, <1>9, <1>10, <1>11, <1>12 DEF Safe, FollowsPlan

LEMMA RootEndsSafe ==
  ASSUME SupervisorInv, RootEnds
  PROVE  Safe'
<1>1. /\ UNCHANGED <<todo, exitCode, job, monitor, joinable, session, tracer, traceFailed,
                     requested, rollouts, resumed, runner>>
      /\ root = "running"
  BY DEF RootEnds, processVars, threadVars, alertVars, fileVars, runnerVars
<1>2. Left' = Left /\ (Aborted' <=> Aborted) /\ (Done' <=> Done)
  BY <1>1 DEF Left, Aborted, Done
<1>3. /\ ~Aborted => FollowsPlan
      /\ Aborted => Done /\ runner = "none"
      /\ EmptyForGood /\ ClosedIsUnused /\ Succeeded /\ TypeOK
  BY DEF SupervisorInv
<1>4. /\ assigned' = assigned /\ EmptyForGood'
      /\ ManagedRun' => ManagedRun
      /\ RootAlive' => RootAlive
      /\ root' = "none" <=> root = "none"
  <2>1. kids \in 0..MaxKids /\ zeros \in Nat /\ monitor' = monitor
    BY <1>1, <1>3 DEF TypeOK
  <2>2. (kids > 0 => ManagedRun) /\ Become("ended", kids) /\ RootAlive
    BY DEF RootEnds, ManagedRun, RootAlive
  <2> QED BY <1>3, <2>1, <2>2, QuietBecome
<1>5. ~Aborted => RootFollowsPlan'
  BY <1>1, <1>2, <1>3, <1>4
     DEF FollowsPlan, RootFollowsPlan, MonitorFollowsPlan, TraceFollowsPlan, JobFollowsPlan,
         ObservedUntilStopped, HandoverFollowsPlan, ActiveTracer
<1>6. ~Aborted => MonitorFollowsPlan'
  BY <1>1, <1>2, <1>3, <1>4
     DEF FollowsPlan, RootFollowsPlan, MonitorFollowsPlan, TraceFollowsPlan, JobFollowsPlan,
         ObservedUntilStopped, HandoverFollowsPlan, ActiveTracer
<1>7. ~Aborted => TraceFollowsPlan'
  BY <1>1, <1>2, <1>3, <1>4
     DEF FollowsPlan, RootFollowsPlan, MonitorFollowsPlan, TraceFollowsPlan, JobFollowsPlan,
         ObservedUntilStopped, HandoverFollowsPlan, ActiveTracer
<1>8. ~Aborted => JobFollowsPlan'
  BY <1>1, <1>2, <1>3, <1>4
     DEF FollowsPlan, RootFollowsPlan, MonitorFollowsPlan, TraceFollowsPlan, JobFollowsPlan,
         ObservedUntilStopped, HandoverFollowsPlan, ActiveTracer
<1>9. ~Aborted => ObservedUntilStopped'
  BY <1>1, <1>2, <1>3, <1>4
     DEF FollowsPlan, RootFollowsPlan, MonitorFollowsPlan, TraceFollowsPlan, JobFollowsPlan,
         ObservedUntilStopped, HandoverFollowsPlan, ActiveTracer
<1>10. ~Aborted => HandoverFollowsPlan'
  BY <1>1, <1>2, <1>3, <1>4
     DEF FollowsPlan, RootFollowsPlan, MonitorFollowsPlan, TraceFollowsPlan, JobFollowsPlan,
         ObservedUntilStopped, HandoverFollowsPlan, ActiveTracer, LastWritten
<1>11. ClosedIsUnused' /\ Succeeded'
  BY <1>1, <1>2, <1>3, <1>4 DEF ClosedIsUnused, Succeeded
<1>12. Aborted' => Done' /\ runner' = "none"
  BY <1>1, <1>2, <1>3
<1> QED BY <1>2, <1>4, <1>5, <1>6, <1>7, <1>8, <1>9, <1>10, <1>11, <1>12 DEF Safe, FollowsPlan

LEMMA KidStartsSafe ==
  ASSUME SupervisorInv, KidStarts
  PROVE  Safe'
<1>1. /\ UNCHANGED <<todo, exitCode, job, monitor, joinable, session, tracer, traceFailed,
                     requested, rollouts, resumed, runner>>
      /\ ManagedRun
  BY DEF KidStarts, ManagedRun, processVars, threadVars, alertVars, fileVars, runnerVars
<1>2. Left' = Left /\ (Aborted' <=> Aborted) /\ (Done' <=> Done)
  BY <1>1 DEF Left, Aborted, Done
<1>3. /\ ~Aborted => FollowsPlan
      /\ Aborted => Done /\ runner = "none"
      /\ EmptyForGood /\ ClosedIsUnused /\ Succeeded /\ TypeOK
  BY DEF SupervisorInv
<1>4. /\ assigned' = assigned /\ EmptyForGood'
      /\ ManagedRun' => ManagedRun
      /\ RootAlive' => RootAlive
      /\ root' = "none" <=> root = "none"
  <2>1. kids \in 0..MaxKids /\ zeros \in Nat /\ monitor' = monitor
    BY <1>1, <1>3 DEF TypeOK
  <2>2. kids + 1 \in 0..MaxKids /\ Become(root, kids + 1)
    BY <2>1, SupervisorAssumption DEF KidStarts
  <2> QED BY <1>1, <1>3, <2>1, <2>2, QuietBecome
<1>5. ~Aborted => RootFollowsPlan'
  BY <1>1, <1>2, <1>3, <1>4
     DEF FollowsPlan, RootFollowsPlan, MonitorFollowsPlan, TraceFollowsPlan, JobFollowsPlan,
         ObservedUntilStopped, HandoverFollowsPlan, ActiveTracer
<1>6. ~Aborted => MonitorFollowsPlan'
  BY <1>1, <1>2, <1>3, <1>4
     DEF FollowsPlan, RootFollowsPlan, MonitorFollowsPlan, TraceFollowsPlan, JobFollowsPlan,
         ObservedUntilStopped, HandoverFollowsPlan, ActiveTracer
<1>7. ~Aborted => TraceFollowsPlan'
  BY <1>1, <1>2, <1>3, <1>4
     DEF FollowsPlan, RootFollowsPlan, MonitorFollowsPlan, TraceFollowsPlan, JobFollowsPlan,
         ObservedUntilStopped, HandoverFollowsPlan, ActiveTracer
<1>8. ~Aborted => JobFollowsPlan'
  BY <1>1, <1>2, <1>3, <1>4
     DEF FollowsPlan, RootFollowsPlan, MonitorFollowsPlan, TraceFollowsPlan, JobFollowsPlan,
         ObservedUntilStopped, HandoverFollowsPlan, ActiveTracer
<1>9. ~Aborted => ObservedUntilStopped'
  BY <1>1, <1>2, <1>3, <1>4
     DEF FollowsPlan, RootFollowsPlan, MonitorFollowsPlan, TraceFollowsPlan, JobFollowsPlan,
         ObservedUntilStopped, HandoverFollowsPlan, ActiveTracer
<1>10. ~Aborted => HandoverFollowsPlan'
  BY <1>1, <1>2, <1>3, <1>4
     DEF FollowsPlan, RootFollowsPlan, MonitorFollowsPlan, TraceFollowsPlan, JobFollowsPlan,
         ObservedUntilStopped, HandoverFollowsPlan, ActiveTracer, LastWritten
<1>11. ClosedIsUnused' /\ Succeeded'
  BY <1>1, <1>2, <1>3, <1>4 DEF ClosedIsUnused, Succeeded
<1>12. Aborted' => Done' /\ runner' = "none"
  BY <1>1, <1>2, <1>3
<1> QED BY <1>2, <1>4, <1>5, <1>6, <1>7, <1>8, <1>9, <1>10, <1>11, <1>12 DEF Safe, FollowsPlan

LEMMA KidEndsSafe ==
  ASSUME SupervisorInv, KidEnds
  PROVE  Safe'
<1>1. /\ UNCHANGED <<todo, exitCode, job, monitor, joinable, session, tracer, traceFailed,
                     requested, rollouts, resumed, runner>>
      /\ kids > 0
  BY DEF KidEnds, processVars, threadVars, alertVars, fileVars, runnerVars
<1>2. Left' = Left /\ (Aborted' <=> Aborted) /\ (Done' <=> Done)
  BY <1>1 DEF Left, Aborted, Done
<1>3. /\ ~Aborted => FollowsPlan
      /\ Aborted => Done /\ runner = "none"
      /\ EmptyForGood /\ ClosedIsUnused /\ Succeeded /\ TypeOK
  BY DEF SupervisorInv
<1>4. /\ assigned' = assigned /\ EmptyForGood'
      /\ ManagedRun' => ManagedRun
      /\ RootAlive' => RootAlive
      /\ root' = "none" <=> root = "none"
  <2>1. kids \in 0..MaxKids /\ zeros \in Nat /\ monitor' = monitor
    BY <1>1, <1>3 DEF TypeOK
  <2>2. kids - 1 \in 0..MaxKids /\ Become(root, kids - 1) /\ ManagedRun
    BY <1>1, <2>1, SupervisorAssumption DEF KidEnds, ManagedRun
  <2> QED BY <1>3, <2>1, <2>2, QuietBecome
<1>5. ~Aborted => RootFollowsPlan'
  BY <1>1, <1>2, <1>3, <1>4
     DEF FollowsPlan, RootFollowsPlan, MonitorFollowsPlan, TraceFollowsPlan, JobFollowsPlan,
         ObservedUntilStopped, HandoverFollowsPlan, ActiveTracer
<1>6. ~Aborted => MonitorFollowsPlan'
  BY <1>1, <1>2, <1>3, <1>4
     DEF FollowsPlan, RootFollowsPlan, MonitorFollowsPlan, TraceFollowsPlan, JobFollowsPlan,
         ObservedUntilStopped, HandoverFollowsPlan, ActiveTracer
<1>7. ~Aborted => TraceFollowsPlan'
  BY <1>1, <1>2, <1>3, <1>4
     DEF FollowsPlan, RootFollowsPlan, MonitorFollowsPlan, TraceFollowsPlan, JobFollowsPlan,
         ObservedUntilStopped, HandoverFollowsPlan, ActiveTracer
<1>8. ~Aborted => JobFollowsPlan'
  BY <1>1, <1>2, <1>3, <1>4
     DEF FollowsPlan, RootFollowsPlan, MonitorFollowsPlan, TraceFollowsPlan, JobFollowsPlan,
         ObservedUntilStopped, HandoverFollowsPlan, ActiveTracer
<1>9. ~Aborted => ObservedUntilStopped'
  BY <1>1, <1>2, <1>3, <1>4
     DEF FollowsPlan, RootFollowsPlan, MonitorFollowsPlan, TraceFollowsPlan, JobFollowsPlan,
         ObservedUntilStopped, HandoverFollowsPlan, ActiveTracer
<1>10. ~Aborted => HandoverFollowsPlan'
  BY <1>1, <1>2, <1>3, <1>4
     DEF FollowsPlan, RootFollowsPlan, MonitorFollowsPlan, TraceFollowsPlan, JobFollowsPlan,
         ObservedUntilStopped, HandoverFollowsPlan, ActiveTracer, LastWritten
<1>11. ClosedIsUnused' /\ Succeeded'
  BY <1>1, <1>2, <1>3, <1>4 DEF ClosedIsUnused, Succeeded
<1>12. Aborted' => Done' /\ runner' = "none"
  BY <1>1, <1>2, <1>3
<1> QED BY <1>2, <1>4, <1>5, <1>6, <1>7, <1>8, <1>9, <1>10, <1>11, <1>12 DEF Safe, FollowsPlan

LEMMA CatchTraceExceptionSafe ==
  ASSUME SupervisorInv, CatchTraceException
  PROVE  Safe'
<1>1. /\ UNCHANGED <<todo, exitCode, job, monitor, joinable, session, traceFailed, requested,
                     rollouts, resumed, runner>>
      /\ tracer = "throwing"
      /\ tracer' = "returned"
  BY DEF CatchTraceException, processVars, threadVars, alertVars, fileVars, runnerVars
<1>2. Left' = Left /\ (Aborted' <=> Aborted) /\ (Done' <=> Done)
  BY <1>1 DEF Left, Aborted, Done
<1>3. /\ ~Aborted => FollowsPlan
      /\ Aborted => Done /\ runner = "none"
      /\ EmptyForGood /\ ClosedIsUnused /\ Succeeded /\ TypeOK
  BY DEF SupervisorInv
<1>4. /\ assigned' = assigned /\ EmptyForGood'
      /\ ManagedRun' => ManagedRun
      /\ RootAlive' => RootAlive
      /\ root' = "none" <=> root = "none"
  <2>1. TerminateManagedJob /\ monitor' = monitor
    BY <1>1 DEF CatchTraceException
  <2> QED BY <1>3, <2>1, TerminationIsQuiet
<1>5. ~Aborted => RootFollowsPlan'
  BY <1>1, <1>2, <1>3, <1>4
     DEF FollowsPlan, RootFollowsPlan, MonitorFollowsPlan, TraceFollowsPlan, JobFollowsPlan,
         ObservedUntilStopped, HandoverFollowsPlan, ActiveTracer
<1>6. ~Aborted => MonitorFollowsPlan'
  BY <1>1, <1>2, <1>3, <1>4
     DEF FollowsPlan, RootFollowsPlan, MonitorFollowsPlan, TraceFollowsPlan, JobFollowsPlan,
         ObservedUntilStopped, HandoverFollowsPlan, ActiveTracer
<1>7. ~Aborted => TraceFollowsPlan'
  BY <1>1, <1>2, <1>3, <1>4
     DEF FollowsPlan, RootFollowsPlan, MonitorFollowsPlan, TraceFollowsPlan, JobFollowsPlan,
         ObservedUntilStopped, HandoverFollowsPlan, ActiveTracer
<1>8. ~Aborted => JobFollowsPlan'
  BY <1>1, <1>2, <1>3, <1>4
     DEF FollowsPlan, RootFollowsPlan, MonitorFollowsPlan, TraceFollowsPlan, JobFollowsPlan,
         ObservedUntilStopped, HandoverFollowsPlan, ActiveTracer
<1>9. ~Aborted => ObservedUntilStopped'
  BY <1>1, <1>2, <1>3, <1>4
     DEF FollowsPlan, RootFollowsPlan, MonitorFollowsPlan, TraceFollowsPlan, JobFollowsPlan,
         ObservedUntilStopped, HandoverFollowsPlan, ActiveTracer
<1>10. ~Aborted => HandoverFollowsPlan'
  BY <1>1, <1>2, <1>3, <1>4
     DEF FollowsPlan, RootFollowsPlan, MonitorFollowsPlan, TraceFollowsPlan, JobFollowsPlan,
         ObservedUntilStopped, HandoverFollowsPlan, ActiveTracer, LastWritten
<1>11. ClosedIsUnused' /\ Succeeded'
  BY <1>1, <1>2, <1>3, <1>4 DEF ClosedIsUnused, Succeeded
<1>12. Aborted' => Done' /\ runner' = "none"
  BY <1>1, <1>2, <1>3
<1> QED BY <1>2, <1>4, <1>5, <1>6, <1>7, <1>8, <1>9, <1>10, <1>11, <1>12 DEF Safe, FollowsPlan

LEMMA WriteSafe ==
  ASSUME SupervisorInv, NEW s \in Sessions, NEW t \in 1..MaxTime, Write(s, t)
  PROVE  Safe'
<1>1. /\ UNCHANGED <<todo, exitCode, root, assigned, kids, zeros, job, monitor, joinable, session,
                     tracer, traceFailed, requested, resumed, runner>>
      /\ resumed = "none"
  BY DEF Write, processVars, threadVars, runnerVars
<1>2. Left' = Left /\ (Aborted' <=> Aborted) /\ (Done' <=> Done)
  BY <1>1 DEF Left, Aborted, Done
<1>3. /\ ~Aborted => FollowsPlan
      /\ Aborted => Done /\ runner = "none"
      /\ EmptyForGood /\ ClosedIsUnused /\ Succeeded /\ TypeOK
  BY DEF SupervisorInv
<1>4. ~Aborted => ~(("AwaitRunner" \in Left /\ "FindSession" \notin Left) \/ runner # "none")
  <2>1. resumed \notin DOMAIN rollouts
    BY <1>1, <1>3, SupervisorAssumption DEF TypeOK
  <2> QED BY <1>3, <2>1 DEF FollowsPlan, HandoverFollowsPlan, LastWritten
<1>5. ~Aborted => RootFollowsPlan'
  BY <1>1, <1>2, <1>3, <1>4
     DEF FollowsPlan, RootFollowsPlan, MonitorFollowsPlan, TraceFollowsPlan, JobFollowsPlan,
         ObservedUntilStopped, HandoverFollowsPlan, ManagedRun, RootAlive, ActiveTracer,
         EmptyForGood
<1>6. ~Aborted => MonitorFollowsPlan'
  BY <1>1, <1>2, <1>3, <1>4
     DEF FollowsPlan, RootFollowsPlan, MonitorFollowsPlan, TraceFollowsPlan, JobFollowsPlan,
         ObservedUntilStopped, HandoverFollowsPlan, ManagedRun, RootAlive, ActiveTracer,
         EmptyForGood
<1>7. ~Aborted => TraceFollowsPlan'
  BY <1>1, <1>2, <1>3, <1>4
     DEF FollowsPlan, RootFollowsPlan, MonitorFollowsPlan, TraceFollowsPlan, JobFollowsPlan,
         ObservedUntilStopped, HandoverFollowsPlan, ManagedRun, RootAlive, ActiveTracer
<1>8. ~Aborted => JobFollowsPlan'
  BY <1>1, <1>2, <1>3, <1>4
     DEF FollowsPlan, RootFollowsPlan, MonitorFollowsPlan, TraceFollowsPlan, JobFollowsPlan,
         ObservedUntilStopped, HandoverFollowsPlan, ManagedRun, RootAlive, ActiveTracer
<1>9. ~Aborted => ObservedUntilStopped'
  BY <1>1, <1>2, <1>3, <1>4
     DEF FollowsPlan, RootFollowsPlan, MonitorFollowsPlan, TraceFollowsPlan, JobFollowsPlan,
         ObservedUntilStopped, HandoverFollowsPlan, ManagedRun, RootAlive, ActiveTracer,
         EmptyForGood
<1>10. ~Aborted => HandoverFollowsPlan'
  BY <1>1, <1>2, <1>3, <1>4
     DEF FollowsPlan, RootFollowsPlan, MonitorFollowsPlan, TraceFollowsPlan, JobFollowsPlan,
         ObservedUntilStopped, HandoverFollowsPlan, ManagedRun, RootAlive, ActiveTracer,
         LastWritten
<1>11. EmptyForGood' /\ ClosedIsUnused' /\ Succeeded'
  BY <1>1, <1>2, <1>3, <1>4
     DEF TypeOK, EmptyForGood, ClosedIsUnused, Succeeded, ManagedRun, RootAlive, ActiveTracer
<1>12. Aborted' => Done' /\ runner' = "none"
  BY <1>1, <1>2, <1>3
<1> QED BY <1>2, <1>5, <1>6, <1>7, <1>8, <1>9, <1>10, <1>11, <1>12 DEF Safe, FollowsPlan

------------------------------------------------------------------------------
(* The theorems.                                                           *)

LEMMA SafeStep ==
  ASSUME SupervisorInv, [Next]_vars
  PROVE  Safe'
<1>1. CASE UNCHANGED vars
  <2>1. Left' = Left /\ (Done' <=> Done) /\ UNCHANGED <<exitCode, Rest0>>
    BY <1>1 DEF vars, Left, Done, Rest0, processVars, threadVars, alertVars, fileVars, runnerVars
  <2>2. Safe
    BY DEF SupervisorInv, Safe
  <2> QED BY <1>1, <2>1, <2>2
             DEF Rest0, vars, Safe, Aborted, FollowsPlan, RootFollowsPlan, MonitorFollowsPlan,
                 TraceFollowsPlan, JobFollowsPlan, ObservedUntilStopped, HandoverFollowsPlan,
                 LastWritten, EmptyForGood, ClosedIsUnused, Succeeded, ManagedRun, RootAlive,
                 ActiveTracer
<1>2. CASE Next
  BY <1>2, MainSafe, MonitorJobSafe, MonitorFailsSafe, HandleViolationSafe, ProcessReturnsSafe,
     ProcessThrowsSafe, CatchTraceExceptionSafe, RootEndsSafe, KidStartsSafe, KidEndsSafe,
     ViolateSafe, WriteSafe, RunnerEndsSafe, SessionStoppedSafe
     DEF Next, Tracer, Processes, WriteSession, OtherAgentWrites
<1> QED BY <1>1, <1>2

\* The invariant holds throughout.
THEOREM SupervisorInvariant == Spec => []SupervisorInv
<1>1. SupervisorInv /\ [Next]_vars => SupervisorInv'
  <2> SUFFICES ASSUME SupervisorInv, [Next]_vars PROVE SupervisorInv'
    OBVIOUS
  <2>1. StateOK'
    BY TypeStep DEF SupervisorInv, StateOK
  <2>2. Safe'
    BY SafeStep
  <2> QED BY <2>1, <2>2 DEF StateOK, Safe, SupervisorInv
<1> QED BY InitInv, <1>1, PTL DEF Spec

\* Every variable has its type.
THEOREM TypeCorrect == Spec => []TypeOK
<1>1. SupervisorInv => TypeOK
  BY DEF SupervisorInv
<1> QED BY SupervisorInvariant, <1>1, PTL

\* While a managed process runs its session is open, on every path.
THEOREM ManagedProcessesAreTraced == Spec => []ManagedAreTraced
<1>1. SupervisorInv => ManagedAreTraced
  BY DEF SupervisorInv, ManagedAreTraced, FollowsPlan, ObservedUntilStopped, Aborted
<1> QED BY SupervisorInvariant, <1>1, PTL

\* What an agent of the job wrote is on file, with its time or a later one.
JobFilesAreThere ==
  \A s \in Sessions : jobWrote[s] > 0 => s \in DOMAIN rollouts /\ jobWrote[s] <= rollouts[s]

\* Only agents write to the files.
LEMMA OnlyAgentsWrite ==
  ASSUME [Next]_vars
  PROVE  UNCHANGED fileVars \/ \E s \in Sessions : WriteSession(s) \/ OtherAgentWrites(s)
<1> USE DEF alertVars, fileVars
<1>1. CASE UNCHANGED vars
  BY <1>1 DEF vars
<1>2. CASE Main
  <2>1. CASE FindHome \/ CreateProcess \/ CreateJobObject \/ CreateIoCompletionPort
             \/ SetInformationJobObject \/ AssignProcessToJobObject \/ StartMonitor
    BY <2>1 DEF FindHome, CreateProcess, CreateJobObject, CreateIoCompletionPort,
                SetInformationJobObject, AssignProcessToJobObject, StartMonitor, Fail
  <2>2. CASE FindProvider \/ Bootstrap \/ OpenTrace \/ StartTraceThread \/ Resume \/ Wait
             \/ StopTrace \/ StopThrows \/ JoinTrace \/ Terminate
    BY <2>2 DEF FindProvider, Bootstrap, OpenTrace, StartTraceThread, Resume, Wait, StopTrace,
                StopThrows, JoinTrace, Terminate, Fail, Abort
  <2>3. CASE PostZero \/ JoinMonitor \/ CloseHandles \/ Decide \/ FindSession \/ FindRunner
             \/ InstallSupportFiles \/ CreateRunner \/ AwaitRunner
    BY <2>3 DEF PostZero, JoinMonitor, CloseHandles, Decide, FindSession, FindRunner,
                InstallSupportFiles, CreateRunner, AwaitRunner, Fail
  <2> QED BY <1>2, <2>1, <2>2, <2>3 DEF Main
<1>3. CASE MonitorJob \/ MonitorFails \/ Tracer \/ SessionStopped
  BY <1>3 DEF MonitorJob, MonitorFails, Tracer, HandleViolation, ProcessReturns, ProcessThrows,
              CatchTraceException, SessionStopped
<1>4. CASE Processes
  BY <1>4 DEF Processes, RootEnds, KidStarts, KidEnds, Violate, RunnerEnds
<1> QED BY <1>1, <1>2, <1>3, <1>4 DEF Next

LEMMA FilesInvariant == Spec => []JobFilesAreThere
<1>1. Init => JobFilesAreThere
  BY DEF Init, JobFilesAreThere
<1>2. TypeOK /\ JobFilesAreThere /\ [Next]_vars => JobFilesAreThere'
  <2> SUFFICES ASSUME TypeOK, JobFilesAreThere, [Next]_vars PROVE JobFilesAreThere'
    OBVIOUS
  <2>1. CASE UNCHANGED fileVars
    BY <2>1 DEF fileVars, JobFilesAreThere
  <2>2. ASSUME NEW s \in Sessions, WriteSession(s) \/ OtherAgentWrites(s)
        PROVE  JobFilesAreThere'
    <3>1. PICK t \in 1..MaxTime :
            Write(s, t) /\ (jobWrote' = jobWrote \/ jobWrote' = [jobWrote EXCEPT ![s] = t])
      BY <2>2 DEF WriteSession, OtherAgentWrites
    <3>2. /\ rollouts' = [r \in DOMAIN rollouts \cup {s} |-> IF r = s THEN t ELSE rollouts[r]]
          /\ \A r \in DOMAIN rollouts : rollouts[r] <= t /\ rollouts[r] \in 0..MaxTime
      <4>1. \A r \in DOMAIN rollouts : rollouts[r] \in 0..MaxTime
        BY DEF TypeOK, Range
      <4> QED BY <3>1, <4>1, NowIsKnown, SupervisorAssumption DEF Write
    <3>3. jobWrote \in [Sessions -> 0..MaxTime] /\ t \in Nat
      BY <3>1, SupervisorAssumption DEF TypeOK
    <3> SUFFICES ASSUME NEW r \in Sessions, jobWrote'[r] > 0
                 PROVE  r \in DOMAIN rollouts' /\ jobWrote'[r] <= rollouts'[r]
      BY DEF JobFilesAreThere
    <3>4. CASE r = s /\ jobWrote'[r] = t
      BY <3>2, <3>3, <3>4
    <3>5. CASE jobWrote'[r] = jobWrote[r]
      <4>1. r \in DOMAIN rollouts /\ jobWrote[r] <= rollouts[r]
        BY <3>5 DEF JobFilesAreThere
      <4> QED BY <3>2, <3>3, <3>5, <4>1, SupervisorAssumption
    <3> QED BY <3>1, <3>3, <3>4, <3>5
  <2> QED BY <2>1, <2>2, OnlyAgentsWrite
<1> QED BY <1>1, <1>2, TypeCorrect, PTL DEF Spec

LEMMA NothingRunsAtTheEnd ==
  ASSUME SupervisorInv, ~Aborted, Left = {} \/ runner # "none", monitor # "failed"
  PROVE  ~RootAlive /\ kids = 0
<1>1. /\ FollowsPlan /\ EmptyForGood
      /\ monitor \in {"none", "reading", "succeeded", "failed"} /\ kids \in 0..MaxKids
  BY DEF SupervisorInv, TypeOK
<1>2. Left \subseteq {"AwaitRunner"}
  BY <1>1 DEF FollowsPlan, HandoverFollowsPlan
<1>3. monitor # "reading"
  BY <1>1, <1>2 DEF FollowsPlan, MonitorFollowsPlan
<1>4. CASE monitor = "none"
  BY <1>1, <1>2, <1>4, SupervisorAssumption DEF FollowsPlan, MonitorFollowsPlan, ManagedRun
<1>5. CASE monitor = "succeeded"
  BY <1>1, <1>5 DEF EmptyForGood
<1> QED BY <1>1, <1>3, <1>4, <1>5

LEMMA DoneMeansNothingLeft == Done => Left = {}
BY NothingLeft DEF Done, Left

\* A program that ends by itself leaves no process behind.
THEOREM NothingIsOrphaned == Spec => []NoOrphans
<1>1. SupervisorInv => NoOrphans
  BY NothingRunsAtTheEnd, DoneMeansNothingLeft DEF NoOrphans, Aborted
<1> QED BY SupervisorInvariant, <1>1, PTL

\* Handles outlive the threads that use them, and threads are joined before the end.
THEOREM HandlesOutliveThreads == Spec => []ThreadsEndBeforeHandles
<1>1. ASSUME SupervisorInv PROVE ThreadsEndBeforeHandles
  <2>1. job = "closed" => monitor # "reading" /\ tracer \notin {"processing", "throwing"}
    BY <1>1 DEF SupervisorInv, ClosedIsUnused
  <2>2. ASSUME Done, ~Aborted PROVE ~joinable /\ tracer \in {"none", "joined"}
    BY <1>1, <2>2, DoneMeansNothingLeft
       DEF SupervisorInv, FollowsPlan, MonitorFollowsPlan, TraceFollowsPlan, ActiveTracer, TypeOK
  <2> QED BY <2>1, <2>2 DEF ThreadsEndBeforeHandles, Aborted
<1> QED BY SupervisorInvariant, <1>1, PTL

\* The container is started only after the job and its observation, and it continues a
\* session written during the run: the one the job was the last to write, if no other
\* agent wrote as late (HcsSandbox.cpp:230); success is reported only of a clean run.
THEOREM EndingsAreClean == Spec => []ExitIsClean
<1>1. ASSUME SupervisorInv, JobFilesAreThere, runner # "none" PROVE HandoverIsClean
  <2>1. ~Aborted /\ FollowsPlan
    BY <1>1 DEF SupervisorInv
  <2>2. monitor # "failed" => ~RootAlive /\ kids = 0
    BY <1>1, <2>1, NothingRunsAtTheEnd
  <2>3. /\ tracer = "joined" /\ ~joinable /\ job = "closed"
        /\ LastWritten
    BY <1>1, <2>1 DEF FollowsPlan, HandoverFollowsPlan
  <2>4. /\ resumed \in Sessions /\ resumed \in DOMAIN rollouts
        /\ jobWrote \in [Sessions -> 0..MaxTime]
        /\ \A s \in DOMAIN rollouts : rollouts[s] \in 0..MaxTime
    BY <1>1, <2>3 DEF SupervisorInv, TypeOK, LastWritten, Range
  <2>5. ASSUME JobWroteLast
        PROVE  \A s \in Sessions : 0 < jobWrote[resumed] /\ jobWrote[s] <= jobWrote[resumed]
    <3>1. PICK r \in Sessions :
            /\ jobWrote[r] > 0
            /\ \A s \in DOMAIN rollouts : rollouts[s] > jobWrote[s] => rollouts[s] < jobWrote[r]
      BY <2>5 DEF JobWroteLast
    <3>2. jobWrote[r] <= rollouts[resumed] /\ rollouts[resumed] > 0
      BY <1>1, <2>3, <2>4, <3>1, SupervisorAssumption DEF LastWritten, JobFilesAreThere
    <3>3. ~(rollouts[resumed] > jobWrote[resumed])
      BY <2>4, <3>1, <3>2, SupervisorAssumption
    <3>4. rollouts[resumed] <= jobWrote[resumed] /\ 0 < jobWrote[resumed]
      BY <2>4, <3>2, <3>3, SupervisorAssumption
    <3> SUFFICES ASSUME NEW s \in Sessions PROVE jobWrote[s] <= jobWrote[resumed]
      BY <3>4
    <3>5. CASE jobWrote[s] > 0
      BY <1>1, <2>3, <2>4, <3>4, <3>5, SupervisorAssumption DEF LastWritten, JobFilesAreThere
    <3>6. CASE ~(jobWrote[s] > 0)
      BY <2>4, <3>4, <3>6, SupervisorAssumption
    <3> QED BY <3>5, <3>6
  <2> QED BY <2>2, <2>3, <2>5 DEF HandoverIsClean, LastWritten
<1>2. ASSUME SupervisorInv PROVE SuccessIsClean
  <2> SUFFICES ASSUME exitCode = "0" PROVE SuccessIsClean
    BY DEF SuccessIsClean
  <2>1. ~Aborted /\ Left = {} /\ ~traceFailed /\ ~requested /\ root # "none"
        /\ root \in {"none", "suspended", "running", "ended"}
    BY <1>2, DoneMeansNothingLeft DEF Aborted, SupervisorInv, Succeeded, Done, TypeOK
  <2>2. monitor # "failed" => ~RootAlive /\ kids = 0
    BY <1>2, <2>1, NothingRunsAtTheEnd
  <2> QED BY <2>1, <2>2 DEF SuccessIsClean, RootAlive
<1>3. SupervisorInv /\ JobFilesAreThere => ExitIsClean
  BY <1>1, <1>2 DEF ExitIsClean, HandoverIsClean
<1> QED BY SupervisorInvariant, FilesInvariant, <1>3, PTL
==============================================================================
