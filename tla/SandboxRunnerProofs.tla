------------------------- MODULE SandboxRunnerProofs -------------------------
(***************************************************************************)
(* What holds of sandbox-runner whatever calls fail, whenever the deadline *)
(* passes, for every set of exit codes: a run gives back what it made or   *)
(* reports an error, nothing is deleted from under what still needs it     *)
(* unless that could not be deleted and the run fails, and the exit code   *)
(* it returns is the task's.                                               *)
(*                                                                         *)
(* todo and deferred are built by failures, roll-backs and defers, so that *)
(* no list of their values would be readable.  What the proof knows of     *)
(* them is their order: every step has a rank, and both sequences always   *)
(* ascend.  The rest of the invariant says, thing by thing, which step     *)
(* that will give it back is still to come.                                *)
(***************************************************************************)
EXTENDS SandboxRunner, SequenceTheorems, TLAPS

\* The order in which steps are ever made: the plan, the roll-backs, the deferred calls.
Rank ==
  [Connect |-> 1, DetectSnapshotter |-> 2, CreateLease |-> 3, GetImage |-> 4,
   EnableConsole |-> 5, CreateEndpoint |-> 6, CreateContainer |-> 7, CreateTask |-> 8,
   RegisterWait |-> 9, StartTask |-> 10, Relay |-> 11, Wait |-> 12,
   Stop |-> 13, Poll |-> 14, Kill |-> 15,
   DropTask |-> 16, DropSnapshot |-> 17, DropLease |-> 18,
   StopSignals |-> 21, CloseResize |-> 22, AwaitResize |-> 23, RestoreConsole |-> 24,
   DeleteTask |-> 25, DeleteContainer |-> 26, RemoveSnapshot |-> 27, DeleteMetadata |-> 28,
   DeleteEndpoint |-> 29, DeleteLease |-> 30, CloseClient |-> 31]

\* The sequence ascends.
Ascending(s) ==
  /\ s \in Seq(Steps)
  /\ \A i, j \in 1..Len(s) : i < j => Rank[s[i]] < Rank[s[j]]

Elements(s) == {s[i] : i \in 1..Len(s)}

\* What main has to do before it returns or in the course of that, what it has deferred,
\* and both.
Ahead == Elements(todo)
Later == Elements(deferred)
Agenda == Ahead \cup Later

\* Main is still on the plan of run.
OnPlan == "Wait" \in Ahead

\* The steps of the plan.
Planned ==
  {"Connect", "DetectSnapshotter", "CreateLease", "GetImage", "CreateContainer", "CreateTask",
   "RegisterWait", "StartTask", "Relay", "Wait"}
  \cup (IF cfg.terminal THEN {"EnableConsole"} ELSE {})
  \cup (IF cfg.network THEN {"CreateEndpoint"} ELSE {})

Passed(step) == step \in Planned /\ step \notin Ahead

CleanupSteps == {"DeleteTask", "DeleteContainer", "DeleteEndpoint", "DeleteLease"}

\* On the plan a suffix of it is left, and what has been done tells what is deferred.
OnPlanInv ==
  /\ ~failed
  /\ Ahead = {y \in Planned : Rank[y] >= Rank[Head(todo)]}
  /\ Later = (IF Passed("Connect") THEN {"CloseClient"} ELSE {})
             \cup (IF Passed("GetImage") THEN CleanupSteps ELSE {})
             \cup (IF Passed("EnableConsole") THEN {"RestoreConsole"} ELSE {})
             \cup (IF Passed("Relay") THEN {"StopSignals", "CloseResize", "AwaitResize"} ELSE {})

\* Once main has left the plan only what it had deferred, and the roll-backs, are left.
OffPlanInv ==
  /\ Later = {}
  /\ \A y \in Ahead : Rank[y] > 12
  /\ "DropTask" \in Ahead \/ "DropSnapshot" \in Ahead \/ "DropLease" \in Ahead => failed
  /\ "Stop" \in Ahead => "Poll" \notin Ahead
  /\ "Stop" \in Ahead \/ "Poll" \in Ahead => "Kill" \notin Ahead
  /\ "DeleteContainer" \in Ahead => "RemoveSnapshot" \notin Ahead /\ "DeleteMetadata" \notin Ahead

ControlInv ==
  /\ Ascending(todo) /\ Ascending(deferred)
  /\ OnPlan => OnPlanInv
  /\ ~OnPlan => OffPlanInv

\* What the plan has created so far.
CreatedInv ==
  /\ "CreateLease" \in Ahead => exists = {}
  /\ "GetImage" \in Ahead \/ "DropLease" \in Ahead => exists \subseteq {"lease"}
  /\ "CreateTask" \in Ahead \/ "DropSnapshot" \in Ahead => task = "none"
  /\ "StartTask" \in Ahead => status = "absent"
  /\ OnPlan /\ "CreateLease" \notin Ahead => "lease" \in exists
  /\ OnPlan /\ "CreateContainer" \notin Ahead => {"snapshot", "container"} \subseteq exists
  /\ mishaps # {} => failed

\* Whatever there is, a step that will give it back is still to come.
LeaseGoes ==
  "lease" \in exists => "GetImage" \in Ahead \/ "DropLease" \in Ahead \/ "DeleteLease" \in Agenda

EndpointGoes == "endpoint" \in exists => "endpoint" \in held /\ "DeleteEndpoint" \in Agenda

ContainerGoes ==
  "container" \in exists =>
    "container" \in held /\ ("DeleteContainer" \in Agenda \/ "DeleteMetadata" \in Ahead)

SnapshotGoes ==
  "snapshot" \in exists =>
    \/ "container" \in held /\ ("DeleteContainer" \in Agenda \/ "RemoveSnapshot" \in Ahead)
    \/ "DropSnapshot" \in Ahead

TaskGoes ==
  task # "none" => \/ "task" \in held /\ "DeleteTask" \in Agenda
                   \/ "DropTask" \in Ahead
                   \/ "StartTask" \in Ahead

ConsoleGoes == console = "raw" => "RestoreConsole" \in Agenda

\* Without a mishap all of it will be given back.  Task and snapshot will be even after
\* other mishaps, unless their own deletion failed, or, of a task, a reply was lost.
WillBeGivenBack ==
  /\ mishaps = {} => LeaseGoes /\ EndpointGoes /\ ContainerGoes /\ ConsoleGoes
  /\ "snapshot" \in mishaps \/ SnapshotGoes
  /\ "task" \in mishaps \/ "reply" \in mishaps \/ TaskGoes

\* The goroutine of a terminal is awaited before the console is given back.
ResizerInv ==
  resizer \in {"idle", "calling"} => "AwaitResize" \in Agenda /\ "RestoreConsole" \in Agenda

\* What collectExit got is the code of a task that will not run again, and so is what
\* run returns.
CodeInv ==
  /\ status = "exited" => exitCode = taskCode /\ task \in {"stopped", "none"}
  /\ ~OnPlan /\ ~failed => status = "exited" /\ code = taskCode

\* The inductive invariant.
RunnerInv ==
  /\ TypeOK /\ ControlInv /\ CreatedInv /\ WillBeGivenBack /\ NeededOnesRemain
  /\ ResizerInv /\ CodeInv

------------------------------------------------------------------------------
(* Ascending sequences.                                                    *)

LEMMA RanksAreNumbers == \A x \in Steps : Rank[x] \in 1..31
BY DEF Steps, Rank

LEMMA EmptyAscends == Ascending(<<>>) /\ Elements(<<>>) = {}
BY DEF Ascending, Elements

LEMMA AscendingTail ==
  ASSUME NEW s, Ascending(s), s # <<>>
  PROVE  /\ Ascending(Tail(s))
         /\ Head(s) \in Steps
         /\ Elements(s) = {Head(s)} \cup Elements(Tail(s))
         /\ Elements(s) \subseteq Steps
         /\ \A y \in Elements(Tail(s)) : Rank[Head(s)] < Rank[y]
         /\ Head(s) \notin Elements(Tail(s))
<1> DEFINE t == Tail(s)
<1>1. s \in Seq(Steps) /\ Len(s) \in Nat \ {0} /\ Head(s) = s[1] /\ s[1] \in Steps
      /\ \A i \in 1..Len(s) : s[i] \in Steps
  BY DEF Ascending
<1>2. /\ t \in Seq(Steps) /\ Len(t) = Len(s) - 1
      /\ \A i \in 1..Len(t) : t[i] = s[i + 1]
  BY <1>1, HeadTailProperties
<1>3. \A i, j \in 1..Len(s) : i < j => Rank[s[i]] < Rank[s[j]]
  BY DEF Ascending
<1> HIDE DEF t
<1>4. Ascending(t)
  <2> SUFFICES ASSUME NEW i \in 1..Len(t), NEW j \in 1..Len(t), i < j
               PROVE  Rank[t[i]] < Rank[t[j]]
    BY <1>2 DEF Ascending
  <2>1. i + 1 \in 1..Len(s) /\ j + 1 \in 1..Len(s) /\ i + 1 < j + 1
    BY <1>1, <1>2
  <2> QED BY <1>2, <1>3, <2>1
<1>5. Elements(s) = {s[1]} \cup Elements(t)
  <2>1. \A i \in 1..Len(s) : i = 1 \/ (i - 1 \in 1..Len(t) /\ t[i - 1] = s[i])
    BY <1>1, <1>2
  <2>2. \A i \in 1..Len(t) : i + 1 \in 1..Len(s)
    BY <1>1, <1>2
  <2> QED BY <1>1, <1>2, <2>1, <2>2 DEF Elements
<1>6. \A y \in Elements(t) : Rank[s[1]] < Rank[y]
  <2> SUFFICES ASSUME NEW i \in 1..Len(t) PROVE Rank[s[1]] < Rank[t[i]]
    BY DEF Elements
  <2>1. i + 1 \in 1..Len(s) /\ 1 \in 1..Len(s) /\ 1 < i + 1
    BY <1>1, <1>2
  <2> QED BY <1>2, <1>3, <2>1
<1>7. s[1] \notin Elements(t)
  <2>1. ~(Rank[s[1]] < Rank[s[1]])
    <3>1. Rank[s[1]] \in 1..31
      BY <1>1, RanksAreNumbers
    <3> DEFINE r == Rank[s[1]]
    <3> HIDE DEF r
    <3>2. r \in 1..31 => ~(r < r)
      OBVIOUS
    <3> QED BY <3>1, <3>2 DEF r
  <2>2. SUFFICES ASSUME s[1] \in Elements(t) PROVE FALSE
    OBVIOUS
  <2>3. Rank[s[1]] < Rank[s[1]]
    BY <1>6, <2>2
  <2> QED BY <2>1, <2>3
<1> QED BY <1>1, <1>4, <1>5, <1>6, <1>7 DEF t, Elements

LEMMA AscendingConcat ==
  ASSUME NEW s, NEW t, Ascending(s), Ascending(t),
         \A x \in Elements(s), y \in Elements(t) : Rank[x] < Rank[y]
  PROVE  Ascending(s \o t) /\ Elements(s \o t) = Elements(s) \cup Elements(t)
<1>1. /\ s \in Seq(Steps) /\ t \in Seq(Steps) /\ Len(s) \in Nat /\ Len(t) \in Nat
      /\ \A i, j \in 1..Len(s) : i < j => Rank[s[i]] < Rank[s[j]]
      /\ \A i, j \in 1..Len(t) : i < j => Rank[t[i]] < Rank[t[j]]
  BY DEF Ascending
<1> DEFINE u == s \o t
<1>2. /\ u \in Seq(Steps) /\ Len(u) = Len(s) + Len(t)
      /\ \A i \in 1..Len(s) : u[i] = s[i]
      /\ \A i \in 1..Len(u) : i > Len(s) => i - Len(s) \in 1..Len(t) /\ u[i] = t[i - Len(s)]
  BY <1>1, ConcatProperties
<1> HIDE DEF u
<1>3. ASSUME NEW i \in 1..Len(u), NEW j \in 1..Len(u), i < j
      PROVE  Rank[u[i]] < Rank[u[j]]
  <2>1. CASE j <= Len(s)
    <3>1. i \in 1..Len(s) /\ j \in 1..Len(s)
      BY <1>1, <1>2, <1>3, <2>1
    <3> QED BY <1>1, <1>2, <1>3, <3>1
  <2>2. CASE i <= Len(s) /\ j > Len(s)
    <3>1. i \in 1..Len(s) /\ j - Len(s) \in 1..Len(t)
      BY <1>1, <1>2, <2>2
    <3>2. s[i] \in Elements(s) /\ t[j - Len(s)] \in Elements(t)
      BY <3>1 DEF Elements
    <3> QED BY <1>2, <2>2, <3>1, <3>2
  <2>3. CASE i > Len(s)
    <3>1. i - Len(s) \in 1..Len(t) /\ j - Len(s) \in 1..Len(t) /\ i - Len(s) < j - Len(s)
          /\ j > Len(s)
      BY <1>1, <1>2, <1>3, <2>3
    <3> QED BY <1>1, <1>2, <2>3, <3>1
  <2> QED BY <1>1, <1>2, <2>1, <2>2, <2>3
<1>4. Elements(u) \subseteq Elements(s) \cup Elements(t)
  <2> SUFFICES ASSUME NEW i \in 1..Len(u) PROVE u[i] \in Elements(s) \cup Elements(t)
    BY DEF Elements
  <2>1. CASE i <= Len(s)
    BY <1>1, <1>2, <2>1 DEF Elements
  <2>2. CASE i > Len(s)
    BY <1>2, <2>2 DEF Elements
  <2> QED BY <1>1, <2>1, <2>2
<1>5. Elements(s) \cup Elements(t) \subseteq Elements(u)
  <2>1. ASSUME NEW i \in 1..Len(s) PROVE s[i] \in Elements(u)
    BY <1>1, <1>2 DEF Elements
  <2>2. ASSUME NEW i \in 1..Len(t) PROVE t[i] \in Elements(u)
    <3>1. i + Len(s) \in 1..Len(u) /\ i + Len(s) > Len(s) /\ (i + Len(s)) - Len(s) = i
      BY <1>1, <1>2
    <3> QED BY <1>2, <3>1 DEF Elements
  <2> QED BY <2>1, <2>2 DEF Elements
<1> QED BY <1>2, <1>3, <1>4, <1>5 DEF Ascending, u

LEMMA SingleAscends ==
  ASSUME NEW x \in Steps
  PROVE  Ascending(<<x>>) /\ Elements(<<x>>) = {x}
BY DEF Ascending, Elements

\* A step put in front.
LEMMA AscendingPrefix ==
  ASSUME NEW x \in Steps, NEW t, Ascending(t), \A y \in Elements(t) : Rank[x] < Rank[y]
  PROVE  Ascending(<<x>> \o t) /\ Elements(<<x>> \o t) = {x} \cup Elements(t)
<1>1. Ascending(<<x>>) /\ Elements(<<x>>) = {x}
  BY SingleAscends
<1> QED BY <1>1, AscendingConcat

\* Three steps ascend when each comes before the next.
LEMMA ThreeAscend ==
  ASSUME NEW s \in Seq(Steps), Len(s) = 3,
         Rank[s[1]] < Rank[s[2]], Rank[s[2]] < Rank[s[3]]
  PROVE  Ascending(s)
<1> DEFINE r1 == Rank[s[1]]
           r2 == Rank[s[2]]
           r3 == Rank[s[3]]
<1>1. s[1] \in Steps /\ s[2] \in Steps /\ s[3] \in Steps
  OBVIOUS
<1>2. r1 \in 1..31 /\ r2 \in 1..31 /\ r3 \in 1..31
  BY <1>1, RanksAreNumbers
<1>3. r1 < r2 /\ r2 < r3
  OBVIOUS
<1> HIDE DEF r1, r2, r3
<1>4. r1 < r2 /\ r1 < r3 /\ r2 < r3
  BY <1>2, <1>3
<1>5. ASSUME NEW i \in 1..3, NEW j \in 1..3, i < j PROVE Rank[s[i]] < Rank[s[j]]
  <2>1. (i = 1 /\ j = 2) \/ (i = 1 /\ j = 3) \/ (i = 2 /\ j = 3)
    BY <1>5
  <2> QED BY <1>4, <2>1 DEF r1, r2, r3
<1> QED BY <1>5 DEF Ascending

\* And so do four.
LEMMA FourAscend ==
  ASSUME NEW s \in Seq(Steps), Len(s) = 4,
         Rank[s[1]] < Rank[s[2]], Rank[s[2]] < Rank[s[3]], Rank[s[3]] < Rank[s[4]]
  PROVE  Ascending(s)
<1> DEFINE r1 == Rank[s[1]]
           r2 == Rank[s[2]]
           r3 == Rank[s[3]]
           r4 == Rank[s[4]]
<1>1. s[1] \in Steps /\ s[2] \in Steps /\ s[3] \in Steps /\ s[4] \in Steps
  <2>1. \A i \in 1..Len(s) : s[i] \in Steps
    BY ElementOfSeq
  <2>2. 1 \in 1..Len(s) /\ 2 \in 1..Len(s) /\ 3 \in 1..Len(s) /\ 4 \in 1..Len(s)
    OBVIOUS
  <2> QED BY <2>1, <2>2
<1>2. r1 \in 1..31 /\ r2 \in 1..31 /\ r3 \in 1..31 /\ r4 \in 1..31
  BY <1>1, RanksAreNumbers
<1>3. r1 < r2 /\ r2 < r3 /\ r3 < r4
  OBVIOUS
<1> HIDE DEF r1, r2, r3, r4
<1>4. r1 < r2 /\ r1 < r3 /\ r1 < r4 /\ r2 < r3 /\ r2 < r4 /\ r3 < r4
  BY <1>2, <1>3
<1>5. ASSUME NEW i \in 1..4, NEW j \in 1..4, i < j PROVE Rank[s[i]] < Rank[s[j]]
  <2>1. \/ (i = 1 /\ j = 2) \/ (i = 1 /\ j = 3) \/ (i = 1 /\ j = 4)
        \/ (i = 2 /\ j = 3) \/ (i = 2 /\ j = 4) \/ (i = 3 /\ j = 4)
    BY <1>5
  <2> QED BY <1>4, <2>1 DEF r1, r2, r3, r4
<1> QED BY <1>5 DEF Ascending

\* Ranks are compared like numbers.
LEMMA RanksCompare ==
  ASSUME NEW x \in Steps, NEW y \in Steps
  PROVE  /\ ~(Rank[x] < Rank[x])
         /\ Rank[x] > Rank[y] <=> Rank[y] < Rank[x]
         /\ Rank[x] >= Rank[y] <=> (Rank[y] < Rank[x] \/ Rank[x] = Rank[y])
         /\ ~(Rank[x] < Rank[y]) <=> Rank[x] >= Rank[y]
         /\ Rank[x] < 12 => Rank[x] <= 12
         /\ ~(Rank[x] <= 12 /\ Rank[x] > 12)
         /\ \A z \in Steps : Rank[x] < Rank[y] /\ Rank[y] < Rank[z] => Rank[x] < Rank[z]
<1>1. Rank[x] \in 1..31 /\ Rank[y] \in 1..31 /\ \A z \in Steps : Rank[z] \in 1..31
  BY RanksAreNumbers
<1> DEFINE r == Rank[x]
           s == Rank[y]
<1> HIDE DEF r, s
<1>2. r \in 1..31 /\ s \in 1..31
  BY <1>1 DEF r, s
<1>3. /\ ~(r < r) /\ (r > s <=> s < r) /\ (r >= s <=> (s < r \/ r = s))
      /\ (~(r < s) <=> r >= s) /\ (r < 12 => r <= 12) /\ ~(r <= 12 /\ r > 12)
  BY <1>2
<1>4. ASSUME NEW z \in Steps, r < s, s < Rank[z] PROVE r < Rank[z]
  <2> DEFINE q == Rank[z]
  <2>1. q \in 1..31 /\ s < q
    BY <1>1, <1>4
  <2> HIDE DEF q
  <2>2. r < q
    BY <1>2, <1>4, <2>1
  <2> QED BY <2>2 DEF q
<1> QED BY <1>3, <1>4 DEF r, s
\* The ranks, one by one.
LEMMA RanksAre ==
  /\ Rank["Connect"] = 1 /\ Rank["DetectSnapshotter"] = 2 /\ Rank["CreateLease"] = 3
  /\ Rank["GetImage"] = 4 /\ Rank["EnableConsole"] = 5 /\ Rank["CreateEndpoint"] = 6
  /\ Rank["CreateContainer"] = 7 /\ Rank["CreateTask"] = 8 /\ Rank["RegisterWait"] = 9
  /\ Rank["StartTask"] = 10 /\ Rank["Relay"] = 11 /\ Rank["Wait"] = 12
  /\ Rank["Stop"] = 13 /\ Rank["Poll"] = 14 /\ Rank["Kill"] = 15
  /\ Rank["DropTask"] = 16 /\ Rank["DropSnapshot"] = 17 /\ Rank["DropLease"] = 18
  /\ Rank["StopSignals"] = 21 /\ Rank["CloseResize"] = 22 /\ Rank["AwaitResize"] = 23
  /\ Rank["RestoreConsole"] = 24 /\ Rank["DeleteTask"] = 25 /\ Rank["DeleteContainer"] = 26
  /\ Rank["RemoveSnapshot"] = 27 /\ Rank["DeleteMetadata"] = 28 /\ Rank["DeleteEndpoint"] = 29
  /\ Rank["DeleteLease"] = 30 /\ Rank["CloseClient"] = 31
BY DEF Rank

LEMMA StepsAre == \A x \in Steps : x \in DOMAIN Rank
BY DEF Steps, Rank

------------------------------------------------------------------------------
(* The sequences the program is made of.                                   *)

LEMMA LiteralsAscend ==
  /\ Ascending(Cleanup) /\ Elements(Cleanup) = CleanupSteps
  /\ LET stops == <<"StopSignals">> \o StopResize IN
       Ascending(stops) /\ Elements(stops) = {"StopSignals", "CloseResize", "AwaitResize"}
  /\ LET two == <<"RemoveSnapshot", "DeleteMetadata">> IN
       Ascending(two) /\ Elements(two) = {"RemoveSnapshot", "DeleteMetadata"}
<1>1. Ascending(Cleanup) /\ Elements(Cleanup) = CleanupSteps
  <2>1. /\ Cleanup \in Seq(Steps) /\ Len(Cleanup) = 4
        /\ Cleanup[1] = "DeleteTask" /\ Cleanup[2] = "DeleteContainer"
        /\ Cleanup[3] = "DeleteEndpoint" /\ Cleanup[4] = "DeleteLease"
    BY DEF Cleanup, Steps
  <2> HIDE DEF Cleanup
  <2>2. Ascending(Cleanup)
    <3>1. /\ Rank[Cleanup[1]] = 25 /\ Rank[Cleanup[2]] = 26
          /\ Rank[Cleanup[3]] = 29 /\ Rank[Cleanup[4]] = 30
      BY <2>1, RanksAre
    <3> QED BY <2>1, <3>1, FourAscend
  <2>3. Elements(Cleanup) = CleanupSteps
    BY <2>1 DEF Elements, CleanupSteps
  <2> QED BY <2>2, <2>3
<1>2. /\ Ascending(StopResize) /\ Elements(StopResize) = {"CloseResize", "AwaitResize"}
  <2>1. /\ StopResize \in Seq(Steps) /\ Len(StopResize) = 2
        /\ StopResize[1] = "CloseResize" /\ StopResize[2] = "AwaitResize"
    BY DEF StopResize, Steps
  <2> HIDE DEF StopResize
  <2> QED BY <2>1, RanksAre DEF Ascending, Elements
<1>3. LET stops == <<"StopSignals">> \o StopResize IN
        Ascending(stops) /\ Elements(stops) = {"StopSignals", "CloseResize", "AwaitResize"}
  <2>1. "StopSignals" \in Steps /\ \A y \in Elements(StopResize) : Rank["StopSignals"] < Rank[y]
    BY <1>2, RanksAre DEF Steps
  <2> QED BY <1>2, <2>1, AscendingPrefix
<1>4. LET two == <<"RemoveSnapshot", "DeleteMetadata">> IN
        Ascending(two) /\ Elements(two) = {"RemoveSnapshot", "DeleteMetadata"}
  <2> DEFINE two == <<"RemoveSnapshot", "DeleteMetadata">>
  <2>1. two \in Seq(Steps) /\ Len(two) = 2 /\ two[1] = "RemoveSnapshot"
        /\ two[2] = "DeleteMetadata"
    BY DEF Steps
  <2> HIDE DEF two
  <2>2. Ascending(two) /\ Elements(two) = {"RemoveSnapshot", "DeleteMetadata"}
    BY <2>1, RanksAre DEF Ascending, Elements
  <2> QED BY <2>2 DEF two
<1> QED BY <1>1, <1>3, <1>4

\* The plan of run ascends, and its steps are those planned.
LEMMA PlanAscends ==
  ASSUME cfg \in [terminal : BOOLEAN, network : BOOLEAN]
  PROVE  Ascending(run(cfg)) /\ Elements(run(cfg)) = Planned
<1> DEFINE a == <<"Connect">>
           c == When(cfg.terminal, <<"EnableConsole">>)
           d == When(cfg.network, <<"CreateEndpoint">>)
           e == <<"CreateContainer", "CreateTask", "RegisterWait", "StartTask">>
           f == <<"Relay", "Wait">>
<1>1. Ascending(a) /\ Elements(a) = {"Connect"}
  BY SingleAscends DEF Steps
<1>2. Ascending(Prepare) /\ Elements(Prepare) = {"DetectSnapshotter", "CreateLease", "GetImage"}
  <2>1. /\ Prepare \in Seq(Steps) /\ Len(Prepare) = 3 /\ Prepare[1] = "DetectSnapshotter"
        /\ Prepare[2] = "CreateLease" /\ Prepare[3] = "GetImage"
    BY DEF Prepare, Steps
  <2> HIDE DEF Prepare
  <2>2. Rank[Prepare[1]] = 2 /\ Rank[Prepare[2]] = 3 /\ Rank[Prepare[3]] = 4
    BY <2>1, RanksAre
  <2>3. Ascending(Prepare)
    BY <2>1, <2>2, ThreeAscend
  <2> QED BY <2>1, <2>3 DEF Elements
<1>3. Ascending(c) /\ Elements(c) = IF cfg.terminal THEN {"EnableConsole"} ELSE {}
  BY SingleAscends, EmptyAscends DEF Steps, When
<1>4. Ascending(d) /\ Elements(d) = IF cfg.network THEN {"CreateEndpoint"} ELSE {}
  BY SingleAscends, EmptyAscends DEF Steps, When
<1>5. /\ Ascending(e)
      /\ Elements(e) = {"CreateContainer", "CreateTask", "RegisterWait", "StartTask"}
  <2>1. /\ e \in Seq(Steps) /\ Len(e) = 4 /\ e[1] = "CreateContainer" /\ e[2] = "CreateTask"
        /\ e[3] = "RegisterWait" /\ e[4] = "StartTask"
    BY DEF Steps
  <2> HIDE DEF e
  <2>2. Ascending(e)
    <3>1. Rank[e[1]] = 7 /\ Rank[e[2]] = 8 /\ Rank[e[3]] = 9 /\ Rank[e[4]] = 10
      BY <2>1, RanksAre
    <3> QED BY <2>1, <3>1, FourAscend
  <2>3. Elements(e) = {"CreateContainer", "CreateTask", "RegisterWait", "StartTask"}
    BY <2>1 DEF Elements
  <2> QED BY <2>2, <2>3
<1>6. Ascending(f) /\ Elements(f) = {"Relay", "Wait"}
  <2>1. f \in Seq(Steps) /\ Len(f) = 2 /\ f[1] = "Relay" /\ f[2] = "Wait"
    BY DEF Steps
  <2> HIDE DEF f
  <2> QED BY <2>1, RanksAre DEF Ascending, Elements
<1>7. run(cfg) = (((a \o Prepare) \o c) \o (d \o e)) \o f
  BY DEF run, Start
<1> HIDE DEF a, c, d, e, f
<1>8. Ascending(d \o e) /\ Elements(d \o e) = Elements(d) \cup Elements(e)
  <2>1. \A x \in Elements(d), y \in Elements(e) : Rank[x] < Rank[y]
    BY <1>4, <1>5, RanksAre
  <2> QED BY <1>4, <1>5, <2>1, AscendingConcat
<1>9. Ascending(a \o Prepare) /\ Elements(a \o Prepare) = Elements(a) \cup Elements(Prepare)
  <2>1. \A x \in Elements(a), y \in Elements(Prepare) : Rank[x] < Rank[y]
    BY <1>1, <1>2, RanksAre
  <2> QED BY <1>1, <1>2, <2>1, AscendingConcat
<1> DEFINE g == a \o Prepare
<1>10. Ascending(g \o c) /\ Elements(g \o c) = Elements(g) \cup Elements(c)
  <2>1. \A x \in Elements(g), y \in Elements(c) : Rank[x] < Rank[y]
    BY <1>1, <1>2, <1>3, <1>9, RanksAre
  <2> QED BY <1>3, <1>9, <2>1, AscendingConcat
<1> DEFINE h == g \o c
           k == d \o e
<1>11. Ascending(h \o k) /\ Elements(h \o k) = Elements(h) \cup Elements(k)
  <2>1. \A x \in Elements(h), y \in Elements(k) : Rank[x] < Rank[y]
    <3> HIDE DEF h, k
    <3>1. Elements(h) \subseteq {"Connect", "DetectSnapshotter", "CreateLease", "GetImage",
                                "EnableConsole"}
      BY <1>1, <1>2, <1>3, <1>9, <1>10 DEF h
    <3>2. Elements(k) \subseteq {"CreateEndpoint", "CreateContainer", "CreateTask",
                                "RegisterWait", "StartTask"}
      BY <1>4, <1>5, <1>8 DEF k
    <3> QED BY <3>1, <3>2, RanksAre
  <2> QED BY <1>8, <1>10, <2>1, AscendingConcat
<1> DEFINE m == h \o k
<1>12. Elements(m) = {"Connect", "DetectSnapshotter", "CreateLease", "GetImage",
                      "CreateContainer", "CreateTask", "RegisterWait", "StartTask"}
                     \cup Elements(c) \cup Elements(d)
  BY <1>1, <1>2, <1>5, <1>8, <1>9, <1>10, <1>11
<1>13. Ascending(m \o f) /\ Elements(m \o f) = Elements(m) \cup Elements(f)
  <2>1. \A x \in Elements(m), y \in Elements(f) : Rank[x] < Rank[y]
    <3> HIDE DEF m
    <3> QED BY <1>3, <1>4, <1>6, <1>12, RanksAre
  <2> QED BY <1>6, <1>11, <2>1, AscendingConcat
<1>14. Elements(m \o f) = Planned
  <2> HIDE DEF m
  <2> QED BY <1>3, <1>4, <1>6, <1>12, <1>13 DEF Planned
<1> QED BY <1>7, <1>13, <1>14


------------------------------------------------------------------------------
(* The head of todo, and what it tells.                                    *)

\* The step at the head comes before all the others.
LEMMA HeadIsFirst ==
  ASSUME NEW step, ControlInv, At(step)
  PROVE  /\ step \in Steps /\ step \in Ahead /\ Ahead \subseteq Steps
         /\ Ascending(Tail(todo))
         /\ Ahead = {step} \cup Elements(Tail(todo))
         /\ step \notin Elements(Tail(todo))
         /\ \A y \in Ahead : y = step \/ Rank[step] < Rank[y]
         /\ \A y \in Elements(Tail(todo)) : Rank[step] < Rank[y]
<1>1. Ascending(todo) /\ todo # <<>> /\ Head(todo) = step
  BY DEF ControlInv, At
<1>2. /\ Ascending(Tail(todo)) /\ step \in Steps
      /\ Elements(todo) = {step} \cup Elements(Tail(todo))
      /\ Elements(todo) \subseteq Steps
      /\ \A y \in Elements(Tail(todo)) : Rank[step] < Rank[y]
      /\ step \notin Elements(Tail(todo))
  BY <1>1, AscendingTail
<1> QED BY <1>2 DEF Ahead

\* What is planned, by its ranks.
LEMMA PlannedAreFirst ==
  /\ Planned \subseteq Steps
  /\ \A y \in Planned : Rank[y] <= 12
  /\ "Wait" \in Planned
BY RanksAre DEF Planned, Steps

\* At a step of the plan main is on the plan, and what is ahead is the rest of it.
LEMMA HeadOnPlan ==
  ASSUME NEW step, ControlInv, At(step), Rank[step] <= 12
  PROVE  /\ OnPlan /\ OnPlanInv /\ ~failed
         /\ step \in Planned
         /\ \A y \in Planned : y \in Ahead <=> Rank[y] >= Rank[step]
         /\ \A y \in Ahead : y \in Planned
<1>1. step \in Ahead /\ step \in Steps
  BY HeadIsFirst
<1>2. OnPlan
  <2>1. ~OnPlan => Rank[step] > 12
    BY <1>1 DEF ControlInv, OffPlanInv
  <2> QED BY <1>1, <2>1, RanksCompare
<1>3. OnPlanInv
  BY <1>2 DEF ControlInv
<1>4. Ahead = {y \in Planned : Rank[y] >= Rank[step]}
  BY <1>3 DEF OnPlanInv, At
<1> QED BY <1>1, <1>2, <1>3, <1>4 DEF OnPlanInv

\* At any other step main has left the plan.
LEMMA HeadOffPlan ==
  ASSUME NEW step, ControlInv, At(step), Rank[step] > 12
  PROVE  /\ ~OnPlan /\ OffPlanInv /\ Later = {} /\ Agenda = Ahead
<1>1. step \in Ahead /\ step \in Steps
  BY HeadIsFirst
<1>2. ~OnPlan
  <2>1. OnPlan => Rank[step] <= 12
    BY <1>1, PlannedAreFirst DEF ControlInv, OnPlanInv
  <2> QED BY <1>1, <2>1, RanksCompare
<1> QED BY <1>2 DEF ControlInv, OffPlanInv, Agenda

\* What is deferred on the plan is of the return, and comes after every roll-back.
LEMMA LaterIsLate ==
  ASSUME OnPlanInv
  PROVE  /\ Later \subseteq {"CloseClient", "RestoreConsole", "StopSignals", "CloseResize",
                            "AwaitResize"} \cup CleanupSteps
         /\ \A y \in Later : Rank[y] >= 21
<1>1. Later \subseteq {"CloseClient", "RestoreConsole", "StopSignals", "CloseResize",
                       "AwaitResize"} \cup CleanupSteps
  BY DEF OnPlanInv
<1> HIDE DEF Later
<1> QED BY <1>1, RanksAre DEF CleanupSteps

\* A roll-back, and Stop, come before what was deferred, and after the plan.
LEMMA RollbackBeforeReturn ==
  LET Undo == {"Stop", "DropTask", "DropSnapshot", "DropLease"}
      Ending == {"CloseClient", "RestoreConsole", "StopSignals", "CloseResize", "AwaitResize",
                  "DeleteTask", "DeleteContainer", "DeleteEndpoint", "DeleteLease"}
  IN  /\ \A x \in Undo : Rank[x] > 12 /\ Rank[x] < 21
      /\ \A y \in Ending : Rank[y] > 12
      /\ \A x \in Undo, y \in Ending : Rank[x] < Rank[y]
BY RanksAre

\* What Stop, Poll and DeleteContainer insert comes right after them.
LEMMA InsertedAreNext ==
  /\ \A z \in Steps : Rank["Stop"] < Rank[z] => z = "Poll" \/ Rank["Poll"] < Rank[z]
  /\ \A z \in Steps : Rank["Poll"] < Rank[z] => z = "Kill" \/ Rank["Kill"] < Rank[z]
  /\ \A z \in Steps :
       Rank["DeleteContainer"] < Rank[z] =>
         \/ z \in {"RemoveSnapshot", "DeleteMetadata"}
         \/ Rank["RemoveSnapshot"] < Rank[z] /\ Rank["DeleteMetadata"] < Rank[z]
  /\ \A y \in {"Poll", "Kill", "RemoveSnapshot", "DeleteMetadata"} : Rank[y] > 12
<1>1. \A z \in Steps : Rank["Stop"] < Rank[z] => z = "Poll" \/ Rank["Poll"] < Rank[z]
  BY RanksAre DEF Steps
<1>2. \A z \in Steps : Rank["Poll"] < Rank[z] => z = "Kill" \/ Rank["Kill"] < Rank[z]
  BY RanksAre DEF Steps
<1>3. \A z \in Steps :
        Rank["DeleteContainer"] < Rank[z] =>
          \/ z \in {"RemoveSnapshot", "DeleteMetadata"}
          \/ Rank["RemoveSnapshot"] < Rank[z] /\ Rank["DeleteMetadata"] < Rank[z]
  BY RanksAre DEF Steps
<1> QED BY <1>1, <1>2, <1>3, RanksAre

------------------------------------------------------------------------------
(* How the plan goes on.                                                   *)

\* A step of the plan is done and others follow.
LEMMA PlanShortens ==
  ASSUME NEW step, ControlInv, At(step), Rank[step] < 12, todo' = Tail(todo), UNCHANGED cfg
  PROVE  /\ OnPlan /\ OnPlan' /\ OnPlanInv /\ step \in Planned /\ Planned' = Planned
         /\ Ascending(todo')
         /\ Ahead = {step} \cup Ahead' /\ step \notin Ahead'
         /\ Ahead' = {y \in Planned' : Rank[y] >= Rank[Head(todo')]}
         /\ \A y \in Planned : y \in Ahead' <=> Rank[y] > Rank[step]
<1>1. /\ step \in Steps /\ Ahead \subseteq Steps
      /\ Ascending(todo') /\ Ahead = {step} \cup Ahead' /\ step \notin Ahead'
      /\ \A y \in Ahead' : Rank[step] < Rank[y]
  BY HeadIsFirst DEF Ahead
<1>2. Rank[step] <= 12
  BY <1>1, RanksCompare
<1>3. /\ OnPlan /\ OnPlanInv /\ step \in Planned
      /\ \A y \in Planned : y \in Ahead <=> Rank[y] >= Rank[step]
      /\ \A y \in Ahead : y \in Planned
  BY <1>2, HeadOnPlan
<1>4. Planned' = Planned
  BY DEF Planned
<1>5. OnPlan'
  <2>1. step # "Wait"
    BY RanksAre
  <2> QED BY <1>1, <1>3, <2>1 DEF OnPlan
<1>6. todo' # <<>> /\ Head(todo') \in Ahead'
      /\ \A y \in Ahead' : y = Head(todo') \/ Rank[Head(todo')] < Rank[y]
  <2>1. todo' # <<>>
    BY <1>5, EmptyAscends DEF OnPlan, Ahead
  <2>2. /\ Elements(todo') = {Head(todo')} \cup Elements(Tail(todo'))
        /\ \A y \in Elements(Tail(todo')) : Rank[Head(todo')] < Rank[y]
    BY <1>1, <2>1, AscendingTail
  <2> QED BY <2>1, <2>2 DEF Ahead
<1> DEFINE h == Head(todo')
<1> HIDE DEF h
<1>7. h \in Steps /\ Rank[step] < Rank[h] /\ h \in Planned
  BY <1>1, <1>3, <1>6 DEF h
<1>8. ASSUME NEW y \in Planned PROVE y \in Ahead' <=> Rank[y] >= Rank[h]
  <2>1. y \in Steps
    BY PlannedAreFirst
  <2>2. ASSUME y \in Ahead' PROVE Rank[y] >= Rank[h]
    <3>1. y = h \/ Rank[h] < Rank[y]
      BY <1>6, <2>2 DEF h
    <3> QED BY <1>7, <2>1, <3>1, RanksCompare
  <2>3. ASSUME Rank[y] >= Rank[h] PROVE y \in Ahead'
    <3>1. Rank[h] < Rank[y] \/ Rank[y] = Rank[h]
      BY <1>7, <2>1, <2>3, RanksCompare
    <3>2. Rank[step] < Rank[y]
      BY <1>1, <1>7, <2>1, <3>1, RanksCompare
    <3>3. Rank[y] >= Rank[step] /\ y # step
      BY <1>1, <2>1, <3>2, RanksCompare
    <3> QED BY <1>1, <1>3, <3>3
  <2> QED BY <2>2, <2>3
<1>9. ASSUME NEW y \in Planned PROVE y \in Ahead' <=> Rank[y] > Rank[step]
  <2>1. y \in Steps
    BY PlannedAreFirst
  <2>2. ASSUME y \in Ahead' PROVE Rank[y] > Rank[step]
    BY <1>1, <2>1, <2>2, RanksCompare
  <2>3. ASSUME Rank[y] > Rank[step] PROVE y \in Ahead'
    <3>1. Rank[y] >= Rank[step] /\ y # step
      BY <1>1, <2>1, <2>3, RanksCompare
    <3> QED BY <1>1, <1>3, <3>1
  <2> QED BY <2>2, <2>3
<1>10. Ahead' = {y \in Planned' : Rank[y] >= Rank[Head(todo')]}
  <2>1. \A y \in Ahead' : y \in Planned
    BY <1>1, <1>3
  <2> QED BY <1>4, <1>8, <2>1 DEF h
<1> QED BY <1>1, <1>3, <1>4, <1>5, <1>9, <1>10

\* A step of the plan is done, and nothing deferred.
LEMMA PlanGoesOn ==
  ASSUME NEW step \in {"DetectSnapshotter", "CreateLease", "CreateEndpoint", "CreateContainer",
                       "CreateTask", "RegisterWait", "StartTask"},
         ControlInv, Proceed(step), UNCHANGED cfg
  PROVE  /\ OnPlan /\ OnPlan' /\ OnPlanInv /\ ControlInv' /\ ~failed /\ ~failed'
         /\ Planned' = Planned
         /\ Ahead = {step} \cup Ahead' /\ step \notin Ahead' /\ Later' = Later
         /\ \A y \in Planned : y \in Ahead <=> Rank[y] >= Rank[step]
<1>1. /\ At(step) /\ Rank[step] < 12 /\ Rank[step] <= 12 /\ todo' = Tail(todo)
      /\ failed' = failed /\ deferred' = deferred
  <2>1. \A x \in {"DetectSnapshotter", "CreateLease", "CreateEndpoint", "CreateContainer",
                  "CreateTask", "RegisterWait", "StartTask"} : Rank[x] < 12 /\ x \in Steps
    BY RanksAre DEF Steps
  <2>2. Rank[step] < 12 /\ Rank[step] <= 12
    BY <2>1, RanksCompare
  <2> QED BY <2>2 DEF Proceed
<1>2. /\ OnPlan /\ OnPlan' /\ OnPlanInv /\ Planned' = Planned
      /\ Ascending(todo') /\ Ahead = {step} \cup Ahead' /\ step \notin Ahead'
      /\ Ahead' = {y \in Planned' : Rank[y] >= Rank[Head(todo')]}
  BY <1>1, PlanShortens
<1>3. ~failed /\ ~failed'
  BY <1>1, <1>2 DEF OnPlanInv
<1>4. Later' = Later
  BY <1>1 DEF Later
<1>5. /\ Passed("Connect")' = Passed("Connect") /\ Passed("GetImage")' = Passed("GetImage")
      /\ Passed("EnableConsole")' = Passed("EnableConsole")
      /\ Passed("Relay")' = Passed("Relay")
  <2> HIDE DEF Ahead, Planned
  <2> QED BY <1>2 DEF Passed
<1>6. OnPlanInv'
  <2>1. Later = (IF Passed("Connect") THEN {"CloseClient"} ELSE {})
             \cup (IF Passed("GetImage") THEN CleanupSteps ELSE {})
             \cup (IF Passed("EnableConsole") THEN {"RestoreConsole"} ELSE {})
             \cup (IF Passed("Relay") THEN {"StopSignals", "CloseResize", "AwaitResize"} ELSE {})
    BY <1>2 DEF OnPlanInv
  <2> QED BY <1>2, <1>3, <1>4, <1>5, <2>1 DEF OnPlanInv
<1>7. ControlInv'
  BY <1>1, <1>2, <1>6 DEF ControlInv
<1>8. \A y \in Planned : y \in Ahead <=> Rank[y] >= Rank[step]
  BY <1>1, HeadOnPlan
<1> QED BY <1>2, <1>3, <1>4, <1>7, <1>8

\* What a step of the plan defers comes before all that was deferred before.
LEMMA PlanDefers ==
  ASSUME NEW step \in {"Connect", "GetImage", "EnableConsole", "Relay"}, NEW calls,
         ControlInv, ProceedDeferring(step, calls), UNCHANGED cfg, Ascending(calls),
         Elements(calls) = CASE step = "Connect"       -> {"CloseClient"}
                             [] step = "GetImage"      -> CleanupSteps
                             [] step = "EnableConsole" -> {"RestoreConsole"}
                             [] step = "Relay"         -> {"StopSignals", "CloseResize",
                                                           "AwaitResize"}
  PROVE  /\ OnPlan /\ OnPlan' /\ OnPlanInv /\ ControlInv' /\ ~failed /\ ~failed'
         /\ Planned' = Planned
         /\ Ahead = {step} \cup Ahead' /\ step \notin Ahead'
         /\ Later' = Elements(calls) \cup Later
         /\ \A y \in Planned : y \in Ahead <=> Rank[y] >= Rank[step]
<1>1. /\ At(step) /\ Rank[step] < 12 /\ Rank[step] <= 12 /\ todo' = Tail(todo)
      /\ failed' = failed /\ deferred' = calls \o deferred
  <2>1. \A x \in {"Connect", "GetImage", "EnableConsole", "Relay"} : Rank[x] < 12 /\ x \in Steps
    BY RanksAre DEF Steps
  <2>2. Rank[step] < 12 /\ Rank[step] <= 12
    BY <2>1, RanksCompare
  <2> QED BY <2>2 DEF ProceedDeferring
<1>2. /\ OnPlan /\ OnPlan' /\ OnPlanInv /\ step \in Planned /\ Planned' = Planned
      /\ Ascending(todo') /\ Ahead = {step} \cup Ahead' /\ step \notin Ahead'
      /\ Ahead' = {y \in Planned' : Rank[y] >= Rank[Head(todo')]}
      /\ \A y \in Planned : y \in Ahead' <=> Rank[y] > Rank[step]
  BY <1>1, PlanShortens
<1>3. ~failed /\ ~failed'
  BY <1>1, <1>2 DEF OnPlanInv
<1>4. \A y \in Planned : y \in Ahead <=> Rank[y] >= Rank[step]
  BY <1>1, HeadOnPlan
<1>5. Later = (IF Passed("Connect") THEN {"CloseClient"} ELSE {})
             \cup (IF Passed("GetImage") THEN CleanupSteps ELSE {})
             \cup (IF Passed("EnableConsole") THEN {"RestoreConsole"} ELSE {})
             \cup (IF Passed("Relay") THEN {"StopSignals", "CloseResize", "AwaitResize"} ELSE {})
  BY <1>2 DEF OnPlanInv
<1> HIDE DEF Ahead, Planned, Later
<1>6. \A x \in {"Connect", "GetImage", "EnableConsole", "Relay"} :
        /\ Passed(x) => x \in Planned /\ Rank[x] < Rank[step]
        /\ Passed(x)' <=> (Passed(x) \/ x = step)
  <2> SUFFICES ASSUME NEW x \in {"Connect", "GetImage", "EnableConsole", "Relay"}
               PROVE  /\ Passed(x) => x \in Planned /\ Rank[x] < Rank[step]
                      /\ Passed(x)' <=> (Passed(x) \/ x = step)
    OBVIOUS
  <2>1. Passed(x)' <=> (Passed(x) \/ x = step)
    BY <1>2 DEF Passed
  <2>2. Passed(x) => x \in Planned /\ Rank[x] < Rank[step]
    <3>1. x \in Steps /\ step \in Steps
      BY DEF Steps
    <3> QED BY <1>4, <3>1, RanksCompare DEF Passed
  <2> QED BY <2>1, <2>2
<1>7. \A x \in Elements(calls), y \in Later : Rank[x] < Rank[y]
  <2>1. CASE step = "Connect"
    <3>1. Later = {}
      BY <1>5, <1>6, <2>1, RanksAre
    <3> QED BY <3>1
  <2>2. CASE step = "GetImage"
    <3>1. Later \subseteq {"CloseClient"}
      BY <1>5, <1>6, <2>2, RanksAre
    <3> QED BY <2>2, <3>1, RanksAre DEF CleanupSteps
  <2>3. CASE step = "EnableConsole"
    <3>1. Later \subseteq {"CloseClient"} \cup CleanupSteps
      BY <1>5, <1>6, <2>3, RanksAre
    <3> QED BY <2>3, <3>1, RanksAre DEF CleanupSteps
  <2>4. CASE step = "Relay"
    <3>1. Later \subseteq {"CloseClient", "RestoreConsole"} \cup CleanupSteps
      BY <1>5, <1>6, <2>4, RanksAre
    <3> QED BY <2>4, <3>1, RanksAre DEF CleanupSteps
  <2> QED BY <2>1, <2>2, <2>3, <2>4
<1>8. Ascending(deferred') /\ Later' = Elements(calls) \cup Later
  <2>1. Ascending(deferred) /\ Later = Elements(deferred)
    BY DEF ControlInv, Later
  <2>2. Ascending(calls \o deferred)
        /\ Elements(calls \o deferred) = Elements(calls) \cup Elements(deferred)
    BY <1>7, <2>1, AscendingConcat
  <2> QED BY <1>1, <2>1, <2>2 DEF Later
<1>9. Later' = (IF Passed("Connect")' THEN {"CloseClient"} ELSE {})
             \cup (IF Passed("GetImage")' THEN CleanupSteps ELSE {})
             \cup (IF Passed("EnableConsole")' THEN {"RestoreConsole"} ELSE {})
             \cup (IF Passed("Relay")' THEN {"StopSignals", "CloseResize", "AwaitResize"} ELSE {})
  <2>1. CASE step = "Connect"
    BY <1>5, <1>6, <1>8, <2>1
  <2>2. CASE step = "GetImage"
    BY <1>5, <1>6, <1>8, <2>2
  <2>3. CASE step = "EnableConsole"
    BY <1>5, <1>6, <1>8, <2>3
  <2>4. CASE step = "Relay"
    BY <1>5, <1>6, <1>8, <2>4
  <2> QED BY <2>1, <2>2, <2>3, <2>4
<1>10. OnPlanInv'
  BY <1>2, <1>3, <1>9 DEF OnPlanInv
<1>11. ControlInv'
  BY <1>1, <1>2, <1>8, <1>10 DEF ControlInv
<1> QED BY <1>2, <1>3, <1>4, <1>8, <1>11

\* The function returns: a roll-back, if there is one, and what was deferred are left.
LEMMA PlanIsLeft ==
  ASSUME NEW step \in Steps, NEW rollback, ControlInv, At(step), Rank[step] <= 12,
         Return(rollback),
         \/ rollback = <<>>
         \/ /\ rollback \in {<<"Stop">>, <<"DropTask">>, <<"DropSnapshot">>, <<"DropLease">>}
            /\ failed'
  PROVE  /\ OnPlan /\ ~OnPlan' /\ ControlInv' /\ OnPlanInv
         /\ Ahead' = Elements(rollback) \cup Later /\ Later' = {}
         /\ \A y \in Planned : y \in Ahead <=> Rank[y] >= Rank[step]
         /\ \A y \in Ahead : y \in Planned
<1>1. todo' = rollback \o deferred /\ deferred' = <<>>
  BY DEF Return
<1>2. /\ OnPlan /\ OnPlanInv /\ Ascending(deferred)
      /\ \A y \in Planned : y \in Ahead <=> Rank[y] >= Rank[step]
      /\ \A y \in Ahead : y \in Planned
  BY HeadOnPlan DEF ControlInv
<1>3. /\ Later \subseteq {"CloseClient", "RestoreConsole", "StopSignals", "CloseResize",
                          "AwaitResize"} \cup CleanupSteps
      /\ \A y \in Later : Rank[y] >= 21
  BY <1>2, LaterIsLate
<1>4. /\ Ascending(rollback)
      /\ Elements(rollback) \subseteq {"Stop", "DropTask", "DropSnapshot", "DropLease"}
      /\ Elements(rollback) # {} => failed'
      /\ \/ Elements(rollback) = {} \/ Elements(rollback) = {"Stop"}
         \/ Elements(rollback) = {"DropTask"} \/ Elements(rollback) = {"DropSnapshot"}
         \/ Elements(rollback) = {"DropLease"}
  <2>1. {"Stop", "DropTask", "DropSnapshot", "DropLease"} \subseteq Steps
    BY DEF Steps
  <2>2. CASE rollback = <<>>
    BY <2>2, EmptyAscends
  <2>3. ASSUME NEW x \in {"Stop", "DropTask", "DropSnapshot", "DropLease"}, rollback = <<x>>
        PROVE  Ascending(rollback) /\ Elements(rollback) = {x}
    BY <2>1, <2>3, SingleAscends
  <2> QED BY <2>2, <2>3
<1> HIDE DEF Ahead, Later
<1>5. \A x \in Elements(rollback), y \in Later : Rank[x] < Rank[y]
  BY <1>3, <1>4, RollbackBeforeReturn DEF CleanupSteps
<1>6. /\ Ascending(todo') /\ Ahead' = Elements(rollback) \cup Later
  <2>1. Later = Elements(deferred)
    BY DEF Later
  <2>2. Ascending(rollback \o deferred)
        /\ Elements(rollback \o deferred) = Elements(rollback) \cup Elements(deferred)
    BY <1>2, <1>4, <1>5, <2>1, AscendingConcat
  <2> QED BY <1>1, <2>1, <2>2 DEF Ahead
<1>7. Ascending(deferred') /\ Later' = {}
  BY <1>1, EmptyAscends DEF Later
<1>8. ~OnPlan'
  BY <1>3, <1>4, <1>6 DEF OnPlan, CleanupSteps
<1>9. OffPlanInv'
  <2>1. \A y \in Ahead' : Rank[y] > 12
    BY <1>3, <1>4, <1>6, RollbackBeforeReturn DEF CleanupSteps
  <2>2. /\ "Stop" \in Ahead' => "Poll" \notin Ahead'
        /\ "Stop" \in Ahead' \/ "Poll" \in Ahead' => "Kill" \notin Ahead'
        /\ "DeleteContainer" \in Ahead' =>
             "RemoveSnapshot" \notin Ahead' /\ "DeleteMetadata" \notin Ahead'
    BY <1>3, <1>4, <1>6 DEF CleanupSteps
  <2>3. "DropTask" \in Ahead' \/ "DropSnapshot" \in Ahead' \/ "DropLease" \in Ahead' => failed'
    BY <1>3, <1>4, <1>6 DEF CleanupSteps
  <2> QED BY <1>7, <2>1, <2>2, <2>3 DEF OffPlanInv
<1>10. ControlInv'
  BY <1>6, <1>7, <1>8, <1>9 DEF ControlInv
<1> QED BY <1>2, <1>6, <1>7, <1>8, <1>10

\* A step fails.
LEMMA PlanFails ==
  ASSUME NEW step \in Steps, NEW rollback, ControlInv, Fail(step, rollback), Rank[step] <= 12,
         rollback \in {<<>>, <<"DropTask">>, <<"DropSnapshot">>, <<"DropLease">>}
  PROVE  /\ OnPlan /\ ~OnPlan' /\ ControlInv' /\ OnPlanInv /\ failed'
         /\ Ahead' = Elements(rollback) \cup Later /\ Later' = {}
         /\ \A y \in Planned : y \in Ahead <=> Rank[y] >= Rank[step]
         /\ \A y \in Ahead : y \in Planned
<1>1. At(step) /\ Return(rollback) /\ failed'
  BY DEF Fail
<1>2. \/ rollback = <<>>
      \/ rollback \in {<<"Stop">>, <<"DropTask">>, <<"DropSnapshot">>, <<"DropLease">>} /\ failed'
  BY <1>1
<1> QED BY <1>1, <1>2, PlanIsLeft

------------------------------------------------------------------------------
(* How the rest goes on.                                                   *)

\* A step off the plan is done, well or badly, and the next one follows.
LEMMA RestShortens ==
  ASSUME NEW step, ControlInv, At(step), Rank[step] > 12, todo' = Tail(todo),
         UNCHANGED deferred, failed => failed'
  PROVE  /\ ~OnPlan /\ ~OnPlan' /\ OffPlanInv /\ ControlInv'
         /\ Ahead = {step} \cup Ahead' /\ step \notin Ahead'
         /\ Later = {} /\ Later' = {}
         /\ \A y \in Ahead : y = step \/ Rank[step] < Rank[y]
<1>1. /\ ~OnPlan /\ OffPlanInv /\ Later = {} /\ Later' = {} /\ Ascending(deferred')
  BY HeadOffPlan DEF ControlInv, Later
<1>2. /\ Ascending(todo') /\ Ahead = {step} \cup Ahead' /\ step \notin Ahead'
      /\ \A y \in Ahead : y = step \/ Rank[step] < Rank[y]
  BY HeadIsFirst DEF Ahead
<1> HIDE DEF Ahead, Later
<1>3. ~OnPlan'
  BY <1>1, <1>2 DEF OnPlan
<1>4. OffPlanInv'
  BY <1>1, <1>2 DEF OffPlanInv
<1> QED BY <1>1, <1>2, <1>3, <1>4 DEF ControlInv

\* A step off the plan is replaced by others that come before what follows it.
LEMMA RestGrows ==
  ASSUME NEW step, NEW steps, ControlInv, At(step), Rank[step] > 12,
         todo' = steps \o Tail(todo), UNCHANGED <<deferred, failed>>, Ascending(steps),
         \/ step = "Stop" /\ Elements(steps) = {"Poll"}
         \/ step = "Poll" /\ Elements(steps) = {"Kill"}
         \/ step = "DeleteContainer" /\ Elements(steps) = {"RemoveSnapshot", "DeleteMetadata"}
  PROVE  /\ ~OnPlan /\ ~OnPlan' /\ OffPlanInv /\ ControlInv'
         /\ Ahead' = Elements(steps) \cup (Ahead \ {step})
         /\ Later = {} /\ Later' = {}
         /\ \A y \in Ahead : y = step \/ Rank[step] < Rank[y]
<1>1. /\ ~OnPlan /\ OffPlanInv /\ Later = {} /\ Later' = {} /\ Ascending(deferred')
  BY HeadOffPlan DEF ControlInv, Later
<1> DEFINE t == Tail(todo)
<1>2. /\ Ascending(t) /\ Ahead = {step} \cup Elements(t) /\ step \notin Elements(t)
      /\ Ahead \subseteq Steps
      /\ \A y \in Ahead : y = step \/ Rank[step] < Rank[y]
      /\ \A y \in Elements(t) : Rank[step] < Rank[y]
  BY HeadIsFirst
<1>3. /\ todo' = steps \o t /\ Ahead' = Elements(steps \o t)
  BY DEF Ahead
<1> HIDE DEF t, Ahead, Later
<1>4. \A x \in Elements(steps), y \in Elements(t) : Rank[x] < Rank[y]
  <2> SUFFICES ASSUME NEW x \in Elements(steps), NEW y \in Elements(t) PROVE Rank[x] < Rank[y]
    OBVIOUS
  <2>1. y \in Steps /\ y \in Ahead /\ Rank[step] < Rank[y]
    BY <1>2
  <2>2. CASE step = "Stop"
    <3>1. x = "Poll" /\ y # "Poll"
      BY <1>1, <1>2, <2>1, <2>2 DEF OffPlanInv
    <3> QED BY <2>1, <2>2, <3>1, InsertedAreNext
  <2>3. CASE step = "Poll"
    <3>1. x = "Kill" /\ y # "Kill"
      BY <1>1, <1>2, <2>1, <2>3 DEF OffPlanInv
    <3> QED BY <2>1, <2>3, <3>1, InsertedAreNext
  <2>4. CASE step = "DeleteContainer"
    <3>1. /\ x \in {"RemoveSnapshot", "DeleteMetadata"}
          /\ y \notin {"RemoveSnapshot", "DeleteMetadata"}
      BY <1>1, <1>2, <2>1, <2>4 DEF OffPlanInv
    <3> QED BY <2>1, <2>4, <3>1, InsertedAreNext
  <2> QED BY <2>2, <2>3, <2>4
<1>5. Ascending(todo') /\ Ahead' = Elements(steps) \cup Elements(t)
  <2>1. Ascending(steps \o t) /\ Elements(steps \o t) = Elements(steps) \cup Elements(t)
    BY <1>2, <1>4, AscendingConcat
  <2> QED BY <1>3, <2>1
<1>6. Elements(t) = Ahead \ {step}
  BY <1>2
<1>7. ~OnPlan'
  BY <1>1, <1>5, <1>6 DEF OnPlan
<1>8. OffPlanInv'
  <2>1. \A y \in Elements(steps) : Rank[y] > 12
    BY InsertedAreNext
  <2>2. \A y \in Ahead' : Rank[y] > 12
    BY <1>1, <1>5, <1>6, <2>1 DEF OffPlanInv
  <2>3. /\ "Stop" \in Ahead' => "Poll" \notin Ahead'
        /\ "Stop" \in Ahead' \/ "Poll" \in Ahead' => "Kill" \notin Ahead'
    <3>1. CASE step = "Stop"
      BY <1>1, <1>2, <1>5, <1>6, <3>1 DEF OffPlanInv
    <3>2. CASE step = "Poll"
      BY <1>1, <1>2, <1>5, <1>6, <3>2 DEF OffPlanInv
    <3>3. CASE step = "DeleteContainer"
      BY <1>1, <1>2, <1>5, <1>6, <3>3 DEF OffPlanInv
    <3> QED BY <3>1, <3>2, <3>3
  <2>4. "DeleteContainer" \in Ahead' =>
          "RemoveSnapshot" \notin Ahead' /\ "DeleteMetadata" \notin Ahead'
    BY <1>1, <1>2, <1>5, <1>6 DEF OffPlanInv
  <2>5. "DropTask" \in Ahead' \/ "DropSnapshot" \in Ahead' \/ "DropLease" \in Ahead' => failed'
    BY <1>1, <1>5, <1>6 DEF OffPlanInv
  <2> QED BY <1>1, <2>2, <2>3, <2>4, <2>5 DEF OffPlanInv
<1>9. ControlInv'
  BY <1>1, <1>5, <1>7, <1>8 DEF ControlInv
<1> QED BY <1>1, <1>2, <1>5, <1>6, <1>7, <1>9

\* What stays as it is when main does nothing.
LEMMA MainRests ==
  ASSUME ControlInv, UNCHANGED <<cfg, mainVars>>
  PROVE  /\ ControlInv' /\ Ahead' = Ahead /\ Later' = Later
         /\ (OnPlan' <=> OnPlan) /\ failed' = failed
<1>1. todo' = todo /\ deferred' = deferred /\ failed' = failed /\ cfg' = cfg
  BY DEF mainVars
<1>2. Ahead' = Ahead /\ Later' = Later
  BY <1>1 DEF Ahead, Later
<1>3. Planned' = Planned
  BY <1>1 DEF Planned
<1> HIDE DEF Ahead, Later, Planned
<1>4. OnPlan' <=> OnPlan
  BY <1>2 DEF OnPlan
<1>5. OnPlanInv' <=> OnPlanInv
  BY <1>1, <1>2, <1>3 DEF OnPlanInv, Passed
<1>6. OffPlanInv' <=> OffPlanInv
  BY <1>1, <1>2 DEF OffPlanInv
<1> QED BY <1>1, <1>2, <1>4, <1>5, <1>6 DEF ControlInv

------------------------------------------------------------------------------
(* What a place in the plan tells.                                         *)

\* The steps of the plan that the invariant speaks of, before and after each step.
LEMMA PlanSplits ==
  ASSUME NEW step, \A y \in Planned : y \in Ahead <=> Rank[y] >= Rank[step]
  PROVE  /\ step \in {"Connect", "DetectSnapshotter", "CreateLease"} => "CreateLease" \in Ahead
         /\ step \in {"GetImage", "EnableConsole", "CreateEndpoint", "CreateContainer",
                      "CreateTask", "RegisterWait", "StartTask", "Relay", "Wait"} =>
              "CreateLease" \notin Ahead
         /\ step \in {"CreateLease", "GetImage"} => "GetImage" \in Ahead
         /\ step \in {"EnableConsole", "CreateEndpoint", "CreateContainer", "CreateTask",
                      "RegisterWait", "StartTask", "Relay", "Wait"} => "GetImage" \notin Ahead
         /\ step \in {"Connect", "DetectSnapshotter", "CreateLease", "GetImage", "EnableConsole",
                      "CreateEndpoint", "CreateContainer"} =>
              "CreateContainer" \in Ahead /\ "CreateTask" \in Ahead /\ "StartTask" \in Ahead
         /\ step \in {"CreateTask", "RegisterWait", "StartTask", "Relay", "Wait"} =>
              "CreateContainer" \notin Ahead
         /\ step = "CreateTask" => "CreateTask" \in Ahead /\ "StartTask" \in Ahead
         /\ step \in {"RegisterWait", "StartTask"} =>
              "CreateTask" \notin Ahead /\ "StartTask" \in Ahead
         /\ step \in {"Relay", "Wait"} => "CreateTask" \notin Ahead /\ "StartTask" \notin Ahead
         /\ step = "Relay" => "EnableConsole" \notin Planned \cap Ahead
<1>1. {"CreateLease", "GetImage", "CreateContainer", "CreateTask", "StartTask"} \subseteq Planned
  BY DEF Planned
<1> HIDE DEF Ahead, Planned
<1>3. step = "Connect" =>
        /\ "CreateLease" \in Ahead /\ "GetImage" \in Ahead /\ "CreateContainer" \in Ahead
        /\ "CreateTask" \in Ahead /\ "StartTask" \in Ahead
  BY <1>1, RanksAre
<1>4. step = "DetectSnapshotter" =>
        /\ "CreateLease" \in Ahead /\ "GetImage" \in Ahead /\ "CreateContainer" \in Ahead
        /\ "CreateTask" \in Ahead /\ "StartTask" \in Ahead
  BY <1>1, RanksAre
<1>5. step = "CreateLease" =>
        /\ "CreateLease" \in Ahead /\ "GetImage" \in Ahead /\ "CreateContainer" \in Ahead
        /\ "CreateTask" \in Ahead /\ "StartTask" \in Ahead
  BY <1>1, RanksAre
<1>6. step = "GetImage" =>
        /\ "CreateLease" \notin Ahead /\ "GetImage" \in Ahead /\ "CreateContainer" \in Ahead
        /\ "CreateTask" \in Ahead /\ "StartTask" \in Ahead
  BY <1>1, RanksAre
<1>7. step = "EnableConsole" =>
        /\ "CreateLease" \notin Ahead /\ "GetImage" \notin Ahead /\ "CreateContainer" \in Ahead
        /\ "CreateTask" \in Ahead /\ "StartTask" \in Ahead
  BY <1>1, RanksAre
<1>8. step = "CreateEndpoint" =>
        /\ "CreateLease" \notin Ahead /\ "GetImage" \notin Ahead /\ "CreateContainer" \in Ahead
        /\ "CreateTask" \in Ahead /\ "StartTask" \in Ahead
  BY <1>1, RanksAre
<1>9. step = "CreateContainer" =>
        /\ "CreateLease" \notin Ahead /\ "GetImage" \notin Ahead /\ "CreateContainer" \in Ahead
        /\ "CreateTask" \in Ahead /\ "StartTask" \in Ahead
  BY <1>1, RanksAre
<1>10. step = "CreateTask" =>
        /\ "CreateLease" \notin Ahead /\ "GetImage" \notin Ahead /\ "CreateContainer" \notin Ahead
        /\ "CreateTask" \in Ahead /\ "StartTask" \in Ahead
  BY <1>1, RanksAre
<1>11. step = "RegisterWait" =>
        /\ "CreateLease" \notin Ahead /\ "GetImage" \notin Ahead /\ "CreateContainer" \notin Ahead
        /\ "CreateTask" \notin Ahead /\ "StartTask" \in Ahead
  BY <1>1, RanksAre
<1>12. step = "StartTask" =>
        /\ "CreateLease" \notin Ahead /\ "GetImage" \notin Ahead /\ "CreateContainer" \notin Ahead
        /\ "CreateTask" \notin Ahead /\ "StartTask" \in Ahead
  BY <1>1, RanksAre
<1>13. step = "Relay" =>
        /\ "CreateLease" \notin Ahead /\ "GetImage" \notin Ahead /\ "CreateContainer" \notin Ahead
        /\ "CreateTask" \notin Ahead /\ "StartTask" \notin Ahead
        /\ "EnableConsole" \notin Planned \cap Ahead
  BY <1>1, RanksAre
<1>14. step = "Wait" =>
        /\ "CreateLease" \notin Ahead /\ "GetImage" \notin Ahead /\ "CreateContainer" \notin Ahead
        /\ "CreateTask" \notin Ahead /\ "StartTask" \notin Ahead
  BY <1>1, RanksAre
<1> QED BY <1>3, <1>4, <1>5, <1>6, <1>7, <1>8, <1>9, <1>10, <1>11, <1>12, <1>13, <1>14

\* A plan has no step of the return and no roll-back.
LEMMA PlanIsOnlyPlan ==
  ASSUME OnPlanInv
  PROVE  /\ Ahead \cap {"Stop", "Poll", "Kill", "DropTask", "DropSnapshot", "DropLease",
                        "StopSignals", "CloseResize", "AwaitResize", "RestoreConsole",
                        "DeleteTask", "DeleteContainer", "RemoveSnapshot", "DeleteMetadata",
                        "DeleteEndpoint", "DeleteLease", "CloseClient"} = {}
         /\ Later \cap {"Wait", "CreateLease", "GetImage", "CreateContainer", "CreateTask",
                        "StartTask", "DropTask", "DropSnapshot", "DropLease", "RemoveSnapshot",
                        "DeleteMetadata"} = {}
<1>1. \A y \in Ahead : y \in Planned
  BY DEF OnPlanInv
<1>2. \A y \in Planned : y \notin {"Stop", "Poll", "Kill", "DropTask", "DropSnapshot", "DropLease",
                        "StopSignals", "CloseResize", "AwaitResize", "RestoreConsole", "DeleteTask",
                        "DeleteContainer", "RemoveSnapshot", "DeleteMetadata", "DeleteEndpoint",
                        "DeleteLease", "CloseClient"}
  BY DEF Planned
<1>3. Later \subseteq {"CloseClient", "RestoreConsole", "StopSignals", "CloseResize",
                       "AwaitResize"} \cup CleanupSteps
  BY LaterIsLate
<1> HIDE DEF Ahead, Later
<1> QED BY <1>1, <1>2, <1>3 DEF CleanupSteps

\* Cleanup is deferred once Prepare has succeeded, the console once it is raw.
LEMMA WhatIsDeferred ==
  ASSUME OnPlanInv
  PROVE  /\ "GetImage" \notin Ahead => {"DeleteTask", "DeleteContainer", "DeleteEndpoint",
                                        "DeleteLease"} \subseteq Later
         /\ "EnableConsole" \notin Planned \cap Ahead /\ cfg.terminal => "RestoreConsole" \in Later
<1>1. "GetImage" \in Planned /\ (cfg.terminal => "EnableConsole" \in Planned)
  BY DEF Planned
<1> HIDE DEF Ahead, Later, Planned
<1>2. "GetImage" \notin Ahead => CleanupSteps \subseteq Later
  BY <1>1 DEF OnPlanInv, Passed
<1>3. "EnableConsole" \notin Planned \cap Ahead /\ cfg.terminal => "RestoreConsole" \in Later
  BY <1>1 DEF OnPlanInv, Passed
<1> QED BY <1>2, <1>3 DEF CleanupSteps

\* The elements of the roll-backs.
LEMMA RollbackElements ==
  /\ Elements(<<>>) = {} /\ Elements(<<"DropLease">>) = {"DropLease"}
  /\ Elements(<<"DropSnapshot">>) = {"DropSnapshot"} /\ Elements(<<"DropTask">>) = {"DropTask"}
  /\ Elements(<<"Stop">>) = {"Stop"}
BY EmptyAscends, SingleAscends DEF Steps

------------------------------------------------------------------------------
(* Every step of main preserves the invariant: run and Prepare.            *)

\* Connecting: nothing has been made yet.
LEMMA ConnectPreserves ==
  ASSUME RunnerInv, Connect
  PROVE  RunnerInv'
<1>1. /\ TypeOK /\ ControlInv /\ CreatedInv /\ WillBeGivenBack /\ NeededOnesRemain
      /\ ResizerInv /\ CodeInv
  BY DEF RunnerInv
<1>2. /\ cfg' = cfg /\ killed' = killed /\ notified' = notified /\ interrupts' = interrupts
      /\ proxy' = proxy /\ raised' = raised /\ expired' = expired /\ exists' = exists
      /\ task' = task /\ taskCode' = taskCode /\ held' = held /\ status' = status
      /\ exitCode' = exitCode /\ console' = console /\ resizer' = resizer
      /\ resizeDone' = resizeDone /\ mishaps' = mishaps
  BY DEF Connect, Quietly, signalVars, worldVars, collectVars, resizeVars
<1>3. CASE ProceedDeferring("Connect", <<"CloseClient">>)
  <2>1. /\ code' = code /\ failed' = failed
    BY <1>3 DEF ProceedDeferring
  <2>2. /\ OnPlan /\ OnPlan' /\ OnPlanInv /\ ControlInv' /\ ~failed /\ ~failed'
        /\ Ahead = {"Connect"} \cup Ahead' /\ "Connect" \notin Ahead'
        /\ Later' = {"CloseClient"} \cup Later
        /\ \A y \in Planned : y \in Ahead <=> Rank[y] >= Rank["Connect"]
    BY <1>1, <1>2, <1>3, PlanDefers, SingleAscends DEF Steps
  <2>3. /\ "CreateLease" \in Ahead /\ "CreateContainer" \in Ahead /\ "CreateTask" \in Ahead
        /\ "StartTask" \in Ahead
    BY <2>2, PlanSplits, WhatIsDeferred
  <2>4. TypeOK'
    BY <1>1, <1>2, <2>1, <2>2 DEF TypeOK, ControlInv, Ascending, Things
  <2>5. CreatedInv'
    BY <1>1, <1>2, <2>1, <2>2, <2>3, PlanIsOnlyPlan DEF CreatedInv
  <2>6. WillBeGivenBack'
    BY <1>1, <1>2, <2>1, <2>2, <2>3, PlanIsOnlyPlan
       DEF WillBeGivenBack, LeaseGoes, EndpointGoes, ContainerGoes, SnapshotGoes, TaskGoes,
           ConsoleGoes, CreatedInv, Agenda
  <2>7. NeededOnesRemain'
    BY <1>1, <1>2, <2>1, <2>2, <2>3, PlanIsOnlyPlan
       DEF NeededOnesRemain, TaskKeepsItsSnapshot, LeaseOutlivesSnapshot, WillBeGivenBack,
           TaskGoes, ContainerGoes, SnapshotGoes, Agenda, CreatedInv
  <2>8. ResizerInv'
    BY <1>1, <1>2, <2>1, <2>2, <2>3, PlanIsOnlyPlan DEF ResizerInv, Agenda
  <2>9. CodeInv'
    BY <1>1, <1>2, <2>1, <2>2, <2>3, PlanIsOnlyPlan DEF CodeInv, CreatedInv
  <2> QED BY <2>2, <2>4, <2>5, <2>6, <2>7, <2>8, <2>9 DEF RunnerInv
<1>4. CASE Fail("Connect", <<>>)
  <2>1. /\ code' = code /\ failed' = TRUE
    BY <1>4 DEF Fail
  <2>2. /\ OnPlan /\ ~OnPlan' /\ OnPlanInv /\ ControlInv' /\ failed' /\ ~failed
        /\ Ahead' = Later /\ Later' = {}
        /\ \A y \in Planned : y \in Ahead <=> Rank[y] >= Rank["Connect"]
    <3>1. "Connect" \in Steps /\ Rank["Connect"] <= 12
      BY RanksAre DEF Steps
    <3>2. /\ OnPlan /\ ~OnPlan' /\ OnPlanInv /\ ControlInv' /\ failed'
          /\ Ahead' = Elements(<<>>) \cup Later /\ Later' = {}
          /\ \A y \in Planned : y \in Ahead <=> Rank[y] >= Rank["Connect"]
      BY <1>1, <1>4, <3>1, PlanFails
    <3> QED BY <3>2, RollbackElements DEF OnPlanInv
  <2>3. /\ "CreateLease" \in Ahead /\ "CreateContainer" \in Ahead /\ "CreateTask" \in Ahead
        /\ "StartTask" \in Ahead
    BY <2>2, PlanSplits, WhatIsDeferred
  <2>4. TypeOK'
    BY <1>1, <1>2, <2>1, <2>2 DEF TypeOK, ControlInv, Ascending, Things
  <2>5. CreatedInv'
    BY <1>1, <1>2, <2>1, <2>2, <2>3, PlanIsOnlyPlan DEF CreatedInv
  <2>6. WillBeGivenBack'
    BY <1>1, <1>2, <2>1, <2>2, <2>3, PlanIsOnlyPlan
       DEF WillBeGivenBack, LeaseGoes, EndpointGoes, ContainerGoes, SnapshotGoes, TaskGoes,
           ConsoleGoes, CreatedInv, Agenda
  <2>7. NeededOnesRemain'
    BY <1>1, <1>2, <2>1, <2>2, <2>3, PlanIsOnlyPlan
       DEF NeededOnesRemain, TaskKeepsItsSnapshot, LeaseOutlivesSnapshot, WillBeGivenBack,
           TaskGoes, ContainerGoes, SnapshotGoes, Agenda, CreatedInv
  <2>8. ResizerInv'
    BY <1>1, <1>2, <2>1, <2>2, <2>3, PlanIsOnlyPlan DEF ResizerInv, Agenda
  <2>9. CodeInv'
    BY <1>1, <1>2, <2>1, <2>2, <2>3, PlanIsOnlyPlan DEF CodeInv, CreatedInv
  <2> QED BY <2>2, <2>4, <2>5, <2>6, <2>7, <2>8, <2>9 DEF RunnerInv
<1> QED BY <1>3, <1>4 DEF Connect

\* Neither has it when a snapshotter is chosen.
LEMMA DetectSnapshotterPreserves ==
  ASSUME RunnerInv, DetectSnapshotter
  PROVE  RunnerInv'
<1>1. /\ TypeOK /\ ControlInv /\ CreatedInv /\ WillBeGivenBack /\ NeededOnesRemain
      /\ ResizerInv /\ CodeInv
  BY DEF RunnerInv
<1>2. /\ cfg' = cfg /\ killed' = killed /\ notified' = notified /\ interrupts' = interrupts
      /\ proxy' = proxy /\ raised' = raised /\ expired' = expired /\ exists' = exists
      /\ task' = task /\ taskCode' = taskCode /\ held' = held /\ status' = status
      /\ exitCode' = exitCode /\ console' = console /\ resizer' = resizer
      /\ resizeDone' = resizeDone /\ mishaps' = mishaps
  BY DEF DetectSnapshotter, Quietly, signalVars, worldVars, collectVars, resizeVars
<1>3. CASE Proceed("DetectSnapshotter")
  <2>1. /\ code' = code /\ failed' = failed
    BY <1>3 DEF Proceed
  <2>2. /\ OnPlan /\ OnPlan' /\ OnPlanInv /\ ControlInv' /\ ~failed /\ ~failed'
        /\ Ahead = {"DetectSnapshotter"} \cup Ahead' /\ "DetectSnapshotter" \notin Ahead'
        /\ Later' = Later
        /\ \A y \in Planned : y \in Ahead <=> Rank[y] >= Rank["DetectSnapshotter"]
    BY <1>1, <1>2, <1>3, PlanGoesOn
  <2>3. /\ "CreateLease" \in Ahead /\ "CreateContainer" \in Ahead /\ "CreateTask" \in Ahead
        /\ "StartTask" \in Ahead
    BY <2>2, PlanSplits, WhatIsDeferred
  <2>4. TypeOK'
    BY <1>1, <1>2, <2>1, <2>2 DEF TypeOK, ControlInv, Ascending, Things
  <2>5. CreatedInv'
    BY <1>1, <1>2, <2>1, <2>2, <2>3, PlanIsOnlyPlan DEF CreatedInv
  <2>6. WillBeGivenBack'
    BY <1>1, <1>2, <2>1, <2>2, <2>3, PlanIsOnlyPlan
       DEF WillBeGivenBack, LeaseGoes, EndpointGoes, ContainerGoes, SnapshotGoes, TaskGoes,
           ConsoleGoes, CreatedInv, Agenda
  <2>7. NeededOnesRemain'
    BY <1>1, <1>2, <2>1, <2>2, <2>3, PlanIsOnlyPlan
       DEF NeededOnesRemain, TaskKeepsItsSnapshot, LeaseOutlivesSnapshot, WillBeGivenBack,
           TaskGoes, ContainerGoes, SnapshotGoes, Agenda, CreatedInv
  <2>8. ResizerInv'
    BY <1>1, <1>2, <2>1, <2>2, <2>3, PlanIsOnlyPlan DEF ResizerInv, Agenda
  <2>9. CodeInv'
    BY <1>1, <1>2, <2>1, <2>2, <2>3, PlanIsOnlyPlan DEF CodeInv, CreatedInv
  <2> QED BY <2>2, <2>4, <2>5, <2>6, <2>7, <2>8, <2>9 DEF RunnerInv
<1>4. CASE Fail("DetectSnapshotter", <<>>)
  <2>1. /\ code' = code /\ failed' = TRUE
    BY <1>4 DEF Fail
  <2>2. /\ OnPlan /\ ~OnPlan' /\ OnPlanInv /\ ControlInv' /\ failed' /\ ~failed
        /\ Ahead' = Later /\ Later' = {}
        /\ \A y \in Planned : y \in Ahead <=> Rank[y] >= Rank["DetectSnapshotter"]
    <3>1. "DetectSnapshotter" \in Steps /\ Rank["DetectSnapshotter"] <= 12
      BY RanksAre DEF Steps
    <3>2. /\ OnPlan /\ ~OnPlan' /\ OnPlanInv /\ ControlInv' /\ failed'
          /\ Ahead' = Elements(<<>>) \cup Later /\ Later' = {}
          /\ \A y \in Planned : y \in Ahead <=> Rank[y] >= Rank["DetectSnapshotter"]
      BY <1>1, <1>4, <3>1, PlanFails
    <3> QED BY <3>2, RollbackElements DEF OnPlanInv
  <2>3. /\ "CreateLease" \in Ahead /\ "CreateContainer" \in Ahead /\ "CreateTask" \in Ahead
        /\ "StartTask" \in Ahead
    BY <2>2, PlanSplits, WhatIsDeferred
  <2>4. TypeOK'
    BY <1>1, <1>2, <2>1, <2>2 DEF TypeOK, ControlInv, Ascending, Things
  <2>5. CreatedInv'
    BY <1>1, <1>2, <2>1, <2>2, <2>3, PlanIsOnlyPlan DEF CreatedInv
  <2>6. WillBeGivenBack'
    BY <1>1, <1>2, <2>1, <2>2, <2>3, PlanIsOnlyPlan
       DEF WillBeGivenBack, LeaseGoes, EndpointGoes, ContainerGoes, SnapshotGoes, TaskGoes,
           ConsoleGoes, CreatedInv, Agenda
  <2>7. NeededOnesRemain'
    BY <1>1, <1>2, <2>1, <2>2, <2>3, PlanIsOnlyPlan
       DEF NeededOnesRemain, TaskKeepsItsSnapshot, LeaseOutlivesSnapshot, WillBeGivenBack,
           TaskGoes, ContainerGoes, SnapshotGoes, Agenda, CreatedInv
  <2>8. ResizerInv'
    BY <1>1, <1>2, <2>1, <2>2, <2>3, PlanIsOnlyPlan DEF ResizerInv, Agenda
  <2>9. CodeInv'
    BY <1>1, <1>2, <2>1, <2>2, <2>3, PlanIsOnlyPlan DEF CodeInv, CreatedInv
  <2> QED BY <2>2, <2>4, <2>5, <2>6, <2>7, <2>8, <2>9 DEF RunnerInv
<1> QED BY <1>3, <1>4 DEF DetectSnapshotter

\* The lease is first; its reply may be lost.
LEMMA CreateLeasePreserves ==
  ASSUME RunnerInv, CreateLease
  PROVE  RunnerInv'
<1>1. /\ TypeOK /\ ControlInv /\ CreatedInv /\ WillBeGivenBack /\ NeededOnesRemain
      /\ ResizerInv /\ CodeInv
  BY DEF RunnerInv
<1>2. /\ cfg' = cfg /\ killed' = killed /\ notified' = notified /\ interrupts' = interrupts
      /\ proxy' = proxy /\ raised' = raised /\ expired' = expired /\ task' = task
      /\ taskCode' = taskCode /\ held' = held /\ status' = status /\ exitCode' = exitCode
      /\ console' = console /\ resizer' = resizer /\ resizeDone' = resizeDone
  BY DEF CreateLease, Quietly, signalVars, worldVars, collectVars, resizeVars
<1>3. CASE Proceed("CreateLease") /\ exists' = exists \cup {"lease"} /\ UNCHANGED mishaps
  <2>1. /\ code' = code /\ failed' = failed /\ exists' = exists \cup {"lease"}
        /\ mishaps' = mishaps
    BY <1>3 DEF Proceed
  <2>2. /\ OnPlan /\ OnPlan' /\ OnPlanInv /\ ControlInv' /\ ~failed /\ ~failed'
        /\ Ahead = {"CreateLease"} \cup Ahead' /\ "CreateLease" \notin Ahead' /\ Later' = Later
        /\ \A y \in Planned : y \in Ahead <=> Rank[y] >= Rank["CreateLease"]
    BY <1>1, <1>2, <1>3, PlanGoesOn
  <2>3. /\ "CreateLease" \in Ahead /\ "GetImage" \in Ahead /\ "CreateContainer" \in Ahead
        /\ "CreateTask" \in Ahead /\ "StartTask" \in Ahead
    BY <2>2, PlanSplits, WhatIsDeferred
  <2>4. TypeOK'
    BY <1>1, <1>2, <2>1, <2>2 DEF TypeOK, ControlInv, Ascending, Things
  <2>5. CreatedInv'
    BY <1>1, <1>2, <2>1, <2>2, <2>3, PlanIsOnlyPlan DEF CreatedInv
  <2>6. WillBeGivenBack'
    BY <1>1, <1>2, <2>1, <2>2, <2>3, PlanIsOnlyPlan
       DEF WillBeGivenBack, LeaseGoes, EndpointGoes, ContainerGoes, SnapshotGoes, TaskGoes,
           ConsoleGoes, CreatedInv, Agenda
  <2>7. NeededOnesRemain'
    BY <1>1, <1>2, <2>1, <2>2, <2>3, PlanIsOnlyPlan
       DEF NeededOnesRemain, TaskKeepsItsSnapshot, LeaseOutlivesSnapshot, WillBeGivenBack,
           TaskGoes, ContainerGoes, SnapshotGoes, Agenda, CreatedInv
  <2>8. ResizerInv'
    BY <1>1, <1>2, <2>1, <2>2, <2>3, PlanIsOnlyPlan DEF ResizerInv, Agenda
  <2>9. CodeInv'
    BY <1>1, <1>2, <2>1, <2>2, <2>3, PlanIsOnlyPlan DEF CodeInv, CreatedInv
  <2> QED BY <2>2, <2>4, <2>5, <2>6, <2>7, <2>8, <2>9 DEF RunnerInv
<1>4. CASE Fail("CreateLease", <<>>) /\ UNCHANGED <<exists, mishaps>>
  <2>1. /\ code' = code /\ failed' = TRUE /\ exists' = exists /\ mishaps' = mishaps
    BY <1>4 DEF Fail
  <2>2. /\ OnPlan /\ ~OnPlan' /\ OnPlanInv /\ ControlInv' /\ failed' /\ ~failed
        /\ Ahead' = Later /\ Later' = {}
        /\ \A y \in Planned : y \in Ahead <=> Rank[y] >= Rank["CreateLease"]
    <3>1. "CreateLease" \in Steps /\ Rank["CreateLease"] <= 12
      BY RanksAre DEF Steps
    <3>2. /\ OnPlan /\ ~OnPlan' /\ OnPlanInv /\ ControlInv' /\ failed'
          /\ Ahead' = Elements(<<>>) \cup Later /\ Later' = {}
          /\ \A y \in Planned : y \in Ahead <=> Rank[y] >= Rank["CreateLease"]
      BY <1>1, <1>4, <3>1, PlanFails
    <3> QED BY <3>2, RollbackElements DEF OnPlanInv
  <2>3. /\ "CreateLease" \in Ahead /\ "GetImage" \in Ahead /\ "CreateContainer" \in Ahead
        /\ "CreateTask" \in Ahead /\ "StartTask" \in Ahead
    BY <2>2, PlanSplits, WhatIsDeferred
  <2>4. TypeOK'
    BY <1>1, <1>2, <2>1, <2>2 DEF TypeOK, ControlInv, Ascending, Things
  <2>5. CreatedInv'
    BY <1>1, <1>2, <2>1, <2>2, <2>3, PlanIsOnlyPlan DEF CreatedInv
  <2>6. WillBeGivenBack'
    BY <1>1, <1>2, <2>1, <2>2, <2>3, PlanIsOnlyPlan
       DEF WillBeGivenBack, LeaseGoes, EndpointGoes, ContainerGoes, SnapshotGoes, TaskGoes,
           ConsoleGoes, CreatedInv, Agenda
  <2>7. NeededOnesRemain'
    BY <1>1, <1>2, <2>1, <2>2, <2>3, PlanIsOnlyPlan
       DEF NeededOnesRemain, TaskKeepsItsSnapshot, LeaseOutlivesSnapshot, WillBeGivenBack,
           TaskGoes, ContainerGoes, SnapshotGoes, Agenda, CreatedInv
  <2>8. ResizerInv'
    BY <1>1, <1>2, <2>1, <2>2, <2>3, PlanIsOnlyPlan DEF ResizerInv, Agenda
  <2>9. CodeInv'
    BY <1>1, <1>2, <2>1, <2>2, <2>3, PlanIsOnlyPlan DEF CodeInv, CreatedInv
  <2> QED BY <2>2, <2>4, <2>5, <2>6, <2>7, <2>8, <2>9 DEF RunnerInv
<1>5. CASE Fail("CreateLease", <<>>) /\ exists' = exists \cup {"lease"} /\ ReplyLost
  <2>1. /\ code' = code /\ failed' = TRUE /\ exists' = exists \cup {"lease"}
        /\ mishaps' = mishaps \cup {"reply"} /\ mishaps' # {}
    BY <1>5 DEF Fail, ReplyLost
  <2>2. /\ OnPlan /\ ~OnPlan' /\ OnPlanInv /\ ControlInv' /\ failed' /\ ~failed
        /\ Ahead' = Later /\ Later' = {}
        /\ \A y \in Planned : y \in Ahead <=> Rank[y] >= Rank["CreateLease"]
    <3>1. "CreateLease" \in Steps /\ Rank["CreateLease"] <= 12
      BY RanksAre DEF Steps
    <3>2. /\ OnPlan /\ ~OnPlan' /\ OnPlanInv /\ ControlInv' /\ failed'
          /\ Ahead' = Elements(<<>>) \cup Later /\ Later' = {}
          /\ \A y \in Planned : y \in Ahead <=> Rank[y] >= Rank["CreateLease"]
      BY <1>1, <1>5, <3>1, PlanFails
    <3> QED BY <3>2, RollbackElements DEF OnPlanInv
  <2>3. /\ "CreateLease" \in Ahead /\ "GetImage" \in Ahead /\ "CreateContainer" \in Ahead
        /\ "CreateTask" \in Ahead /\ "StartTask" \in Ahead
    BY <2>2, PlanSplits, WhatIsDeferred
  <2>4. TypeOK'
    BY <1>1, <1>2, <2>1, <2>2 DEF TypeOK, ControlInv, Ascending, Things
  <2>5. CreatedInv'
    BY <1>1, <1>2, <2>1, <2>2, <2>3, PlanIsOnlyPlan DEF CreatedInv
  <2>6. WillBeGivenBack'
    BY <1>1, <1>2, <2>1, <2>2, <2>3, PlanIsOnlyPlan
       DEF WillBeGivenBack, LeaseGoes, EndpointGoes, ContainerGoes, SnapshotGoes, TaskGoes,
           ConsoleGoes, CreatedInv, Agenda
  <2>7. NeededOnesRemain'
    BY <1>1, <1>2, <2>1, <2>2, <2>3, PlanIsOnlyPlan
       DEF NeededOnesRemain, TaskKeepsItsSnapshot, LeaseOutlivesSnapshot, WillBeGivenBack,
           TaskGoes, ContainerGoes, SnapshotGoes, Agenda, CreatedInv
  <2>8. ResizerInv'
    BY <1>1, <1>2, <2>1, <2>2, <2>3, PlanIsOnlyPlan DEF ResizerInv, Agenda
  <2>9. CodeInv'
    BY <1>1, <1>2, <2>1, <2>2, <2>3, PlanIsOnlyPlan DEF CodeInv, CreatedInv
  <2> QED BY <2>2, <2>4, <2>5, <2>6, <2>7, <2>8, <2>9 DEF RunnerInv
<1> QED BY <1>3, <1>4, <1>5 DEF CreateLease

\* With the image Prepare is done: from here on Cleanup deletes the lease.
LEMMA GetImagePreserves ==
  ASSUME RunnerInv, GetImage
  PROVE  RunnerInv'
<1>1. /\ TypeOK /\ ControlInv /\ CreatedInv /\ WillBeGivenBack /\ NeededOnesRemain
      /\ ResizerInv /\ CodeInv
  BY DEF RunnerInv
<1>2. /\ cfg' = cfg /\ killed' = killed /\ notified' = notified /\ interrupts' = interrupts
      /\ proxy' = proxy /\ raised' = raised /\ expired' = expired /\ exists' = exists
      /\ task' = task /\ taskCode' = taskCode /\ status' = status /\ exitCode' = exitCode
      /\ console' = console /\ resizer' = resizer /\ resizeDone' = resizeDone
      /\ mishaps' = mishaps
  BY DEF GetImage, Quietly, signalVars, worldVars, collectVars, resizeVars
<1>3. CASE Prepared
  <2>1. /\ code' = code /\ failed' = failed /\ held' = held \cup {"lease"}
    BY <1>3 DEF Prepared, ProceedDeferring
  <2>2. /\ OnPlan /\ OnPlan' /\ OnPlanInv /\ ControlInv' /\ ~failed /\ ~failed'
        /\ Ahead = {"GetImage"} \cup Ahead' /\ "GetImage" \notin Ahead'
        /\ Later' = CleanupSteps \cup Later
        /\ \A y \in Planned : y \in Ahead <=> Rank[y] >= Rank["GetImage"]
    BY <1>1, <1>2, <1>3, PlanDefers, LiteralsAscend DEF Prepared
  <2>3. /\ "CreateLease" \notin Ahead /\ "GetImage" \in Ahead /\ "CreateContainer" \in Ahead
        /\ "CreateTask" \in Ahead /\ "StartTask" \in Ahead
    BY <2>2, PlanSplits, WhatIsDeferred
  <2>4. TypeOK'
    BY <1>1, <1>2, <2>1, <2>2 DEF TypeOK, ControlInv, Ascending, Things
  <2>5. CreatedInv'
    BY <1>1, <1>2, <2>1, <2>2, <2>3, PlanIsOnlyPlan DEF CreatedInv
  <2>6. WillBeGivenBack'
    BY <1>1, <1>2, <2>1, <2>2, <2>3, PlanIsOnlyPlan
       DEF WillBeGivenBack, LeaseGoes, EndpointGoes, ContainerGoes, SnapshotGoes, TaskGoes,
           ConsoleGoes, CreatedInv, Agenda, CleanupSteps
  <2>7. NeededOnesRemain'
    BY <1>1, <1>2, <2>1, <2>2, <2>3, PlanIsOnlyPlan
       DEF NeededOnesRemain, TaskKeepsItsSnapshot, LeaseOutlivesSnapshot, WillBeGivenBack,
           TaskGoes, ContainerGoes, SnapshotGoes, Agenda, CreatedInv
  <2>8. ResizerInv'
    BY <1>1, <1>2, <2>1, <2>2, <2>3, PlanIsOnlyPlan DEF ResizerInv, Agenda
  <2>9. CodeInv'
    BY <1>1, <1>2, <2>1, <2>2, <2>3, PlanIsOnlyPlan DEF CodeInv, CreatedInv
  <2> QED BY <2>2, <2>4, <2>5, <2>6, <2>7, <2>8, <2>9 DEF RunnerInv
<1>4. CASE Fail("GetImage", <<"DropLease">>) /\ UNCHANGED held
  <2>1. /\ code' = code /\ failed' = TRUE /\ held' = held
    BY <1>4 DEF Fail
  <2>2. /\ OnPlan /\ ~OnPlan' /\ OnPlanInv /\ ControlInv' /\ failed' /\ ~failed
        /\ Ahead' = {"DropLease"} \cup Later /\ Later' = {}
        /\ \A y \in Planned : y \in Ahead <=> Rank[y] >= Rank["GetImage"]
    <3>1. "GetImage" \in Steps /\ Rank["GetImage"] <= 12
      BY RanksAre DEF Steps
    <3>2. /\ OnPlan /\ ~OnPlan' /\ OnPlanInv /\ ControlInv' /\ failed'
          /\ Ahead' = Elements(<<"DropLease">>) \cup Later /\ Later' = {}
          /\ \A y \in Planned : y \in Ahead <=> Rank[y] >= Rank["GetImage"]
      BY <1>1, <1>4, <3>1, PlanFails
    <3> QED BY <3>2, RollbackElements DEF OnPlanInv
  <2>3. /\ "CreateLease" \notin Ahead /\ "GetImage" \in Ahead /\ "CreateContainer" \in Ahead
        /\ "CreateTask" \in Ahead /\ "StartTask" \in Ahead
    BY <2>2, PlanSplits, WhatIsDeferred
  <2>4. TypeOK'
    BY <1>1, <1>2, <2>1, <2>2 DEF TypeOK, ControlInv, Ascending, Things
  <2>5. CreatedInv'
    BY <1>1, <1>2, <2>1, <2>2, <2>3, PlanIsOnlyPlan DEF CreatedInv
  <2>6. WillBeGivenBack'
    BY <1>1, <1>2, <2>1, <2>2, <2>3, PlanIsOnlyPlan
       DEF WillBeGivenBack, LeaseGoes, EndpointGoes, ContainerGoes, SnapshotGoes, TaskGoes,
           ConsoleGoes, CreatedInv, Agenda
  <2>7. NeededOnesRemain'
    BY <1>1, <1>2, <2>1, <2>2, <2>3, PlanIsOnlyPlan
       DEF NeededOnesRemain, TaskKeepsItsSnapshot, LeaseOutlivesSnapshot, WillBeGivenBack,
           TaskGoes, ContainerGoes, SnapshotGoes, Agenda, CreatedInv
  <2>8. ResizerInv'
    BY <1>1, <1>2, <2>1, <2>2, <2>3, PlanIsOnlyPlan DEF ResizerInv, Agenda
  <2>9. CodeInv'
    BY <1>1, <1>2, <2>1, <2>2, <2>3, PlanIsOnlyPlan DEF CodeInv, CreatedInv
  <2> QED BY <2>2, <2>4, <2>5, <2>6, <2>7, <2>8, <2>9 DEF RunnerInv
<1> QED BY <1>3, <1>4 DEF GetImage

\* The console is raw, and will be restored.
LEMMA EnableConsolePreserves ==
  ASSUME RunnerInv, EnableConsole
  PROVE  RunnerInv'
<1>1. /\ TypeOK /\ ControlInv /\ CreatedInv /\ WillBeGivenBack /\ NeededOnesRemain
      /\ ResizerInv /\ CodeInv
  BY DEF RunnerInv
<1>2. /\ cfg' = cfg /\ killed' = killed /\ notified' = notified /\ interrupts' = interrupts
      /\ proxy' = proxy /\ raised' = raised /\ expired' = expired /\ exists' = exists
      /\ task' = task /\ taskCode' = taskCode /\ held' = held /\ status' = status
      /\ exitCode' = exitCode /\ resizer' = resizer /\ resizeDone' = resizeDone
  BY DEF EnableConsole, Quietly, signalVars, worldVars, collectVars, resizeVars
<1>3. CASE /\ ProceedDeferring("EnableConsole", <<"RestoreConsole">>)
          /\ console' = "raw" /\ UNCHANGED mishaps
  <2>1. /\ code' = code /\ failed' = failed /\ console' = "raw" /\ mishaps' = mishaps
    BY <1>3 DEF ProceedDeferring
  <2>2. /\ OnPlan /\ OnPlan' /\ OnPlanInv /\ ControlInv' /\ ~failed /\ ~failed'
        /\ Ahead = {"EnableConsole"} \cup Ahead' /\ "EnableConsole" \notin Ahead'
        /\ Later' = {"RestoreConsole"} \cup Later
        /\ \A y \in Planned : y \in Ahead <=> Rank[y] >= Rank["EnableConsole"]
    BY <1>1, <1>2, <1>3, PlanDefers, SingleAscends DEF Steps
  <2>3. /\ "CreateLease" \notin Ahead /\ "GetImage" \notin Ahead /\ "CreateContainer" \in Ahead
        /\ "CreateTask" \in Ahead /\ "StartTask" \in Ahead
        /\ {"DeleteTask", "DeleteContainer", "DeleteEndpoint", "DeleteLease"} \subseteq Later
    BY <2>2, PlanSplits, WhatIsDeferred
  <2>4. TypeOK'
    BY <1>1, <1>2, <2>1, <2>2 DEF TypeOK, ControlInv, Ascending, Things
  <2>5. CreatedInv'
    BY <1>1, <1>2, <2>1, <2>2, <2>3, PlanIsOnlyPlan DEF CreatedInv
  <2>6. WillBeGivenBack'
    BY <1>1, <1>2, <2>1, <2>2, <2>3, PlanIsOnlyPlan
       DEF WillBeGivenBack, LeaseGoes, EndpointGoes, ContainerGoes, SnapshotGoes, TaskGoes,
           ConsoleGoes, CreatedInv, Agenda
  <2>7. NeededOnesRemain'
    BY <1>1, <1>2, <2>1, <2>2, <2>3, PlanIsOnlyPlan
       DEF NeededOnesRemain, TaskKeepsItsSnapshot, LeaseOutlivesSnapshot, WillBeGivenBack,
           TaskGoes, ContainerGoes, SnapshotGoes, Agenda, CreatedInv
  <2>8. ResizerInv'
    BY <1>1, <1>2, <2>1, <2>2, <2>3, PlanIsOnlyPlan DEF ResizerInv, Agenda
  <2>9. CodeInv'
    BY <1>1, <1>2, <2>1, <2>2, <2>3, PlanIsOnlyPlan DEF CodeInv, CreatedInv
  <2> QED BY <2>2, <2>4, <2>5, <2>6, <2>7, <2>8, <2>9 DEF RunnerInv
<1>4. CASE Fail("EnableConsole", <<>>) /\ UNCHANGED <<console, mishaps>>
  <2>1. /\ code' = code /\ failed' = TRUE /\ console' = console /\ mishaps' = mishaps
    BY <1>4 DEF Fail
  <2>2. /\ OnPlan /\ ~OnPlan' /\ OnPlanInv /\ ControlInv' /\ failed' /\ ~failed
        /\ Ahead' = Later /\ Later' = {}
        /\ \A y \in Planned : y \in Ahead <=> Rank[y] >= Rank["EnableConsole"]
    <3>1. "EnableConsole" \in Steps /\ Rank["EnableConsole"] <= 12
      BY RanksAre DEF Steps
    <3>2. /\ OnPlan /\ ~OnPlan' /\ OnPlanInv /\ ControlInv' /\ failed'
          /\ Ahead' = Elements(<<>>) \cup Later /\ Later' = {}
          /\ \A y \in Planned : y \in Ahead <=> Rank[y] >= Rank["EnableConsole"]
      BY <1>1, <1>4, <3>1, PlanFails
    <3> QED BY <3>2, RollbackElements DEF OnPlanInv
  <2>3. /\ "CreateLease" \notin Ahead /\ "GetImage" \notin Ahead /\ "CreateContainer" \in Ahead
        /\ "CreateTask" \in Ahead /\ "StartTask" \in Ahead
        /\ {"DeleteTask", "DeleteContainer", "DeleteEndpoint", "DeleteLease"} \subseteq Later
    BY <2>2, PlanSplits, WhatIsDeferred
  <2>4. TypeOK'
    BY <1>1, <1>2, <2>1, <2>2 DEF TypeOK, ControlInv, Ascending, Things
  <2>5. CreatedInv'
    BY <1>1, <1>2, <2>1, <2>2, <2>3, PlanIsOnlyPlan DEF CreatedInv
  <2>6. WillBeGivenBack'
    BY <1>1, <1>2, <2>1, <2>2, <2>3, PlanIsOnlyPlan
       DEF WillBeGivenBack, LeaseGoes, EndpointGoes, ContainerGoes, SnapshotGoes, TaskGoes,
           ConsoleGoes, CreatedInv, Agenda
  <2>7. NeededOnesRemain'
    BY <1>1, <1>2, <2>1, <2>2, <2>3, PlanIsOnlyPlan
       DEF NeededOnesRemain, TaskKeepsItsSnapshot, LeaseOutlivesSnapshot, WillBeGivenBack,
           TaskGoes, ContainerGoes, SnapshotGoes, Agenda, CreatedInv
  <2>8. ResizerInv'
    BY <1>1, <1>2, <2>1, <2>2, <2>3, PlanIsOnlyPlan DEF ResizerInv, Agenda
  <2>9. CodeInv'
    BY <1>1, <1>2, <2>1, <2>2, <2>3, PlanIsOnlyPlan DEF CodeInv, CreatedInv
  <2> QED BY <2>2, <2>4, <2>5, <2>6, <2>7, <2>8, <2>9 DEF RunnerInv
<1>5. CASE Fail("EnableConsole", <<>>) /\ console' = "raw" /\ UndoFailed("console")
  <2>1. /\ code' = code /\ failed' = TRUE /\ console' = "raw"
        /\ mishaps' = mishaps \cup {"console"} /\ mishaps' # {}
    BY <1>5 DEF Fail, UndoFailed
  <2>2. /\ OnPlan /\ ~OnPlan' /\ OnPlanInv /\ ControlInv' /\ failed' /\ ~failed
        /\ Ahead' = Later /\ Later' = {}
        /\ \A y \in Planned : y \in Ahead <=> Rank[y] >= Rank["EnableConsole"]
    <3>1. "EnableConsole" \in Steps /\ Rank["EnableConsole"] <= 12
      BY RanksAre DEF Steps
    <3>2. /\ OnPlan /\ ~OnPlan' /\ OnPlanInv /\ ControlInv' /\ failed'
          /\ Ahead' = Elements(<<>>) \cup Later /\ Later' = {}
          /\ \A y \in Planned : y \in Ahead <=> Rank[y] >= Rank["EnableConsole"]
      BY <1>1, <1>5, <3>1, PlanFails
    <3> QED BY <3>2, RollbackElements DEF OnPlanInv
  <2>3. /\ "CreateLease" \notin Ahead /\ "GetImage" \notin Ahead /\ "CreateContainer" \in Ahead
        /\ "CreateTask" \in Ahead /\ "StartTask" \in Ahead
        /\ {"DeleteTask", "DeleteContainer", "DeleteEndpoint", "DeleteLease"} \subseteq Later
    BY <2>2, PlanSplits, WhatIsDeferred
  <2>4. TypeOK'
    BY <1>1, <1>2, <2>1, <2>2 DEF TypeOK, ControlInv, Ascending, Things
  <2>5. CreatedInv'
    BY <1>1, <1>2, <2>1, <2>2, <2>3, PlanIsOnlyPlan DEF CreatedInv
  <2>6. WillBeGivenBack'
    BY <1>1, <1>2, <2>1, <2>2, <2>3, PlanIsOnlyPlan
       DEF WillBeGivenBack, LeaseGoes, EndpointGoes, ContainerGoes, SnapshotGoes, TaskGoes,
           ConsoleGoes, CreatedInv, Agenda
  <2>7. NeededOnesRemain'
    BY <1>1, <1>2, <2>1, <2>2, <2>3, PlanIsOnlyPlan
       DEF NeededOnesRemain, TaskKeepsItsSnapshot, LeaseOutlivesSnapshot, WillBeGivenBack,
           TaskGoes, ContainerGoes, SnapshotGoes, Agenda, CreatedInv
  <2>8. ResizerInv'
    BY <1>1, <1>2, <2>1, <2>2, <2>3, PlanIsOnlyPlan DEF ResizerInv, Agenda
  <2>9. CodeInv'
    BY <1>1, <1>2, <2>1, <2>2, <2>3, PlanIsOnlyPlan DEF CodeInv, CreatedInv
  <2> QED BY <2>2, <2>4, <2>5, <2>6, <2>7, <2>8, <2>9 DEF RunnerInv
<1> QED BY <1>3, <1>4, <1>5 DEF EnableConsole

------------------------------------------------------------------------------
(* Runner.Start.                                                           *)

\* The endpoint is held from the moment it is known.
LEMMA CreateEndpointPreserves ==
  ASSUME RunnerInv, CreateEndpoint
  PROVE  RunnerInv'
<1>1. /\ TypeOK /\ ControlInv /\ CreatedInv /\ WillBeGivenBack /\ NeededOnesRemain
      /\ ResizerInv /\ CodeInv
  BY DEF RunnerInv
<1>2. /\ cfg' = cfg /\ killed' = killed /\ notified' = notified /\ interrupts' = interrupts
      /\ proxy' = proxy /\ raised' = raised /\ expired' = expired /\ task' = task
      /\ taskCode' = taskCode /\ status' = status /\ exitCode' = exitCode /\ console' = console
      /\ resizer' = resizer /\ resizeDone' = resizeDone
  BY DEF CreateEndpoint, Quietly, signalVars, worldVars, collectVars, resizeVars
<1>3. CASE /\ Proceed("CreateEndpoint")
          /\ exists' = exists \cup {"endpoint"} /\ held' = held \cup {"endpoint"}
          /\ UNCHANGED mishaps
  <2>1. /\ code' = code /\ failed' = failed /\ exists' = exists \cup {"endpoint"}
        /\ held' = held \cup {"endpoint"} /\ mishaps' = mishaps
    BY <1>3 DEF Proceed
  <2>2. /\ OnPlan /\ OnPlan' /\ OnPlanInv /\ ControlInv' /\ ~failed /\ ~failed'
        /\ Ahead = {"CreateEndpoint"} \cup Ahead' /\ "CreateEndpoint" \notin Ahead'
        /\ Later' = Later
        /\ \A y \in Planned : y \in Ahead <=> Rank[y] >= Rank["CreateEndpoint"]
    BY <1>1, <1>2, <1>3, PlanGoesOn
  <2>3. /\ "CreateLease" \notin Ahead /\ "GetImage" \notin Ahead /\ "CreateContainer" \in Ahead
        /\ "CreateTask" \in Ahead /\ "StartTask" \in Ahead
        /\ {"DeleteTask", "DeleteContainer", "DeleteEndpoint", "DeleteLease"} \subseteq Later
    BY <2>2, PlanSplits, WhatIsDeferred
  <2>4. TypeOK'
    BY <1>1, <1>2, <2>1, <2>2 DEF TypeOK, ControlInv, Ascending, Things
  <2>5. CreatedInv'
    BY <1>1, <1>2, <2>1, <2>2, <2>3, PlanIsOnlyPlan DEF CreatedInv
  <2>6. WillBeGivenBack'
    BY <1>1, <1>2, <2>1, <2>2, <2>3, PlanIsOnlyPlan
       DEF WillBeGivenBack, LeaseGoes, EndpointGoes, ContainerGoes, SnapshotGoes, TaskGoes,
           ConsoleGoes, CreatedInv, Agenda
  <2>7. NeededOnesRemain'
    BY <1>1, <1>2, <2>1, <2>2, <2>3, PlanIsOnlyPlan
       DEF NeededOnesRemain, TaskKeepsItsSnapshot, LeaseOutlivesSnapshot, WillBeGivenBack,
           TaskGoes, ContainerGoes, SnapshotGoes, Agenda, CreatedInv
  <2>8. ResizerInv'
    BY <1>1, <1>2, <2>1, <2>2, <2>3, PlanIsOnlyPlan DEF ResizerInv, Agenda
  <2>9. CodeInv'
    BY <1>1, <1>2, <2>1, <2>2, <2>3, PlanIsOnlyPlan DEF CodeInv, CreatedInv
  <2> QED BY <2>2, <2>4, <2>5, <2>6, <2>7, <2>8, <2>9 DEF RunnerInv
<1>4. CASE Fail("CreateEndpoint", <<>>) /\ UNCHANGED <<exists, held, mishaps>>
  <2>1. /\ code' = code /\ failed' = TRUE /\ exists' = exists /\ held' = held
        /\ mishaps' = mishaps
    BY <1>4 DEF Fail
  <2>2. /\ OnPlan /\ ~OnPlan' /\ OnPlanInv /\ ControlInv' /\ failed' /\ ~failed
        /\ Ahead' = Later /\ Later' = {}
        /\ \A y \in Planned : y \in Ahead <=> Rank[y] >= Rank["CreateEndpoint"]
    <3>1. "CreateEndpoint" \in Steps /\ Rank["CreateEndpoint"] <= 12
      BY RanksAre DEF Steps
    <3>2. /\ OnPlan /\ ~OnPlan' /\ OnPlanInv /\ ControlInv' /\ failed'
          /\ Ahead' = Elements(<<>>) \cup Later /\ Later' = {}
          /\ \A y \in Planned : y \in Ahead <=> Rank[y] >= Rank["CreateEndpoint"]
      BY <1>1, <1>4, <3>1, PlanFails
    <3> QED BY <3>2, RollbackElements DEF OnPlanInv
  <2>3. /\ "CreateLease" \notin Ahead /\ "GetImage" \notin Ahead /\ "CreateContainer" \in Ahead
        /\ "CreateTask" \in Ahead /\ "StartTask" \in Ahead
        /\ {"DeleteTask", "DeleteContainer", "DeleteEndpoint", "DeleteLease"} \subseteq Later
    BY <2>2, PlanSplits, WhatIsDeferred
  <2>4. TypeOK'
    BY <1>1, <1>2, <2>1, <2>2 DEF TypeOK, ControlInv, Ascending, Things
  <2>5. CreatedInv'
    BY <1>1, <1>2, <2>1, <2>2, <2>3, PlanIsOnlyPlan DEF CreatedInv
  <2>6. WillBeGivenBack'
    BY <1>1, <1>2, <2>1, <2>2, <2>3, PlanIsOnlyPlan
       DEF WillBeGivenBack, LeaseGoes, EndpointGoes, ContainerGoes, SnapshotGoes, TaskGoes,
           ConsoleGoes, CreatedInv, Agenda
  <2>7. NeededOnesRemain'
    BY <1>1, <1>2, <2>1, <2>2, <2>3, PlanIsOnlyPlan
       DEF NeededOnesRemain, TaskKeepsItsSnapshot, LeaseOutlivesSnapshot, WillBeGivenBack,
           TaskGoes, ContainerGoes, SnapshotGoes, Agenda, CreatedInv
  <2>8. ResizerInv'
    BY <1>1, <1>2, <2>1, <2>2, <2>3, PlanIsOnlyPlan DEF ResizerInv, Agenda
  <2>9. CodeInv'
    BY <1>1, <1>2, <2>1, <2>2, <2>3, PlanIsOnlyPlan DEF CodeInv, CreatedInv
  <2> QED BY <2>2, <2>4, <2>5, <2>6, <2>7, <2>8, <2>9 DEF RunnerInv
<1>5. CASE /\ Fail("CreateEndpoint", <<>>) /\ exists' = exists \cup {"endpoint"}
          /\ ReplyLost /\ UNCHANGED held
  <2>1. /\ code' = code /\ failed' = TRUE /\ exists' = exists \cup {"endpoint"} /\ held' = held
        /\ mishaps' = mishaps \cup {"reply"} /\ mishaps' # {}
    BY <1>5 DEF Fail, ReplyLost
  <2>2. /\ OnPlan /\ ~OnPlan' /\ OnPlanInv /\ ControlInv' /\ failed' /\ ~failed
        /\ Ahead' = Later /\ Later' = {}
        /\ \A y \in Planned : y \in Ahead <=> Rank[y] >= Rank["CreateEndpoint"]
    <3>1. "CreateEndpoint" \in Steps /\ Rank["CreateEndpoint"] <= 12
      BY RanksAre DEF Steps
    <3>2. /\ OnPlan /\ ~OnPlan' /\ OnPlanInv /\ ControlInv' /\ failed'
          /\ Ahead' = Elements(<<>>) \cup Later /\ Later' = {}
          /\ \A y \in Planned : y \in Ahead <=> Rank[y] >= Rank["CreateEndpoint"]
      BY <1>1, <1>5, <3>1, PlanFails
    <3> QED BY <3>2, RollbackElements DEF OnPlanInv
  <2>3. /\ "CreateLease" \notin Ahead /\ "GetImage" \notin Ahead /\ "CreateContainer" \in Ahead
        /\ "CreateTask" \in Ahead /\ "StartTask" \in Ahead
        /\ {"DeleteTask", "DeleteContainer", "DeleteEndpoint", "DeleteLease"} \subseteq Later
    BY <2>2, PlanSplits, WhatIsDeferred
  <2>4. TypeOK'
    BY <1>1, <1>2, <2>1, <2>2 DEF TypeOK, ControlInv, Ascending, Things
  <2>5. CreatedInv'
    BY <1>1, <1>2, <2>1, <2>2, <2>3, PlanIsOnlyPlan DEF CreatedInv
  <2>6. WillBeGivenBack'
    BY <1>1, <1>2, <2>1, <2>2, <2>3, PlanIsOnlyPlan
       DEF WillBeGivenBack, LeaseGoes, EndpointGoes, ContainerGoes, SnapshotGoes, TaskGoes,
           ConsoleGoes, CreatedInv, Agenda
  <2>7. NeededOnesRemain'
    BY <1>1, <1>2, <2>1, <2>2, <2>3, PlanIsOnlyPlan
       DEF NeededOnesRemain, TaskKeepsItsSnapshot, LeaseOutlivesSnapshot, WillBeGivenBack,
           TaskGoes, ContainerGoes, SnapshotGoes, Agenda, CreatedInv
  <2>8. ResizerInv'
    BY <1>1, <1>2, <2>1, <2>2, <2>3, PlanIsOnlyPlan DEF ResizerInv, Agenda
  <2>9. CodeInv'
    BY <1>1, <1>2, <2>1, <2>2, <2>3, PlanIsOnlyPlan DEF CodeInv, CreatedInv
  <2> QED BY <2>2, <2>4, <2>5, <2>6, <2>7, <2>8, <2>9 DEF RunnerInv
<1> QED BY <1>3, <1>4, <1>5 DEF CreateEndpoint

\* The container and its snapshot, under the lease.
LEMMA CreateContainerPreserves ==
  ASSUME RunnerInv, CreateContainer
  PROVE  RunnerInv'
<1>1. /\ TypeOK /\ ControlInv /\ CreatedInv /\ WillBeGivenBack /\ NeededOnesRemain
      /\ ResizerInv /\ CodeInv
  BY DEF RunnerInv
<1>2. /\ cfg' = cfg /\ killed' = killed /\ notified' = notified /\ interrupts' = interrupts
      /\ proxy' = proxy /\ raised' = raised /\ expired' = expired /\ task' = task
      /\ taskCode' = taskCode /\ status' = status /\ exitCode' = exitCode /\ console' = console
      /\ resizer' = resizer /\ resizeDone' = resizeDone
  BY DEF CreateContainer, Quietly, signalVars, worldVars, collectVars, resizeVars
<1>3. CASE /\ Proceed("CreateContainer")
          /\ exists' = exists \cup {"snapshot", "container"}
          /\ held' = held \cup {"container"} /\ UNCHANGED mishaps
  <2>1. /\ code' = code /\ failed' = failed /\ exists' = exists \cup {"snapshot", "container"}
        /\ held' = held \cup {"container"} /\ mishaps' = mishaps
    BY <1>3 DEF Proceed
  <2>2. /\ OnPlan /\ OnPlan' /\ OnPlanInv /\ ControlInv' /\ ~failed /\ ~failed'
        /\ Ahead = {"CreateContainer"} \cup Ahead' /\ "CreateContainer" \notin Ahead'
        /\ Later' = Later
        /\ \A y \in Planned : y \in Ahead <=> Rank[y] >= Rank["CreateContainer"]
    BY <1>1, <1>2, <1>3, PlanGoesOn
  <2>3. /\ "CreateLease" \notin Ahead /\ "GetImage" \notin Ahead /\ "CreateContainer" \in Ahead
        /\ "CreateTask" \in Ahead /\ "StartTask" \in Ahead
        /\ {"DeleteTask", "DeleteContainer", "DeleteEndpoint", "DeleteLease"} \subseteq Later
    BY <2>2, PlanSplits, WhatIsDeferred
  <2>4. TypeOK'
    BY <1>1, <1>2, <2>1, <2>2 DEF TypeOK, ControlInv, Ascending, Things
  <2>5. CreatedInv'
    BY <1>1, <1>2, <2>1, <2>2, <2>3, PlanIsOnlyPlan DEF CreatedInv
  <2>6. WillBeGivenBack'
    BY <1>1, <1>2, <2>1, <2>2, <2>3, PlanIsOnlyPlan
       DEF WillBeGivenBack, LeaseGoes, EndpointGoes, ContainerGoes, SnapshotGoes, TaskGoes,
           ConsoleGoes, CreatedInv, Agenda
  <2>7. NeededOnesRemain'
    BY <1>1, <1>2, <2>1, <2>2, <2>3, PlanIsOnlyPlan
       DEF NeededOnesRemain, TaskKeepsItsSnapshot, LeaseOutlivesSnapshot, WillBeGivenBack,
           TaskGoes, ContainerGoes, SnapshotGoes, Agenda, CreatedInv
  <2>8. ResizerInv'
    BY <1>1, <1>2, <2>1, <2>2, <2>3, PlanIsOnlyPlan DEF ResizerInv, Agenda
  <2>9. CodeInv'
    BY <1>1, <1>2, <2>1, <2>2, <2>3, PlanIsOnlyPlan DEF CodeInv, CreatedInv
  <2> QED BY <2>2, <2>4, <2>5, <2>6, <2>7, <2>8, <2>9 DEF RunnerInv
<1>4. CASE /\ Fail("CreateContainer", <<"DropSnapshot">>)
          /\ exists' \in {exists, exists \cup {"snapshot"}} /\ UNCHANGED <<held, mishaps>>
  <2>1. /\ code' = code /\ failed' = TRUE /\ exists' \in {exists, exists \cup {"snapshot"}}
        /\ held' = held /\ mishaps' = mishaps
    BY <1>4 DEF Fail
  <2>2. /\ OnPlan /\ ~OnPlan' /\ OnPlanInv /\ ControlInv' /\ failed' /\ ~failed
        /\ Ahead' = {"DropSnapshot"} \cup Later /\ Later' = {}
        /\ \A y \in Planned : y \in Ahead <=> Rank[y] >= Rank["CreateContainer"]
    <3>1. "CreateContainer" \in Steps /\ Rank["CreateContainer"] <= 12
      BY RanksAre DEF Steps
    <3>2. /\ OnPlan /\ ~OnPlan' /\ OnPlanInv /\ ControlInv' /\ failed'
          /\ Ahead' = Elements(<<"DropSnapshot">>) \cup Later /\ Later' = {}
          /\ \A y \in Planned : y \in Ahead <=> Rank[y] >= Rank["CreateContainer"]
      BY <1>1, <1>4, <3>1, PlanFails
    <3> QED BY <3>2, RollbackElements DEF OnPlanInv
  <2>3. /\ "CreateLease" \notin Ahead /\ "GetImage" \notin Ahead /\ "CreateContainer" \in Ahead
        /\ "CreateTask" \in Ahead /\ "StartTask" \in Ahead
        /\ {"DeleteTask", "DeleteContainer", "DeleteEndpoint", "DeleteLease"} \subseteq Later
    BY <2>2, PlanSplits, WhatIsDeferred
  <2>4. TypeOK'
    BY <1>1, <1>2, <2>1, <2>2 DEF TypeOK, ControlInv, Ascending, Things
  <2>5. CreatedInv'
    BY <1>1, <1>2, <2>1, <2>2, <2>3, PlanIsOnlyPlan DEF CreatedInv
  <2>6. WillBeGivenBack'
    BY <1>1, <1>2, <2>1, <2>2, <2>3, PlanIsOnlyPlan
       DEF WillBeGivenBack, LeaseGoes, EndpointGoes, ContainerGoes, SnapshotGoes, TaskGoes,
           ConsoleGoes, CreatedInv, Agenda
  <2>7. NeededOnesRemain'
    BY <1>1, <1>2, <2>1, <2>2, <2>3, PlanIsOnlyPlan
       DEF NeededOnesRemain, TaskKeepsItsSnapshot, LeaseOutlivesSnapshot, WillBeGivenBack,
           TaskGoes, ContainerGoes, SnapshotGoes, Agenda, CreatedInv
  <2>8. ResizerInv'
    BY <1>1, <1>2, <2>1, <2>2, <2>3, PlanIsOnlyPlan DEF ResizerInv, Agenda
  <2>9. CodeInv'
    BY <1>1, <1>2, <2>1, <2>2, <2>3, PlanIsOnlyPlan DEF CodeInv, CreatedInv
  <2> QED BY <2>2, <2>4, <2>5, <2>6, <2>7, <2>8, <2>9 DEF RunnerInv
<1>5. CASE /\ Fail("CreateContainer", <<"DropSnapshot">>)
          /\ exists' = exists \cup {"snapshot", "container"} /\ ReplyLost /\ UNCHANGED held
  <2>1. /\ code' = code /\ failed' = TRUE /\ exists' = exists \cup {"snapshot", "container"}
        /\ held' = held /\ mishaps' = mishaps \cup {"reply"} /\ mishaps' # {}
    BY <1>5 DEF Fail, ReplyLost
  <2>2. /\ OnPlan /\ ~OnPlan' /\ OnPlanInv /\ ControlInv' /\ failed' /\ ~failed
        /\ Ahead' = {"DropSnapshot"} \cup Later /\ Later' = {}
        /\ \A y \in Planned : y \in Ahead <=> Rank[y] >= Rank["CreateContainer"]
    <3>1. "CreateContainer" \in Steps /\ Rank["CreateContainer"] <= 12
      BY RanksAre DEF Steps
    <3>2. /\ OnPlan /\ ~OnPlan' /\ OnPlanInv /\ ControlInv' /\ failed'
          /\ Ahead' = Elements(<<"DropSnapshot">>) \cup Later /\ Later' = {}
          /\ \A y \in Planned : y \in Ahead <=> Rank[y] >= Rank["CreateContainer"]
      BY <1>1, <1>5, <3>1, PlanFails
    <3> QED BY <3>2, RollbackElements DEF OnPlanInv
  <2>3. /\ "CreateLease" \notin Ahead /\ "GetImage" \notin Ahead /\ "CreateContainer" \in Ahead
        /\ "CreateTask" \in Ahead /\ "StartTask" \in Ahead
        /\ {"DeleteTask", "DeleteContainer", "DeleteEndpoint", "DeleteLease"} \subseteq Later
    BY <2>2, PlanSplits, WhatIsDeferred
  <2>4. TypeOK'
    BY <1>1, <1>2, <2>1, <2>2 DEF TypeOK, ControlInv, Ascending, Things
  <2>5. CreatedInv'
    BY <1>1, <1>2, <2>1, <2>2, <2>3, PlanIsOnlyPlan DEF CreatedInv
  <2>6. WillBeGivenBack'
    BY <1>1, <1>2, <2>1, <2>2, <2>3, PlanIsOnlyPlan
       DEF WillBeGivenBack, LeaseGoes, EndpointGoes, ContainerGoes, SnapshotGoes, TaskGoes,
           ConsoleGoes, CreatedInv, Agenda
  <2>7. NeededOnesRemain'
    BY <1>1, <1>2, <2>1, <2>2, <2>3, PlanIsOnlyPlan
       DEF NeededOnesRemain, TaskKeepsItsSnapshot, LeaseOutlivesSnapshot, WillBeGivenBack,
           TaskGoes, ContainerGoes, SnapshotGoes, Agenda, CreatedInv
  <2>8. ResizerInv'
    BY <1>1, <1>2, <2>1, <2>2, <2>3, PlanIsOnlyPlan DEF ResizerInv, Agenda
  <2>9. CodeInv'
    BY <1>1, <1>2, <2>1, <2>2, <2>3, PlanIsOnlyPlan DEF CodeInv, CreatedInv
  <2> QED BY <2>2, <2>4, <2>5, <2>6, <2>7, <2>8, <2>9 DEF RunnerInv
<1> QED BY <1>3, <1>4, <1>5 DEF CreateContainer

\* The task is made on a snapshot that is there.
LEMMA CreateTaskPreserves ==
  ASSUME RunnerInv, CreateTask
  PROVE  RunnerInv'
<1>1. /\ TypeOK /\ ControlInv /\ CreatedInv /\ WillBeGivenBack /\ NeededOnesRemain
      /\ ResizerInv /\ CodeInv
  BY DEF RunnerInv
<1>2. /\ cfg' = cfg /\ killed' = killed /\ notified' = notified /\ interrupts' = interrupts
      /\ proxy' = proxy /\ raised' = raised /\ expired' = expired /\ exists' = exists
      /\ taskCode' = taskCode /\ held' = held /\ status' = status /\ exitCode' = exitCode
      /\ console' = console /\ resizer' = resizer /\ resizeDone' = resizeDone
  BY DEF CreateTask, Quietly, signalVars, worldVars, collectVars, resizeVars
<1>3. CASE Proceed("CreateTask") /\ task' = "created" /\ UNCHANGED mishaps
  <2>1. /\ code' = code /\ failed' = failed /\ task' = "created" /\ mishaps' = mishaps
    BY <1>3 DEF Proceed
  <2>2. /\ OnPlan /\ OnPlan' /\ OnPlanInv /\ ControlInv' /\ ~failed /\ ~failed'
        /\ Ahead = {"CreateTask"} \cup Ahead' /\ "CreateTask" \notin Ahead' /\ Later' = Later
        /\ \A y \in Planned : y \in Ahead <=> Rank[y] >= Rank["CreateTask"]
    BY <1>1, <1>2, <1>3, PlanGoesOn
  <2>3. /\ "CreateLease" \notin Ahead /\ "GetImage" \notin Ahead
        /\ "CreateContainer" \notin Ahead /\ "CreateTask" \in Ahead /\ "StartTask" \in Ahead
        /\ {"DeleteTask", "DeleteContainer", "DeleteEndpoint", "DeleteLease"} \subseteq Later
    BY <2>2, PlanSplits, WhatIsDeferred
  <2>4. TypeOK'
    BY <1>1, <1>2, <2>1, <2>2 DEF TypeOK, ControlInv, Ascending, Things
  <2>5. CreatedInv'
    BY <1>1, <1>2, <2>1, <2>2, <2>3, PlanIsOnlyPlan DEF CreatedInv
  <2>6. WillBeGivenBack'
    BY <1>1, <1>2, <2>1, <2>2, <2>3, PlanIsOnlyPlan
       DEF WillBeGivenBack, LeaseGoes, EndpointGoes, ContainerGoes, SnapshotGoes, TaskGoes,
           ConsoleGoes, CreatedInv, Agenda
  <2>7. NeededOnesRemain'
    BY <1>1, <1>2, <2>1, <2>2, <2>3, PlanIsOnlyPlan
       DEF NeededOnesRemain, TaskKeepsItsSnapshot, LeaseOutlivesSnapshot, WillBeGivenBack,
           TaskGoes, ContainerGoes, SnapshotGoes, Agenda, CreatedInv
  <2>8. ResizerInv'
    BY <1>1, <1>2, <2>1, <2>2, <2>3, PlanIsOnlyPlan DEF ResizerInv, Agenda
  <2>9. CodeInv'
    BY <1>1, <1>2, <2>1, <2>2, <2>3, PlanIsOnlyPlan DEF CodeInv, CreatedInv
  <2> QED BY <2>2, <2>4, <2>5, <2>6, <2>7, <2>8, <2>9 DEF RunnerInv
<1>4. CASE Fail("CreateTask", <<>>) /\ UNCHANGED <<task, mishaps>>
  <2>1. /\ code' = code /\ failed' = TRUE /\ task' = task /\ mishaps' = mishaps
    BY <1>4 DEF Fail
  <2>2. /\ OnPlan /\ ~OnPlan' /\ OnPlanInv /\ ControlInv' /\ failed' /\ ~failed
        /\ Ahead' = Later /\ Later' = {}
        /\ \A y \in Planned : y \in Ahead <=> Rank[y] >= Rank["CreateTask"]
    <3>1. "CreateTask" \in Steps /\ Rank["CreateTask"] <= 12
      BY RanksAre DEF Steps
    <3>2. /\ OnPlan /\ ~OnPlan' /\ OnPlanInv /\ ControlInv' /\ failed'
          /\ Ahead' = Elements(<<>>) \cup Later /\ Later' = {}
          /\ \A y \in Planned : y \in Ahead <=> Rank[y] >= Rank["CreateTask"]
      BY <1>1, <1>4, <3>1, PlanFails
    <3> QED BY <3>2, RollbackElements DEF OnPlanInv
  <2>3. /\ "CreateLease" \notin Ahead /\ "GetImage" \notin Ahead
        /\ "CreateContainer" \notin Ahead /\ "CreateTask" \in Ahead /\ "StartTask" \in Ahead
        /\ {"DeleteTask", "DeleteContainer", "DeleteEndpoint", "DeleteLease"} \subseteq Later
    BY <2>2, PlanSplits, WhatIsDeferred
  <2>4. TypeOK'
    BY <1>1, <1>2, <2>1, <2>2 DEF TypeOK, ControlInv, Ascending, Things
  <2>5. CreatedInv'
    BY <1>1, <1>2, <2>1, <2>2, <2>3, PlanIsOnlyPlan DEF CreatedInv
  <2>6. WillBeGivenBack'
    BY <1>1, <1>2, <2>1, <2>2, <2>3, PlanIsOnlyPlan
       DEF WillBeGivenBack, LeaseGoes, EndpointGoes, ContainerGoes, SnapshotGoes, TaskGoes,
           ConsoleGoes, CreatedInv, Agenda
  <2>7. NeededOnesRemain'
    BY <1>1, <1>2, <2>1, <2>2, <2>3, PlanIsOnlyPlan
       DEF NeededOnesRemain, TaskKeepsItsSnapshot, LeaseOutlivesSnapshot, WillBeGivenBack,
           TaskGoes, ContainerGoes, SnapshotGoes, Agenda, CreatedInv
  <2>8. ResizerInv'
    BY <1>1, <1>2, <2>1, <2>2, <2>3, PlanIsOnlyPlan DEF ResizerInv, Agenda
  <2>9. CodeInv'
    BY <1>1, <1>2, <2>1, <2>2, <2>3, PlanIsOnlyPlan DEF CodeInv, CreatedInv
  <2> QED BY <2>2, <2>4, <2>5, <2>6, <2>7, <2>8, <2>9 DEF RunnerInv
<1>5. CASE Fail("CreateTask", <<>>) /\ task' = "created" /\ ReplyLost
  <2>1. /\ code' = code /\ failed' = TRUE /\ task' = "created"
        /\ mishaps' = mishaps \cup {"reply"} /\ mishaps' # {}
    BY <1>5 DEF Fail, ReplyLost
  <2>2. /\ OnPlan /\ ~OnPlan' /\ OnPlanInv /\ ControlInv' /\ failed' /\ ~failed
        /\ Ahead' = Later /\ Later' = {}
        /\ \A y \in Planned : y \in Ahead <=> Rank[y] >= Rank["CreateTask"]
    <3>1. "CreateTask" \in Steps /\ Rank["CreateTask"] <= 12
      BY RanksAre DEF Steps
    <3>2. /\ OnPlan /\ ~OnPlan' /\ OnPlanInv /\ ControlInv' /\ failed'
          /\ Ahead' = Elements(<<>>) \cup Later /\ Later' = {}
          /\ \A y \in Planned : y \in Ahead <=> Rank[y] >= Rank["CreateTask"]
      BY <1>1, <1>5, <3>1, PlanFails
    <3> QED BY <3>2, RollbackElements DEF OnPlanInv
  <2>3. /\ "CreateLease" \notin Ahead /\ "GetImage" \notin Ahead
        /\ "CreateContainer" \notin Ahead /\ "CreateTask" \in Ahead /\ "StartTask" \in Ahead
        /\ {"DeleteTask", "DeleteContainer", "DeleteEndpoint", "DeleteLease"} \subseteq Later
    BY <2>2, PlanSplits, WhatIsDeferred
  <2>4. TypeOK'
    BY <1>1, <1>2, <2>1, <2>2 DEF TypeOK, ControlInv, Ascending, Things
  <2>5. CreatedInv'
    BY <1>1, <1>2, <2>1, <2>2, <2>3, PlanIsOnlyPlan DEF CreatedInv
  <2>6. WillBeGivenBack'
    BY <1>1, <1>2, <2>1, <2>2, <2>3, PlanIsOnlyPlan
       DEF WillBeGivenBack, LeaseGoes, EndpointGoes, ContainerGoes, SnapshotGoes, TaskGoes,
           ConsoleGoes, CreatedInv, Agenda
  <2>7. NeededOnesRemain'
    BY <1>1, <1>2, <2>1, <2>2, <2>3, PlanIsOnlyPlan
       DEF NeededOnesRemain, TaskKeepsItsSnapshot, LeaseOutlivesSnapshot, WillBeGivenBack,
           TaskGoes, ContainerGoes, SnapshotGoes, Agenda, CreatedInv
  <2>8. ResizerInv'
    BY <1>1, <1>2, <2>1, <2>2, <2>3, PlanIsOnlyPlan DEF ResizerInv, Agenda
  <2>9. CodeInv'
    BY <1>1, <1>2, <2>1, <2>2, <2>3, PlanIsOnlyPlan DEF CodeInv, CreatedInv
  <2> QED BY <2>2, <2>4, <2>5, <2>6, <2>7, <2>8, <2>9 DEF RunnerInv
<1> QED BY <1>3, <1>4, <1>5 DEF CreateTask

\* When the wait cannot be registered the task is rolled back.
LEMMA RegisterWaitPreserves ==
  ASSUME RunnerInv, RegisterWait
  PROVE  RunnerInv'
<1>1. /\ TypeOK /\ ControlInv /\ CreatedInv /\ WillBeGivenBack /\ NeededOnesRemain
      /\ ResizerInv /\ CodeInv
  BY DEF RunnerInv
<1>2. /\ cfg' = cfg /\ killed' = killed /\ notified' = notified /\ interrupts' = interrupts
      /\ proxy' = proxy /\ raised' = raised /\ expired' = expired /\ exists' = exists
      /\ task' = task /\ taskCode' = taskCode /\ held' = held /\ status' = status
      /\ exitCode' = exitCode /\ console' = console /\ resizer' = resizer
      /\ resizeDone' = resizeDone /\ mishaps' = mishaps
  BY DEF RegisterWait, Quietly, signalVars, worldVars, collectVars, resizeVars
<1>3. CASE Proceed("RegisterWait")
  <2>1. /\ code' = code /\ failed' = failed
    BY <1>3 DEF Proceed
  <2>2. /\ OnPlan /\ OnPlan' /\ OnPlanInv /\ ControlInv' /\ ~failed /\ ~failed'
        /\ Ahead = {"RegisterWait"} \cup Ahead' /\ "RegisterWait" \notin Ahead'
        /\ Later' = Later /\ \A y \in Planned : y \in Ahead <=> Rank[y] >= Rank["RegisterWait"]
    BY <1>1, <1>2, <1>3, PlanGoesOn
  <2>3. /\ "CreateLease" \notin Ahead /\ "GetImage" \notin Ahead
        /\ "CreateContainer" \notin Ahead /\ "CreateTask" \notin Ahead /\ "StartTask" \in Ahead
        /\ {"DeleteTask", "DeleteContainer", "DeleteEndpoint", "DeleteLease"} \subseteq Later
    BY <2>2, PlanSplits, WhatIsDeferred
  <2>4. TypeOK'
    BY <1>1, <1>2, <2>1, <2>2 DEF TypeOK, ControlInv, Ascending, Things
  <2>5. CreatedInv'
    BY <1>1, <1>2, <2>1, <2>2, <2>3, PlanIsOnlyPlan DEF CreatedInv
  <2>6. WillBeGivenBack'
    BY <1>1, <1>2, <2>1, <2>2, <2>3, PlanIsOnlyPlan
       DEF WillBeGivenBack, LeaseGoes, EndpointGoes, ContainerGoes, SnapshotGoes, TaskGoes,
           ConsoleGoes, CreatedInv, Agenda
  <2>7. NeededOnesRemain'
    BY <1>1, <1>2, <2>1, <2>2, <2>3, PlanIsOnlyPlan
       DEF NeededOnesRemain, TaskKeepsItsSnapshot, LeaseOutlivesSnapshot, WillBeGivenBack,
           TaskGoes, ContainerGoes, SnapshotGoes, Agenda, CreatedInv
  <2>8. ResizerInv'
    BY <1>1, <1>2, <2>1, <2>2, <2>3, PlanIsOnlyPlan DEF ResizerInv, Agenda
  <2>9. CodeInv'
    BY <1>1, <1>2, <2>1, <2>2, <2>3, PlanIsOnlyPlan DEF CodeInv, CreatedInv
  <2> QED BY <2>2, <2>4, <2>5, <2>6, <2>7, <2>8, <2>9 DEF RunnerInv
<1>4. CASE Fail("RegisterWait", <<"DropTask">>)
  <2>1. /\ code' = code /\ failed' = TRUE
    BY <1>4 DEF Fail
  <2>2. /\ OnPlan /\ ~OnPlan' /\ OnPlanInv /\ ControlInv' /\ failed' /\ ~failed
        /\ Ahead' = {"DropTask"} \cup Later /\ Later' = {}
        /\ \A y \in Planned : y \in Ahead <=> Rank[y] >= Rank["RegisterWait"]
    <3>1. "RegisterWait" \in Steps /\ Rank["RegisterWait"] <= 12
      BY RanksAre DEF Steps
    <3>2. /\ OnPlan /\ ~OnPlan' /\ OnPlanInv /\ ControlInv' /\ failed'
          /\ Ahead' = Elements(<<"DropTask">>) \cup Later /\ Later' = {}
          /\ \A y \in Planned : y \in Ahead <=> Rank[y] >= Rank["RegisterWait"]
      BY <1>1, <1>4, <3>1, PlanFails
    <3> QED BY <3>2, RollbackElements DEF OnPlanInv
  <2>3. /\ "CreateLease" \notin Ahead /\ "GetImage" \notin Ahead
        /\ "CreateContainer" \notin Ahead /\ "CreateTask" \notin Ahead /\ "StartTask" \in Ahead
        /\ {"DeleteTask", "DeleteContainer", "DeleteEndpoint", "DeleteLease"} \subseteq Later
    BY <2>2, PlanSplits, WhatIsDeferred
  <2>4. TypeOK'
    BY <1>1, <1>2, <2>1, <2>2 DEF TypeOK, ControlInv, Ascending, Things
  <2>5. CreatedInv'
    BY <1>1, <1>2, <2>1, <2>2, <2>3, PlanIsOnlyPlan DEF CreatedInv
  <2>6. WillBeGivenBack'
    BY <1>1, <1>2, <2>1, <2>2, <2>3, PlanIsOnlyPlan
       DEF WillBeGivenBack, LeaseGoes, EndpointGoes, ContainerGoes, SnapshotGoes, TaskGoes,
           ConsoleGoes, CreatedInv, Agenda
  <2>7. NeededOnesRemain'
    BY <1>1, <1>2, <2>1, <2>2, <2>3, PlanIsOnlyPlan
       DEF NeededOnesRemain, TaskKeepsItsSnapshot, LeaseOutlivesSnapshot, WillBeGivenBack,
           TaskGoes, ContainerGoes, SnapshotGoes, Agenda, CreatedInv
  <2>8. ResizerInv'
    BY <1>1, <1>2, <2>1, <2>2, <2>3, PlanIsOnlyPlan DEF ResizerInv, Agenda
  <2>9. CodeInv'
    BY <1>1, <1>2, <2>1, <2>2, <2>3, PlanIsOnlyPlan DEF CodeInv, CreatedInv
  <2> QED BY <2>2, <2>4, <2>5, <2>6, <2>7, <2>8, <2>9 DEF RunnerInv
<1> QED BY <1>3, <1>4 DEF RegisterWait

\* The task that runs is held; its exit is waited for.
LEMMA StartTaskPreserves ==
  ASSUME RunnerInv, StartTask
  PROVE  RunnerInv'
<1>1. /\ TypeOK /\ ControlInv /\ CreatedInv /\ WillBeGivenBack /\ NeededOnesRemain
      /\ ResizerInv /\ CodeInv
  BY DEF RunnerInv
<1>2. /\ cfg' = cfg /\ killed' = killed /\ notified' = notified /\ interrupts' = interrupts
      /\ proxy' = proxy /\ raised' = raised /\ expired' = expired /\ exists' = exists
      /\ taskCode' = taskCode /\ exitCode' = exitCode /\ console' = console
      /\ resizer' = resizer /\ resizeDone' = resizeDone /\ mishaps' = mishaps
  BY DEF StartTask, Quietly, signalVars, worldVars, collectVars, resizeVars
<1>3. CASE /\ Proceed("StartTask") /\ task' = "running" /\ held' = held \cup {"task"}
          /\ status' = "waiting"
  <2>1. /\ code' = code /\ failed' = failed /\ task' = "running" /\ held' = held \cup {"task"}
        /\ status' = "waiting"
    BY <1>3 DEF Proceed
  <2>2. /\ OnPlan /\ OnPlan' /\ OnPlanInv /\ ControlInv' /\ ~failed /\ ~failed'
        /\ Ahead = {"StartTask"} \cup Ahead' /\ "StartTask" \notin Ahead' /\ Later' = Later
        /\ \A y \in Planned : y \in Ahead <=> Rank[y] >= Rank["StartTask"]
    BY <1>1, <1>2, <1>3, PlanGoesOn
  <2>3. /\ "CreateLease" \notin Ahead /\ "GetImage" \notin Ahead
        /\ "CreateContainer" \notin Ahead /\ "CreateTask" \notin Ahead /\ "StartTask" \in Ahead
        /\ {"DeleteTask", "DeleteContainer", "DeleteEndpoint", "DeleteLease"} \subseteq Later
    BY <2>2, PlanSplits, WhatIsDeferred
  <2>4. TypeOK'
    BY <1>1, <1>2, <2>1, <2>2 DEF TypeOK, ControlInv, Ascending, Things
  <2>5. CreatedInv'
    BY <1>1, <1>2, <2>1, <2>2, <2>3, PlanIsOnlyPlan DEF CreatedInv
  <2>6. WillBeGivenBack'
    BY <1>1, <1>2, <2>1, <2>2, <2>3, PlanIsOnlyPlan
       DEF WillBeGivenBack, LeaseGoes, EndpointGoes, ContainerGoes, SnapshotGoes, TaskGoes,
           ConsoleGoes, CreatedInv, Agenda
  <2>7. NeededOnesRemain'
    BY <1>1, <1>2, <2>1, <2>2, <2>3, PlanIsOnlyPlan
       DEF NeededOnesRemain, TaskKeepsItsSnapshot, LeaseOutlivesSnapshot, WillBeGivenBack,
           TaskGoes, ContainerGoes, SnapshotGoes, Agenda, CreatedInv
  <2>8. ResizerInv'
    BY <1>1, <1>2, <2>1, <2>2, <2>3, PlanIsOnlyPlan DEF ResizerInv, Agenda
  <2>9. CodeInv'
    BY <1>1, <1>2, <2>1, <2>2, <2>3, PlanIsOnlyPlan DEF CodeInv, CreatedInv
  <2> QED BY <2>2, <2>4, <2>5, <2>6, <2>7, <2>8, <2>9 DEF RunnerInv
<1>4. CASE /\ Fail("StartTask", <<"DropTask">>)
          /\ task' \in {"created", "running"} /\ UNCHANGED <<held, status>>
  <2>1. /\ code' = code /\ failed' = TRUE /\ task' \in {"created", "running"} /\ held' = held
        /\ status' = status
    BY <1>4 DEF Fail
  <2>2. /\ OnPlan /\ ~OnPlan' /\ OnPlanInv /\ ControlInv' /\ failed' /\ ~failed
        /\ Ahead' = {"DropTask"} \cup Later /\ Later' = {}
        /\ \A y \in Planned : y \in Ahead <=> Rank[y] >= Rank["StartTask"]
    <3>1. "StartTask" \in Steps /\ Rank["StartTask"] <= 12
      BY RanksAre DEF Steps
    <3>2. /\ OnPlan /\ ~OnPlan' /\ OnPlanInv /\ ControlInv' /\ failed'
          /\ Ahead' = Elements(<<"DropTask">>) \cup Later /\ Later' = {}
          /\ \A y \in Planned : y \in Ahead <=> Rank[y] >= Rank["StartTask"]
      BY <1>1, <1>4, <3>1, PlanFails
    <3> QED BY <3>2, RollbackElements DEF OnPlanInv
  <2>3. /\ "CreateLease" \notin Ahead /\ "GetImage" \notin Ahead
        /\ "CreateContainer" \notin Ahead /\ "CreateTask" \notin Ahead /\ "StartTask" \in Ahead
        /\ {"DeleteTask", "DeleteContainer", "DeleteEndpoint", "DeleteLease"} \subseteq Later
    BY <2>2, PlanSplits, WhatIsDeferred
  <2>4. TypeOK'
    BY <1>1, <1>2, <2>1, <2>2 DEF TypeOK, ControlInv, Ascending, Things
  <2>5. CreatedInv'
    BY <1>1, <1>2, <2>1, <2>2, <2>3, PlanIsOnlyPlan DEF CreatedInv
  <2>6. WillBeGivenBack'
    BY <1>1, <1>2, <2>1, <2>2, <2>3, PlanIsOnlyPlan
       DEF WillBeGivenBack, LeaseGoes, EndpointGoes, ContainerGoes, SnapshotGoes, TaskGoes,
           ConsoleGoes, CreatedInv, Agenda
  <2>7. NeededOnesRemain'
    BY <1>1, <1>2, <2>1, <2>2, <2>3, PlanIsOnlyPlan
       DEF NeededOnesRemain, TaskKeepsItsSnapshot, LeaseOutlivesSnapshot, WillBeGivenBack,
           TaskGoes, ContainerGoes, SnapshotGoes, Agenda, CreatedInv
  <2>8. ResizerInv'
    BY <1>1, <1>2, <2>1, <2>2, <2>3, PlanIsOnlyPlan DEF ResizerInv, Agenda
  <2>9. CodeInv'
    BY <1>1, <1>2, <2>1, <2>2, <2>3, PlanIsOnlyPlan DEF CodeInv, CreatedInv
  <2> QED BY <2>2, <2>4, <2>5, <2>6, <2>7, <2>8, <2>9 DEF RunnerInv
<1> QED BY <1>3, <1>4 DEF StartTask

------------------------------------------------------------------------------
(* What a place in the rest tells.                                         *)

\* Nothing of the plan is left, nor what comes before the step in hand.
LEMMA RestSplits ==
  ASSUME NEW step, OffPlanInv, \A y \in Ahead : y = step \/ Rank[step] < Rank[y]
  PROVE  /\ Ahead \cap {"CreateLease", "GetImage", "CreateContainer", "CreateTask",
                        "StartTask"} = {}
         /\ step = "DropSnapshot" =>
              Ahead \cap {"DropTask"} = {}
         /\ step = "DropLease" =>
              Ahead \cap {"DropTask", "DropSnapshot"} = {}
         /\ step = "StopSignals" =>
              Ahead \cap {"DropTask", "DropSnapshot", "DropLease"} = {}
         /\ step = "CloseResize" =>
              Ahead \cap {"DropTask", "DropSnapshot", "DropLease"} = {}
         /\ step = "AwaitResize" =>
              Ahead \cap {"DropTask", "DropSnapshot", "DropLease"} = {}
         /\ step = "RestoreConsole" =>
              Ahead \cap {"DropTask", "DropSnapshot", "DropLease", "AwaitResize"} = {}
         /\ step = "DeleteTask" =>
              Ahead \cap {"DropTask", "DropSnapshot", "DropLease", "AwaitResize",
                          "RestoreConsole"} = {}
         /\ step = "DeleteContainer" =>
              Ahead \cap {"DropTask", "DropSnapshot", "DropLease", "AwaitResize", "RestoreConsole",
                          "DeleteTask"} = {}
         /\ step = "RemoveSnapshot" =>
              Ahead \cap {"DropTask", "DropSnapshot", "DropLease", "AwaitResize", "RestoreConsole",
                          "DeleteTask", "DeleteContainer"} = {}
         /\ step = "DeleteMetadata" =>
              Ahead \cap {"DropTask", "DropSnapshot", "DropLease", "AwaitResize", "RestoreConsole",
                          "DeleteTask", "DeleteContainer", "RemoveSnapshot"} = {}
         /\ step = "DeleteEndpoint" =>
              Ahead \cap {"DropTask", "DropSnapshot", "DropLease", "AwaitResize", "RestoreConsole",
                          "DeleteTask", "DeleteContainer", "RemoveSnapshot", "DeleteMetadata"} = {}
         /\ step = "DeleteLease" =>
              Ahead \cap {"DropTask", "DropSnapshot", "DropLease", "AwaitResize", "RestoreConsole",
                          "DeleteTask", "DeleteContainer", "RemoveSnapshot", "DeleteMetadata",
                          "DeleteEndpoint"} = {}
         /\ step = "CloseClient" =>
              Ahead \cap {"DropTask", "DropSnapshot", "DropLease", "AwaitResize", "RestoreConsole",
                          "DeleteTask", "DeleteContainer", "RemoveSnapshot", "DeleteMetadata",
                          "DeleteEndpoint", "DeleteLease"} = {}
<1> HIDE DEF Ahead
<1>1. Ahead \cap {"CreateLease", "GetImage", "CreateContainer", "CreateTask", "StartTask"} = {}
  <2>1. \A y \in {"CreateLease", "GetImage", "CreateContainer", "CreateTask", "StartTask"} :
          y \in Steps /\ Rank[y] <= 12
    BY RanksAre DEF Steps
  <2>2. ASSUME NEW y \in Ahead, y \in {"CreateLease", "GetImage", "CreateContainer", "CreateTask",
                                       "StartTask"}
        PROVE  FALSE
    BY <2>1, <2>2, RanksCompare DEF OffPlanInv
  <2> QED BY <2>2
<1>2. step = "DropSnapshot" =>
        Ahead \cap {"DropTask"} = {}
  BY RanksAre
<1>3. step = "DropLease" =>
        Ahead \cap {"DropTask", "DropSnapshot"} = {}
  BY RanksAre
<1>4. step = "StopSignals" =>
        Ahead \cap {"DropTask", "DropSnapshot", "DropLease"} = {}
  BY RanksAre
<1>5. step = "CloseResize" =>
        Ahead \cap {"DropTask", "DropSnapshot", "DropLease"} = {}
  BY RanksAre
<1>6. step = "AwaitResize" =>
        Ahead \cap {"DropTask", "DropSnapshot", "DropLease"} = {}
  BY RanksAre
<1>7. step = "RestoreConsole" =>
        Ahead \cap {"DropTask", "DropSnapshot", "DropLease", "AwaitResize"} = {}
  BY RanksAre
<1>8. step = "DeleteTask" =>
        Ahead \cap {"DropTask", "DropSnapshot", "DropLease", "AwaitResize", "RestoreConsole"} = {}
  BY RanksAre
<1>9. step = "DeleteContainer" =>
        Ahead \cap {"DropTask", "DropSnapshot", "DropLease", "AwaitResize", "RestoreConsole",
                    "DeleteTask"} = {}
  BY RanksAre
<1>10. step = "RemoveSnapshot" =>
        Ahead \cap {"DropTask", "DropSnapshot", "DropLease", "AwaitResize", "RestoreConsole",
                    "DeleteTask", "DeleteContainer"} = {}
  BY RanksAre
<1>11. step = "DeleteMetadata" =>
        Ahead \cap {"DropTask", "DropSnapshot", "DropLease", "AwaitResize", "RestoreConsole",
                    "DeleteTask", "DeleteContainer", "RemoveSnapshot"} = {}
  BY RanksAre
<1>12. step = "DeleteEndpoint" =>
        Ahead \cap {"DropTask", "DropSnapshot", "DropLease", "AwaitResize", "RestoreConsole",
                    "DeleteTask", "DeleteContainer", "RemoveSnapshot", "DeleteMetadata"} = {}
  BY RanksAre
<1>13. step = "DeleteLease" =>
        Ahead \cap {"DropTask", "DropSnapshot", "DropLease", "AwaitResize", "RestoreConsole",
                    "DeleteTask", "DeleteContainer", "RemoveSnapshot", "DeleteMetadata",
                    "DeleteEndpoint"} = {}
  BY RanksAre
<1>14. step = "CloseClient" =>
        Ahead \cap {"DropTask", "DropSnapshot", "DropLease", "AwaitResize", "RestoreConsole",
                    "DeleteTask", "DeleteContainer", "RemoveSnapshot", "DeleteMetadata",
                    "DeleteEndpoint", "DeleteLease"} = {}
  BY RanksAre
<1> QED BY <1>1, <1>2, <1>3, <1>4, <1>5, <1>6, <1>7, <1>8, <1>9, <1>10, <1>11, <1>12, <1>13, <1>14

------------------------------------------------------------------------------
(* Waiting, stopping and the roll-backs.                                   *)

\* The goroutine of a terminal starts when the console is to be restored.
LEMMA RelayPreserves ==
  ASSUME RunnerInv, Relay
  PROVE  RunnerInv'
<1>1. /\ TypeOK /\ ControlInv /\ CreatedInv /\ WillBeGivenBack /\ NeededOnesRemain
      /\ ResizerInv /\ CodeInv
  BY DEF RunnerInv
<1>2. /\ cfg' = cfg /\ killed' = killed /\ interrupts' = interrupts /\ raised' = raised
      /\ expired' = expired /\ exists' = exists /\ task' = task /\ taskCode' = taskCode
      /\ held' = held /\ status' = status /\ exitCode' = exitCode /\ console' = console
      /\ resizeDone' = resizeDone /\ mishaps' = mishaps
      /\ resizer' = (IF cfg.terminal THEN "idle" ELSE "none") /\ notified' = TRUE
      /\ proxy' = "idle"
  BY DEF Relay, worldVars, collectVars
<1>3. CASE ProceedDeferring("Relay", <<"StopSignals">> \o StopResize)
  <2>1. /\ code' = code /\ failed' = failed
    BY <1>3 DEF ProceedDeferring
  <2>2. /\ OnPlan /\ OnPlan' /\ OnPlanInv /\ ControlInv' /\ ~failed /\ ~failed'
        /\ Ahead = {"Relay"} \cup Ahead' /\ "Relay" \notin Ahead'
        /\ Later' = {"StopSignals", "CloseResize", "AwaitResize"} \cup Later
        /\ \A y \in Planned : y \in Ahead <=> Rank[y] >= Rank["Relay"]
    BY <1>1, <1>2, <1>3, PlanDefers, LiteralsAscend
  <2>3. /\ "CreateLease" \notin Ahead /\ "GetImage" \notin Ahead
        /\ "CreateContainer" \notin Ahead /\ "CreateTask" \notin Ahead
        /\ "StartTask" \notin Ahead
        /\ {"DeleteTask", "DeleteContainer", "DeleteEndpoint", "DeleteLease"} \subseteq Later
        /\ (cfg.terminal => "RestoreConsole" \in Later)
    BY <2>2, PlanSplits, WhatIsDeferred
  <2>4. TypeOK'
    BY <1>1, <1>2, <2>1, <2>2 DEF TypeOK, ControlInv, Ascending, Things
  <2>5. CreatedInv'
    BY <1>1, <1>2, <2>1, <2>2, <2>3, PlanIsOnlyPlan DEF CreatedInv
  <2>6. WillBeGivenBack'
    BY <1>1, <1>2, <2>1, <2>2, <2>3, PlanIsOnlyPlan
       DEF WillBeGivenBack, LeaseGoes, EndpointGoes, ContainerGoes, SnapshotGoes, TaskGoes,
           ConsoleGoes, CreatedInv, Agenda
  <2>7. NeededOnesRemain'
    BY <1>1, <1>2, <2>1, <2>2, <2>3, PlanIsOnlyPlan
       DEF NeededOnesRemain, TaskKeepsItsSnapshot, LeaseOutlivesSnapshot, WillBeGivenBack,
           TaskGoes, ContainerGoes, SnapshotGoes, Agenda, CreatedInv
  <2>8. ResizerInv'
    BY <1>1, <1>2, <2>1, <2>2, <2>3, PlanIsOnlyPlan DEF ResizerInv, Agenda
  <2>9. CodeInv'
    BY <1>1, <1>2, <2>1, <2>2, <2>3, PlanIsOnlyPlan DEF CodeInv, CreatedInv
  <2> QED BY <2>2, <2>4, <2>5, <2>6, <2>7, <2>8, <2>9 DEF RunnerInv
<1> QED BY <1>3 DEF Relay

\* The code returned without an error is the one the task exited with.
LEMMA WaitPreserves ==
  ASSUME RunnerInv, Wait
  PROVE  RunnerInv'
<1>1. /\ TypeOK /\ ControlInv /\ CreatedInv /\ WillBeGivenBack /\ NeededOnesRemain
      /\ ResizerInv /\ CodeInv
  BY DEF RunnerInv
<1>2. /\ At("Wait") /\ cfg' = cfg /\ killed' = killed /\ notified' = notified
      /\ interrupts' = interrupts /\ proxy' = proxy /\ raised' = raised /\ expired' = expired
      /\ exists' = exists /\ task' = task /\ taskCode' = taskCode /\ held' = held
      /\ status' = status /\ exitCode' = exitCode /\ console' = console /\ resizer' = resizer
      /\ resizeDone' = resizeDone /\ mishaps' = mishaps
  BY DEF Wait, Quietly, signalVars, worldVars, collectVars, resizeVars
<1>3. CASE /\ status = "exited" /\ code' = exitCode /\ Return(<<>>) /\ UNCHANGED failed
  <2>1. /\ status = "exited" /\ code' = exitCode /\ failed' = failed
    BY <1>3 DEF Return
  <2>2. /\ OnPlan /\ ~OnPlan' /\ OnPlanInv /\ ControlInv' /\ ~failed /\ Ahead' = Later
        /\ Later' = {} /\ \A y \in Planned : y \in Ahead <=> Rank[y] >= Rank["Wait"]
    <3>1. "Wait" \in Steps /\ Rank["Wait"] <= 12
      BY RanksAre DEF Steps
    <3>2. /\ OnPlan /\ ~OnPlan' /\ OnPlanInv /\ ControlInv'
          /\ Ahead' = Elements(<<>>) \cup Later /\ Later' = {}
          /\ \A y \in Planned : y \in Ahead <=> Rank[y] >= Rank["Wait"]
      BY <1>1, <1>2, <1>3, <3>1, PlanIsLeft
    <3> QED BY <3>2, RollbackElements DEF OnPlanInv
  <2>3. /\ "CreateLease" \notin Ahead /\ "GetImage" \notin Ahead
        /\ "CreateContainer" \notin Ahead /\ "CreateTask" \notin Ahead
        /\ "StartTask" \notin Ahead
        /\ {"DeleteTask", "DeleteContainer", "DeleteEndpoint", "DeleteLease"} \subseteq Later
    BY <2>2, PlanSplits, WhatIsDeferred
  <2>4. TypeOK'
    BY <1>1, <1>2, <2>1, <2>2 DEF TypeOK, ControlInv, Ascending, Things
  <2>5. CreatedInv'
    BY <1>1, <1>2, <2>1, <2>2, <2>3, PlanIsOnlyPlan DEF CreatedInv
  <2>6. WillBeGivenBack'
    BY <1>1, <1>2, <2>1, <2>2, <2>3, PlanIsOnlyPlan
       DEF WillBeGivenBack, LeaseGoes, EndpointGoes, ContainerGoes, SnapshotGoes, TaskGoes,
           ConsoleGoes, CreatedInv, Agenda
  <2>7. NeededOnesRemain'
    BY <1>1, <1>2, <2>1, <2>2, <2>3, PlanIsOnlyPlan
       DEF NeededOnesRemain, TaskKeepsItsSnapshot, LeaseOutlivesSnapshot, WillBeGivenBack,
           TaskGoes, ContainerGoes, SnapshotGoes, Agenda, CreatedInv
  <2>8. ResizerInv'
    BY <1>1, <1>2, <2>1, <2>2, <2>3, PlanIsOnlyPlan DEF ResizerInv, Agenda
  <2>9. CodeInv'
    BY <1>1, <1>2, <2>1, <2>2, <2>3, PlanIsOnlyPlan DEF CodeInv, CreatedInv
  <2> QED BY <2>2, <2>4, <2>5, <2>6, <2>7, <2>8, <2>9 DEF RunnerInv
<1>4. CASE /\ (status = "error" \/ expired) /\ Return(<<"Stop">>)
          /\ failed' = TRUE /\ UNCHANGED code
  <2>1. /\ code' = code /\ failed' = TRUE
    BY <1>4 DEF Return
  <2>2. /\ OnPlan /\ ~OnPlan' /\ OnPlanInv /\ ControlInv' /\ ~failed
        /\ Ahead' = {"Stop"} \cup Later /\ Later' = {}
        /\ \A y \in Planned : y \in Ahead <=> Rank[y] >= Rank["Wait"]
    <3>1. "Wait" \in Steps /\ Rank["Wait"] <= 12
      BY RanksAre DEF Steps
    <3>2. /\ OnPlan /\ ~OnPlan' /\ OnPlanInv /\ ControlInv'
          /\ Ahead' = Elements(<<"Stop">>) \cup Later /\ Later' = {}
          /\ \A y \in Planned : y \in Ahead <=> Rank[y] >= Rank["Wait"]
      BY <1>1, <1>2, <1>4, <3>1, PlanIsLeft
    <3> QED BY <3>2, RollbackElements DEF OnPlanInv
  <2>3. /\ "CreateLease" \notin Ahead /\ "GetImage" \notin Ahead
        /\ "CreateContainer" \notin Ahead /\ "CreateTask" \notin Ahead
        /\ "StartTask" \notin Ahead
        /\ {"DeleteTask", "DeleteContainer", "DeleteEndpoint", "DeleteLease"} \subseteq Later
    BY <2>2, PlanSplits, WhatIsDeferred
  <2>4. TypeOK'
    BY <1>1, <1>2, <2>1, <2>2 DEF TypeOK, ControlInv, Ascending, Things
  <2>5. CreatedInv'
    BY <1>1, <1>2, <2>1, <2>2, <2>3, PlanIsOnlyPlan DEF CreatedInv
  <2>6. WillBeGivenBack'
    BY <1>1, <1>2, <2>1, <2>2, <2>3, PlanIsOnlyPlan
       DEF WillBeGivenBack, LeaseGoes, EndpointGoes, ContainerGoes, SnapshotGoes, TaskGoes,
           ConsoleGoes, CreatedInv, Agenda
  <2>7. NeededOnesRemain'
    BY <1>1, <1>2, <2>1, <2>2, <2>3, PlanIsOnlyPlan
       DEF NeededOnesRemain, TaskKeepsItsSnapshot, LeaseOutlivesSnapshot, WillBeGivenBack,
           TaskGoes, ContainerGoes, SnapshotGoes, Agenda, CreatedInv
  <2>8. ResizerInv'
    BY <1>1, <1>2, <2>1, <2>2, <2>3, PlanIsOnlyPlan DEF ResizerInv, Agenda
  <2>9. CodeInv'
    BY <1>1, <1>2, <2>1, <2>2, <2>3, PlanIsOnlyPlan DEF CodeInv, CreatedInv
  <2> QED BY <2>2, <2>4, <2>5, <2>6, <2>7, <2>8, <2>9 DEF RunnerInv
<1> QED BY <1>3, <1>4 DEF Wait

\* SIGTERM and the grace period.
LEMMA StopPreserves ==
  ASSUME RunnerInv, Stop
  PROVE  RunnerInv'
<1>1. /\ TypeOK /\ ControlInv /\ CreatedInv /\ WillBeGivenBack /\ NeededOnesRemain
      /\ ResizerInv /\ CodeInv
  BY DEF RunnerInv
<1>2. /\ At("Stop") /\ deferred' = deferred /\ code' = code /\ failed' = failed /\ cfg' = cfg
      /\ killed' = killed /\ notified' = notified /\ interrupts' = interrupts /\ proxy' = proxy
      /\ raised' = raised /\ expired' = expired /\ exists' = exists /\ task' = task
      /\ taskCode' = taskCode /\ held' = held /\ status' = status /\ exitCode' = exitCode
      /\ console' = console /\ resizer' = resizer /\ resizeDone' = resizeDone
      /\ mishaps' = mishaps
  BY DEF Stop, Quietly, signalVars, worldVars, collectVars, resizeVars
<1>3. CASE todo' = Tail(todo)
  <2>1. /\ ~OnPlan /\ ~OnPlan' /\ OffPlanInv /\ ControlInv' /\ Ahead = {"Stop"} \cup Ahead'
        /\ "Stop" \notin Ahead' /\ Later = {} /\ Later' = {}
        /\ \A y \in Ahead : y = "Stop" \/ Rank["Stop"] < Rank[y]
        /\ Rank["Stop"] > 12
    <3>1. Rank["Stop"] > 12
      BY RanksAre
    <3>2. /\ At("Stop") /\ todo' = Tail(todo) /\ deferred' = deferred /\ (failed => failed')
      BY <1>2, <1>3
    <3> QED BY <1>1, <3>1, <3>2, RestShortens
  <2>2. /\ Ahead \cap {"CreateLease", "GetImage", "CreateContainer", "CreateTask",
                      "StartTask"} = {}
    BY <2>1, RestSplits
  <2>3. TypeOK'
    BY <1>1, <1>2, <2>1 DEF TypeOK, ControlInv, Ascending, Things
  <2>4. CreatedInv'
    BY <1>1, <1>2, <2>1, <2>2 DEF CreatedInv, OffPlanInv
  <2>5. WillBeGivenBack'
    BY <1>1, <1>2, <2>1, <2>2
       DEF WillBeGivenBack, LeaseGoes, EndpointGoes, ContainerGoes, SnapshotGoes, TaskGoes,
           ConsoleGoes, CreatedInv, Agenda
  <2>6. NeededOnesRemain'
    BY <1>1, <1>2, <2>1, <2>2
       DEF NeededOnesRemain, TaskKeepsItsSnapshot, LeaseOutlivesSnapshot, WillBeGivenBack,
           TaskGoes, ContainerGoes, SnapshotGoes, Agenda, CreatedInv
  <2>7. ResizerInv'
    BY <1>1, <1>2, <2>1, <2>2 DEF ResizerInv, Agenda
  <2>8. CodeInv'
    BY <1>1, <1>2, <2>1, <2>2 DEF CodeInv, CreatedInv
  <2> QED BY <2>1, <2>3, <2>4, <2>5, <2>6, <2>7, <2>8 DEF RunnerInv
<1>4. CASE task # "stopped" /\ todo' = <<"Poll">> \o Tail(todo)
  <2>1. /\ ~OnPlan /\ ~OnPlan' /\ OffPlanInv /\ ControlInv'
        /\ Ahead' = {"Poll"} \cup (Ahead \ {"Stop"}) /\ Later = {} /\ Later' = {}
        /\ \A y \in Ahead : y = "Stop" \/ Rank["Stop"] < Rank[y]
        /\ Rank["Stop"] > 12
    <3>1. Rank["Stop"] > 12
      BY RanksAre
    <3>2. /\ At("Stop") /\ todo' = <<"Poll">> \o Tail(todo) /\ deferred' = deferred
          /\ failed' = failed
      BY <1>2, <1>4
    <3>3. Ascending(<<"Poll">>) /\ Elements(<<"Poll">>) = {"Poll"}
      BY SingleAscends, LiteralsAscend DEF Steps
    <3> QED BY <1>1, <3>1, <3>2, <3>3, RestGrows
  <2>2. /\ Ahead \cap {"CreateLease", "GetImage", "CreateContainer", "CreateTask",
                      "StartTask"} = {}
    BY <2>1, RestSplits
  <2>3. TypeOK'
    BY <1>1, <1>2, <2>1 DEF TypeOK, ControlInv, Ascending, Things
  <2>4. CreatedInv'
    BY <1>1, <1>2, <2>1, <2>2 DEF CreatedInv, OffPlanInv
  <2>5. WillBeGivenBack'
    BY <1>1, <1>2, <2>1, <2>2
       DEF WillBeGivenBack, LeaseGoes, EndpointGoes, ContainerGoes, SnapshotGoes, TaskGoes,
           ConsoleGoes, CreatedInv, Agenda
  <2>6. NeededOnesRemain'
    BY <1>1, <1>2, <2>1, <2>2
       DEF NeededOnesRemain, TaskKeepsItsSnapshot, LeaseOutlivesSnapshot, WillBeGivenBack,
           TaskGoes, ContainerGoes, SnapshotGoes, Agenda, CreatedInv
  <2>7. ResizerInv'
    BY <1>1, <1>2, <2>1, <2>2 DEF ResizerInv, Agenda
  <2>8. CodeInv'
    BY <1>1, <1>2, <2>1, <2>2 DEF CodeInv, CreatedInv
  <2> QED BY <2>1, <2>3, <2>4, <2>5, <2>6, <2>7, <2>8 DEF RunnerInv
<1> QED BY <1>3, <1>4 DEF Stop

\* SIGKILL when the grace period is over.
LEMMA PollPreserves ==
  ASSUME RunnerInv, Poll
  PROVE  RunnerInv'
<1>1. /\ TypeOK /\ ControlInv /\ CreatedInv /\ WillBeGivenBack /\ NeededOnesRemain
      /\ ResizerInv /\ CodeInv
  BY DEF RunnerInv
<1>2. /\ At("Poll") /\ deferred' = deferred /\ code' = code /\ failed' = failed /\ cfg' = cfg
      /\ killed' = killed /\ notified' = notified /\ interrupts' = interrupts /\ proxy' = proxy
      /\ raised' = raised /\ expired' = expired /\ exists' = exists /\ task' = task
      /\ taskCode' = taskCode /\ held' = held /\ status' = status /\ exitCode' = exitCode
      /\ console' = console /\ resizer' = resizer /\ resizeDone' = resizeDone
      /\ mishaps' = mishaps
  BY DEF Poll, Quietly, signalVars, worldVars, collectVars, resizeVars
<1>3. CASE todo' = Tail(todo)
  <2>1. /\ ~OnPlan /\ ~OnPlan' /\ OffPlanInv /\ ControlInv' /\ Ahead = {"Poll"} \cup Ahead'
        /\ "Poll" \notin Ahead' /\ Later = {} /\ Later' = {}
        /\ \A y \in Ahead : y = "Poll" \/ Rank["Poll"] < Rank[y]
        /\ Rank["Poll"] > 12
    <3>1. Rank["Poll"] > 12
      BY RanksAre
    <3>2. /\ At("Poll") /\ todo' = Tail(todo) /\ deferred' = deferred /\ (failed => failed')
      BY <1>2, <1>3
    <3> QED BY <1>1, <3>1, <3>2, RestShortens
  <2>2. /\ Ahead \cap {"CreateLease", "GetImage", "CreateContainer", "CreateTask",
                      "StartTask"} = {}
    BY <2>1, RestSplits
  <2>3. TypeOK'
    BY <1>1, <1>2, <2>1 DEF TypeOK, ControlInv, Ascending, Things
  <2>4. CreatedInv'
    BY <1>1, <1>2, <2>1, <2>2 DEF CreatedInv, OffPlanInv
  <2>5. WillBeGivenBack'
    BY <1>1, <1>2, <2>1, <2>2
       DEF WillBeGivenBack, LeaseGoes, EndpointGoes, ContainerGoes, SnapshotGoes, TaskGoes,
           ConsoleGoes, CreatedInv, Agenda
  <2>6. NeededOnesRemain'
    BY <1>1, <1>2, <2>1, <2>2
       DEF NeededOnesRemain, TaskKeepsItsSnapshot, LeaseOutlivesSnapshot, WillBeGivenBack,
           TaskGoes, ContainerGoes, SnapshotGoes, Agenda, CreatedInv
  <2>7. ResizerInv'
    BY <1>1, <1>2, <2>1, <2>2 DEF ResizerInv, Agenda
  <2>8. CodeInv'
    BY <1>1, <1>2, <2>1, <2>2 DEF CodeInv, CreatedInv
  <2> QED BY <2>1, <2>3, <2>4, <2>5, <2>6, <2>7, <2>8 DEF RunnerInv
<1>4. CASE task # "stopped" /\ todo' = <<"Kill">> \o Tail(todo)
  <2>1. /\ ~OnPlan /\ ~OnPlan' /\ OffPlanInv /\ ControlInv'
        /\ Ahead' = {"Kill"} \cup (Ahead \ {"Poll"}) /\ Later = {} /\ Later' = {}
        /\ \A y \in Ahead : y = "Poll" \/ Rank["Poll"] < Rank[y]
        /\ Rank["Poll"] > 12
    <3>1. Rank["Poll"] > 12
      BY RanksAre
    <3>2. /\ At("Poll") /\ todo' = <<"Kill">> \o Tail(todo) /\ deferred' = deferred
          /\ failed' = failed
      BY <1>2, <1>4
    <3>3. Ascending(<<"Kill">>) /\ Elements(<<"Kill">>) = {"Kill"}
      BY SingleAscends, LiteralsAscend DEF Steps
    <3> QED BY <1>1, <3>1, <3>2, <3>3, RestGrows
  <2>2. /\ Ahead \cap {"CreateLease", "GetImage", "CreateContainer", "CreateTask",
                      "StartTask"} = {}
    BY <2>1, RestSplits
  <2>3. TypeOK'
    BY <1>1, <1>2, <2>1 DEF TypeOK, ControlInv, Ascending, Things
  <2>4. CreatedInv'
    BY <1>1, <1>2, <2>1, <2>2 DEF CreatedInv, OffPlanInv
  <2>5. WillBeGivenBack'
    BY <1>1, <1>2, <2>1, <2>2
       DEF WillBeGivenBack, LeaseGoes, EndpointGoes, ContainerGoes, SnapshotGoes, TaskGoes,
           ConsoleGoes, CreatedInv, Agenda
  <2>6. NeededOnesRemain'
    BY <1>1, <1>2, <2>1, <2>2
       DEF NeededOnesRemain, TaskKeepsItsSnapshot, LeaseOutlivesSnapshot, WillBeGivenBack,
           TaskGoes, ContainerGoes, SnapshotGoes, Agenda, CreatedInv
  <2>7. ResizerInv'
    BY <1>1, <1>2, <2>1, <2>2 DEF ResizerInv, Agenda
  <2>8. CodeInv'
    BY <1>1, <1>2, <2>1, <2>2 DEF CodeInv, CreatedInv
  <2> QED BY <2>1, <2>3, <2>4, <2>5, <2>6, <2>7, <2>8 DEF RunnerInv
<1> QED BY <1>3, <1>4 DEF Poll

\* A task that is killed stops.
LEMMA KillPreserves ==
  ASSUME RunnerInv, Kill
  PROVE  RunnerInv'
<1>1. /\ TypeOK /\ ControlInv /\ CreatedInv /\ WillBeGivenBack /\ NeededOnesRemain
      /\ ResizerInv /\ CodeInv
  BY DEF RunnerInv
<1>2. /\ Proceed("Kill") /\ exists' = exists /\ cfg' = cfg /\ killed' = killed
      /\ notified' = notified /\ interrupts' = interrupts /\ proxy' = proxy /\ raised' = raised
      /\ expired' = expired /\ held' = held /\ status' = status /\ exitCode' = exitCode
      /\ console' = console /\ resizer' = resizer /\ resizeDone' = resizeDone
      /\ mishaps' = mishaps
  BY DEF Kill, Quietly, signalVars, collectVars, resizeVars
<1>3. CASE UNCHANGED <<task, taskCode>>
  <2>1. /\ code' = code /\ failed' = failed /\ task' = task /\ taskCode' = taskCode
    BY <1>2, <1>3 DEF Proceed
  <2>2. /\ ~OnPlan /\ ~OnPlan' /\ OffPlanInv /\ ControlInv' /\ Ahead = {"Kill"} \cup Ahead'
        /\ "Kill" \notin Ahead' /\ Later = {} /\ Later' = {}
        /\ \A y \in Ahead : y = "Kill" \/ Rank["Kill"] < Rank[y]
        /\ Rank["Kill"] > 12
    <3>1. Rank["Kill"] > 12
      BY RanksAre
    <3>2. /\ At("Kill") /\ todo' = Tail(todo) /\ deferred' = deferred /\ (failed => failed')
      BY <1>2, <1>3 DEF Proceed
    <3> QED BY <1>1, <3>1, <3>2, RestShortens
  <2>3. /\ Ahead \cap {"CreateLease", "GetImage", "CreateContainer", "CreateTask",
                      "StartTask"} = {}
    BY <2>2, RestSplits
  <2>4. TypeOK'
    BY <1>1, <1>2, <2>1, <2>2 DEF TypeOK, ControlInv, Ascending, Things
  <2>5. CreatedInv'
    BY <1>1, <1>2, <2>1, <2>2, <2>3 DEF CreatedInv, OffPlanInv
  <2>6. WillBeGivenBack'
    BY <1>1, <1>2, <2>1, <2>2, <2>3
       DEF WillBeGivenBack, LeaseGoes, EndpointGoes, ContainerGoes, SnapshotGoes, TaskGoes,
           ConsoleGoes, CreatedInv, Agenda
  <2>7. NeededOnesRemain'
    BY <1>1, <1>2, <2>1, <2>2, <2>3
       DEF NeededOnesRemain, TaskKeepsItsSnapshot, LeaseOutlivesSnapshot, WillBeGivenBack,
           TaskGoes, ContainerGoes, SnapshotGoes, Agenda, CreatedInv
  <2>8. ResizerInv'
    BY <1>1, <1>2, <2>1, <2>2, <2>3 DEF ResizerInv, Agenda
  <2>9. CodeInv'
    BY <1>1, <1>2, <2>1, <2>2, <2>3 DEF CodeInv, CreatedInv
  <2> QED BY <2>2, <2>4, <2>5, <2>6, <2>7, <2>8, <2>9 DEF RunnerInv
<1>4. CASE task = "running" /\ task' = "stopped" /\ taskCode' \in Codes
  <2>1. /\ code' = code /\ failed' = failed /\ task = "running" /\ task' = "stopped"
        /\ taskCode' \in Codes
    BY <1>2, <1>4 DEF Proceed
  <2>2. /\ ~OnPlan /\ ~OnPlan' /\ OffPlanInv /\ ControlInv' /\ Ahead = {"Kill"} \cup Ahead'
        /\ "Kill" \notin Ahead' /\ Later = {} /\ Later' = {}
        /\ \A y \in Ahead : y = "Kill" \/ Rank["Kill"] < Rank[y]
        /\ Rank["Kill"] > 12
    <3>1. Rank["Kill"] > 12
      BY RanksAre
    <3>2. /\ At("Kill") /\ todo' = Tail(todo) /\ deferred' = deferred /\ (failed => failed')
      BY <1>2, <1>4 DEF Proceed
    <3> QED BY <1>1, <3>1, <3>2, RestShortens
  <2>3. /\ Ahead \cap {"CreateLease", "GetImage", "CreateContainer", "CreateTask",
                      "StartTask"} = {}
    BY <2>2, RestSplits
  <2>4. TypeOK'
    BY <1>1, <1>2, <2>1, <2>2 DEF TypeOK, ControlInv, Ascending, Things
  <2>5. CreatedInv'
    BY <1>1, <1>2, <2>1, <2>2, <2>3 DEF CreatedInv, OffPlanInv
  <2>6. WillBeGivenBack'
    BY <1>1, <1>2, <2>1, <2>2, <2>3
       DEF WillBeGivenBack, LeaseGoes, EndpointGoes, ContainerGoes, SnapshotGoes, TaskGoes,
           ConsoleGoes, CreatedInv, Agenda
  <2>7. NeededOnesRemain'
    BY <1>1, <1>2, <2>1, <2>2, <2>3
       DEF NeededOnesRemain, TaskKeepsItsSnapshot, LeaseOutlivesSnapshot, WillBeGivenBack,
           TaskGoes, ContainerGoes, SnapshotGoes, Agenda, CreatedInv
  <2>8. ResizerInv'
    BY <1>1, <1>2, <2>1, <2>2, <2>3 DEF ResizerInv, Agenda
  <2>9. CodeInv'
    BY <1>1, <1>2, <2>1, <2>2, <2>3 DEF CodeInv, CreatedInv
  <2> QED BY <2>2, <2>4, <2>5, <2>6, <2>7, <2>8, <2>9 DEF RunnerInv
<1> QED BY <1>3, <1>4 DEF Kill

\* When Start rolls the task back nothing else needs it.
LEMMA DropTaskPreserves ==
  ASSUME RunnerInv, DropTask
  PROVE  RunnerInv'
<1>1. /\ TypeOK /\ ControlInv /\ CreatedInv /\ WillBeGivenBack /\ NeededOnesRemain
      /\ ResizerInv /\ CodeInv
  BY DEF RunnerInv
<1>2. /\ Proceed("DropTask") /\ KillAndDelete /\ exists' = exists /\ taskCode' = taskCode
      /\ cfg' = cfg /\ killed' = killed /\ notified' = notified /\ interrupts' = interrupts
      /\ proxy' = proxy /\ raised' = raised /\ expired' = expired /\ held' = held
      /\ status' = status /\ exitCode' = exitCode /\ console' = console /\ resizer' = resizer
      /\ resizeDone' = resizeDone
  BY DEF DropTask, Quietly, signalVars, collectVars, resizeVars
<1>3. CASE task' = "none" /\ UNCHANGED mishaps
  <2>1. /\ code' = code /\ failed' = failed /\ task' = "none" /\ mishaps' = mishaps
    BY <1>2, <1>3 DEF Proceed
  <2>2. /\ ~OnPlan /\ ~OnPlan' /\ OffPlanInv /\ ControlInv' /\ Ahead = {"DropTask"} \cup Ahead'
        /\ "DropTask" \notin Ahead' /\ Later = {} /\ Later' = {}
        /\ \A y \in Ahead : y = "DropTask" \/ Rank["DropTask"] < Rank[y]
        /\ Rank["DropTask"] > 12
    <3>1. Rank["DropTask"] > 12
      BY RanksAre
    <3>2. /\ At("DropTask") /\ todo' = Tail(todo) /\ deferred' = deferred /\ (failed => failed')
      BY <1>2, <1>3 DEF Proceed
    <3> QED BY <1>1, <3>1, <3>2, RestShortens
  <2>3. /\ Ahead \cap {"CreateLease", "GetImage", "CreateContainer", "CreateTask",
                      "StartTask"} = {}
    BY <2>2, RestSplits
  <2>4. TypeOK'
    BY <1>1, <1>2, <2>1, <2>2 DEF TypeOK, ControlInv, Ascending, Things
  <2>5. CreatedInv'
    BY <1>1, <1>2, <2>1, <2>2, <2>3 DEF CreatedInv, OffPlanInv
  <2>6. WillBeGivenBack'
    BY <1>1, <1>2, <2>1, <2>2, <2>3
       DEF WillBeGivenBack, LeaseGoes, EndpointGoes, ContainerGoes, SnapshotGoes, TaskGoes,
           ConsoleGoes, CreatedInv, Agenda
  <2>7. NeededOnesRemain'
    BY <1>1, <1>2, <2>1, <2>2, <2>3
       DEF NeededOnesRemain, TaskKeepsItsSnapshot, LeaseOutlivesSnapshot, WillBeGivenBack,
           TaskGoes, ContainerGoes, SnapshotGoes, Agenda, CreatedInv
  <2>8. ResizerInv'
    BY <1>1, <1>2, <2>1, <2>2, <2>3 DEF ResizerInv, Agenda
  <2>9. CodeInv'
    BY <1>1, <1>2, <2>1, <2>2, <2>3 DEF CodeInv, CreatedInv
  <2> QED BY <2>2, <2>4, <2>5, <2>6, <2>7, <2>8, <2>9 DEF RunnerInv
<1>4. CASE UndoFailed("task") /\ task' \in {task, IF task = "running" THEN "stopped" ELSE task}
  <2>1. /\ code' = code /\ failed' = failed
        /\ (task' = task \/ (task = "running" /\ task' = "stopped"))
        /\ mishaps' = mishaps \cup {"task"} /\ mishaps' # {}
    BY <1>2, <1>4 DEF Proceed, UndoFailed
  <2>2. /\ ~OnPlan /\ ~OnPlan' /\ OffPlanInv /\ ControlInv' /\ Ahead = {"DropTask"} \cup Ahead'
        /\ "DropTask" \notin Ahead' /\ Later = {} /\ Later' = {}
        /\ \A y \in Ahead : y = "DropTask" \/ Rank["DropTask"] < Rank[y]
        /\ Rank["DropTask"] > 12
    <3>1. Rank["DropTask"] > 12
      BY RanksAre
    <3>2. /\ At("DropTask") /\ todo' = Tail(todo) /\ deferred' = deferred /\ (failed => failed')
      BY <1>2, <1>4 DEF Proceed
    <3> QED BY <1>1, <3>1, <3>2, RestShortens
  <2>3. /\ Ahead \cap {"CreateLease", "GetImage", "CreateContainer", "CreateTask",
                      "StartTask"} = {}
    BY <2>2, RestSplits
  <2>4. TypeOK'
    BY <1>1, <1>2, <2>1, <2>2 DEF TypeOK, ControlInv, Ascending, Things
  <2>5. CreatedInv'
    BY <1>1, <1>2, <2>1, <2>2, <2>3 DEF CreatedInv, OffPlanInv
  <2>6. WillBeGivenBack'
    BY <1>1, <1>2, <2>1, <2>2, <2>3
       DEF WillBeGivenBack, LeaseGoes, EndpointGoes, ContainerGoes, SnapshotGoes, TaskGoes,
           ConsoleGoes, CreatedInv, Agenda
  <2>7. NeededOnesRemain'
    BY <1>1, <1>2, <2>1, <2>2, <2>3
       DEF NeededOnesRemain, TaskKeepsItsSnapshot, LeaseOutlivesSnapshot, WillBeGivenBack,
           TaskGoes, ContainerGoes, SnapshotGoes, Agenda, CreatedInv
  <2>8. ResizerInv'
    BY <1>1, <1>2, <2>1, <2>2, <2>3 DEF ResizerInv, Agenda
  <2>9. CodeInv'
    BY <1>1, <1>2, <2>1, <2>2, <2>3 DEF CodeInv, CreatedInv
  <2> QED BY <2>2, <2>4, <2>5, <2>6, <2>7, <2>8, <2>9 DEF RunnerInv
<1> QED BY <1>3, <1>4 DEF DropTask, KillAndDelete

\* The snapshot of a container that could not be created has no task.
LEMMA DropSnapshotPreserves ==
  ASSUME RunnerInv, DropSnapshot
  PROVE  RunnerInv'
<1>1. /\ TypeOK /\ ControlInv /\ CreatedInv /\ WillBeGivenBack /\ NeededOnesRemain
      /\ ResizerInv /\ CodeInv
  BY DEF RunnerInv
<1>2. /\ Proceed("DropSnapshot") /\ task' = task /\ taskCode' = taskCode /\ cfg' = cfg
      /\ killed' = killed /\ notified' = notified /\ interrupts' = interrupts /\ proxy' = proxy
      /\ raised' = raised /\ expired' = expired /\ held' = held /\ status' = status
      /\ exitCode' = exitCode /\ console' = console /\ resizer' = resizer
      /\ resizeDone' = resizeDone
  BY DEF DropSnapshot, Quietly, signalVars, collectVars, resizeVars
<1>3. CASE exists' = exists \ {"snapshot"} /\ UNCHANGED mishaps
  <2>1. /\ code' = code /\ failed' = failed /\ exists' = exists \ {"snapshot"}
        /\ mishaps' = mishaps
    BY <1>2, <1>3 DEF Proceed
  <2>2. /\ ~OnPlan /\ ~OnPlan' /\ OffPlanInv /\ ControlInv'
        /\ Ahead = {"DropSnapshot"} \cup Ahead' /\ "DropSnapshot" \notin Ahead' /\ Later = {}
        /\ Later' = {} /\ \A y \in Ahead : y = "DropSnapshot" \/ Rank["DropSnapshot"] < Rank[y]
        /\ Rank["DropSnapshot"] > 12
    <3>1. Rank["DropSnapshot"] > 12
      BY RanksAre
    <3>2. /\ At("DropSnapshot") /\ todo' = Tail(todo) /\ deferred' = deferred
          /\ (failed => failed')
      BY <1>2, <1>3 DEF Proceed
    <3> QED BY <1>1, <3>1, <3>2, RestShortens
  <2>3. /\ Ahead \cap {"CreateLease", "GetImage", "CreateContainer", "CreateTask",
                      "StartTask"} = {}
        /\ Ahead \cap {"DropTask"} = {}
    BY <2>2, RestSplits
  <2>4. TypeOK'
    BY <1>1, <1>2, <2>1, <2>2 DEF TypeOK, ControlInv, Ascending, Things
  <2>5. CreatedInv'
    BY <1>1, <1>2, <2>1, <2>2, <2>3 DEF CreatedInv, OffPlanInv
  <2>6. WillBeGivenBack'
    BY <1>1, <1>2, <2>1, <2>2, <2>3
       DEF WillBeGivenBack, LeaseGoes, EndpointGoes, ContainerGoes, SnapshotGoes, TaskGoes,
           ConsoleGoes, CreatedInv, Agenda
  <2>7. NeededOnesRemain'
    BY <1>1, <1>2, <2>1, <2>2, <2>3
       DEF NeededOnesRemain, TaskKeepsItsSnapshot, LeaseOutlivesSnapshot, WillBeGivenBack,
           TaskGoes, ContainerGoes, SnapshotGoes, Agenda, CreatedInv
  <2>8. ResizerInv'
    BY <1>1, <1>2, <2>1, <2>2, <2>3 DEF ResizerInv, Agenda
  <2>9. CodeInv'
    BY <1>1, <1>2, <2>1, <2>2, <2>3 DEF CodeInv, CreatedInv
  <2> QED BY <2>2, <2>4, <2>5, <2>6, <2>7, <2>8, <2>9 DEF RunnerInv
<1>4. CASE UndoFailed("snapshot") /\ UNCHANGED exists
  <2>1. /\ code' = code /\ failed' = failed /\ exists' = exists
        /\ mishaps' = mishaps \cup {"snapshot"} /\ mishaps' # {}
    BY <1>2, <1>4 DEF Proceed, UndoFailed
  <2>2. /\ ~OnPlan /\ ~OnPlan' /\ OffPlanInv /\ ControlInv'
        /\ Ahead = {"DropSnapshot"} \cup Ahead' /\ "DropSnapshot" \notin Ahead' /\ Later = {}
        /\ Later' = {} /\ \A y \in Ahead : y = "DropSnapshot" \/ Rank["DropSnapshot"] < Rank[y]
        /\ Rank["DropSnapshot"] > 12
    <3>1. Rank["DropSnapshot"] > 12
      BY RanksAre
    <3>2. /\ At("DropSnapshot") /\ todo' = Tail(todo) /\ deferred' = deferred
          /\ (failed => failed')
      BY <1>2, <1>4 DEF Proceed
    <3> QED BY <1>1, <3>1, <3>2, RestShortens
  <2>3. /\ Ahead \cap {"CreateLease", "GetImage", "CreateContainer", "CreateTask",
                      "StartTask"} = {}
        /\ Ahead \cap {"DropTask"} = {}
    BY <2>2, RestSplits
  <2>4. TypeOK'
    BY <1>1, <1>2, <2>1, <2>2 DEF TypeOK, ControlInv, Ascending, Things
  <2>5. CreatedInv'
    BY <1>1, <1>2, <2>1, <2>2, <2>3 DEF CreatedInv, OffPlanInv
  <2>6. WillBeGivenBack'
    BY <1>1, <1>2, <2>1, <2>2, <2>3
       DEF WillBeGivenBack, LeaseGoes, EndpointGoes, ContainerGoes, SnapshotGoes, TaskGoes,
           ConsoleGoes, CreatedInv, Agenda
  <2>7. NeededOnesRemain'
    BY <1>1, <1>2, <2>1, <2>2, <2>3
       DEF NeededOnesRemain, TaskKeepsItsSnapshot, LeaseOutlivesSnapshot, WillBeGivenBack,
           TaskGoes, ContainerGoes, SnapshotGoes, Agenda, CreatedInv
  <2>8. ResizerInv'
    BY <1>1, <1>2, <2>1, <2>2, <2>3 DEF ResizerInv, Agenda
  <2>9. CodeInv'
    BY <1>1, <1>2, <2>1, <2>2, <2>3 DEF CodeInv, CreatedInv
  <2> QED BY <2>2, <2>4, <2>5, <2>6, <2>7, <2>8, <2>9 DEF RunnerInv
<1> QED BY <1>3, <1>4 DEF DropSnapshot

\* The lease of a failed Prepare protects nothing.
LEMMA DropLeasePreserves ==
  ASSUME RunnerInv, DropLease
  PROVE  RunnerInv'
<1>1. /\ TypeOK /\ ControlInv /\ CreatedInv /\ WillBeGivenBack /\ NeededOnesRemain
      /\ ResizerInv /\ CodeInv
  BY DEF RunnerInv
<1>2. /\ Proceed("DropLease") /\ task' = task /\ taskCode' = taskCode /\ cfg' = cfg
      /\ killed' = killed /\ notified' = notified /\ interrupts' = interrupts /\ proxy' = proxy
      /\ raised' = raised /\ expired' = expired /\ held' = held /\ status' = status
      /\ exitCode' = exitCode /\ console' = console /\ resizer' = resizer
      /\ resizeDone' = resizeDone
  BY DEF DropLease, Quietly, signalVars, collectVars, resizeVars
<1>3. CASE exists' = exists \ {"lease"} /\ UNCHANGED mishaps
  <2>1. /\ code' = code /\ failed' = failed /\ exists' = exists \ {"lease"}
        /\ mishaps' = mishaps
    BY <1>2, <1>3 DEF Proceed
  <2>2. /\ ~OnPlan /\ ~OnPlan' /\ OffPlanInv /\ ControlInv' /\ Ahead = {"DropLease"} \cup Ahead'
        /\ "DropLease" \notin Ahead' /\ Later = {} /\ Later' = {}
        /\ \A y \in Ahead : y = "DropLease" \/ Rank["DropLease"] < Rank[y]
        /\ Rank["DropLease"] > 12
    <3>1. Rank["DropLease"] > 12
      BY RanksAre
    <3>2. /\ At("DropLease") /\ todo' = Tail(todo) /\ deferred' = deferred
          /\ (failed => failed')
      BY <1>2, <1>3 DEF Proceed
    <3> QED BY <1>1, <3>1, <3>2, RestShortens
  <2>3. /\ Ahead \cap {"CreateLease", "GetImage", "CreateContainer", "CreateTask",
                      "StartTask"} = {}
        /\ Ahead \cap {"DropTask", "DropSnapshot"} = {}
    BY <2>2, RestSplits
  <2>4. TypeOK'
    BY <1>1, <1>2, <2>1, <2>2 DEF TypeOK, ControlInv, Ascending, Things
  <2>5. CreatedInv'
    BY <1>1, <1>2, <2>1, <2>2, <2>3 DEF CreatedInv, OffPlanInv
  <2>6. WillBeGivenBack'
    BY <1>1, <1>2, <2>1, <2>2, <2>3
       DEF WillBeGivenBack, LeaseGoes, EndpointGoes, ContainerGoes, SnapshotGoes, TaskGoes,
           ConsoleGoes, CreatedInv, Agenda
  <2>7. NeededOnesRemain'
    BY <1>1, <1>2, <2>1, <2>2, <2>3
       DEF NeededOnesRemain, TaskKeepsItsSnapshot, LeaseOutlivesSnapshot, WillBeGivenBack,
           TaskGoes, ContainerGoes, SnapshotGoes, Agenda, CreatedInv
  <2>8. ResizerInv'
    BY <1>1, <1>2, <2>1, <2>2, <2>3 DEF ResizerInv, Agenda
  <2>9. CodeInv'
    BY <1>1, <1>2, <2>1, <2>2, <2>3 DEF CodeInv, CreatedInv
  <2> QED BY <2>2, <2>4, <2>5, <2>6, <2>7, <2>8, <2>9 DEF RunnerInv
<1>4. CASE UndoFailed("lease") /\ UNCHANGED exists
  <2>1. /\ code' = code /\ failed' = failed /\ exists' = exists
        /\ mishaps' = mishaps \cup {"lease"} /\ mishaps' # {}
    BY <1>2, <1>4 DEF Proceed, UndoFailed
  <2>2. /\ ~OnPlan /\ ~OnPlan' /\ OffPlanInv /\ ControlInv' /\ Ahead = {"DropLease"} \cup Ahead'
        /\ "DropLease" \notin Ahead' /\ Later = {} /\ Later' = {}
        /\ \A y \in Ahead : y = "DropLease" \/ Rank["DropLease"] < Rank[y]
        /\ Rank["DropLease"] > 12
    <3>1. Rank["DropLease"] > 12
      BY RanksAre
    <3>2. /\ At("DropLease") /\ todo' = Tail(todo) /\ deferred' = deferred
          /\ (failed => failed')
      BY <1>2, <1>4 DEF Proceed
    <3> QED BY <1>1, <3>1, <3>2, RestShortens
  <2>3. /\ Ahead \cap {"CreateLease", "GetImage", "CreateContainer", "CreateTask",
                      "StartTask"} = {}
        /\ Ahead \cap {"DropTask", "DropSnapshot"} = {}
    BY <2>2, RestSplits
  <2>4. TypeOK'
    BY <1>1, <1>2, <2>1, <2>2 DEF TypeOK, ControlInv, Ascending, Things
  <2>5. CreatedInv'
    BY <1>1, <1>2, <2>1, <2>2, <2>3 DEF CreatedInv, OffPlanInv
  <2>6. WillBeGivenBack'
    BY <1>1, <1>2, <2>1, <2>2, <2>3
       DEF WillBeGivenBack, LeaseGoes, EndpointGoes, ContainerGoes, SnapshotGoes, TaskGoes,
           ConsoleGoes, CreatedInv, Agenda
  <2>7. NeededOnesRemain'
    BY <1>1, <1>2, <2>1, <2>2, <2>3
       DEF NeededOnesRemain, TaskKeepsItsSnapshot, LeaseOutlivesSnapshot, WillBeGivenBack,
           TaskGoes, ContainerGoes, SnapshotGoes, Agenda, CreatedInv
  <2>8. ResizerInv'
    BY <1>1, <1>2, <2>1, <2>2, <2>3 DEF ResizerInv, Agenda
  <2>9. CodeInv'
    BY <1>1, <1>2, <2>1, <2>2, <2>3 DEF CodeInv, CreatedInv
  <2> QED BY <2>2, <2>4, <2>5, <2>6, <2>7, <2>8, <2>9 DEF RunnerInv
<1> QED BY <1>3, <1>4 DEF DropLease

------------------------------------------------------------------------------
(* The deferred calls.                                                     *)

\* Interrupts are not relayed any more.
LEMMA StopSignalsPreserves ==
  ASSUME RunnerInv, StopSignals
  PROVE  RunnerInv'
<1>1. /\ TypeOK /\ ControlInv /\ CreatedInv /\ WillBeGivenBack /\ NeededOnesRemain
      /\ ResizerInv /\ CodeInv
  BY DEF RunnerInv
<1>2. /\ notified' = FALSE /\ cfg' = cfg /\ killed' = killed /\ interrupts' = interrupts
      /\ proxy' = proxy /\ raised' = raised /\ expired' = expired /\ exists' = exists
      /\ task' = task /\ taskCode' = taskCode /\ held' = held /\ status' = status
      /\ exitCode' = exitCode /\ console' = console /\ resizer' = resizer
      /\ resizeDone' = resizeDone /\ mishaps' = mishaps
  BY DEF StopSignals, worldVars, collectVars, resizeVars
<1>3. CASE Proceed("StopSignals")
  <2>1. /\ code' = code /\ failed' = failed
    BY <1>3 DEF Proceed
  <2>2. /\ ~OnPlan /\ ~OnPlan' /\ OffPlanInv /\ ControlInv'
        /\ Ahead = {"StopSignals"} \cup Ahead' /\ "StopSignals" \notin Ahead' /\ Later = {}
        /\ Later' = {} /\ \A y \in Ahead : y = "StopSignals" \/ Rank["StopSignals"] < Rank[y]
        /\ Rank["StopSignals"] > 12
    <3>1. Rank["StopSignals"] > 12
      BY RanksAre
    <3>2. /\ At("StopSignals") /\ todo' = Tail(todo) /\ deferred' = deferred
          /\ (failed => failed')
      BY <1>2, <1>3 DEF Proceed
    <3> QED BY <1>1, <3>1, <3>2, RestShortens
  <2>3. /\ Ahead \cap {"CreateLease", "GetImage", "CreateContainer", "CreateTask",
                      "StartTask"} = {}
        /\ Ahead \cap {"DropTask", "DropSnapshot", "DropLease"} = {}
    BY <2>2, RestSplits
  <2>4. TypeOK'
    <3>1. todo' \in Seq(Steps) /\ deferred' \in Seq(Steps)
      BY <2>2 DEF ControlInv, Ascending
    <3>2. failed' \in BOOLEAN /\ notified' \in BOOLEAN
      BY <1>1, <1>2, <2>1 DEF TypeOK
    <3>3. exists' \subseteq Things
      BY <1>1, <1>2, <2>1 DEF TypeOK, Things
    <3> QED BY <3>1, <3>2, <3>3, <1>1, <1>2, <2>1 DEF TypeOK
  <2>5. CreatedInv'
    BY <1>1, <1>2, <2>1, <2>2, <2>3 DEF CreatedInv, OffPlanInv
  <2>6. WillBeGivenBack'
    BY <1>1, <1>2, <2>1, <2>2, <2>3
       DEF WillBeGivenBack, LeaseGoes, EndpointGoes, ContainerGoes, SnapshotGoes, TaskGoes,
           ConsoleGoes, CreatedInv, Agenda
  <2>7. NeededOnesRemain'
    BY <1>1, <1>2, <2>1, <2>2, <2>3
       DEF NeededOnesRemain, TaskKeepsItsSnapshot, LeaseOutlivesSnapshot, WillBeGivenBack,
           TaskGoes, ContainerGoes, SnapshotGoes, Agenda, CreatedInv
  <2>8. ResizerInv'
    BY <1>1, <1>2, <2>1, <2>2, <2>3 DEF ResizerInv, Agenda
  <2>9. CodeInv'
    BY <1>1, <1>2, <2>1, <2>2, <2>3 DEF CodeInv, CreatedInv
  <2> QED BY <2>2, <2>4, <2>5, <2>6, <2>7, <2>8, <2>9 DEF RunnerInv
<1> QED BY <1>3 DEF StopSignals

\* The resize goroutine is told to end.
LEMMA CloseResizePreserves ==
  ASSUME RunnerInv, CloseResize
  PROVE  RunnerInv'
<1>1. /\ TypeOK /\ ControlInv /\ CreatedInv /\ WillBeGivenBack /\ NeededOnesRemain
      /\ ResizerInv /\ CodeInv
  BY DEF RunnerInv
<1>2. /\ resizeDone' = TRUE /\ resizer' = resizer /\ cfg' = cfg /\ killed' = killed
      /\ notified' = notified /\ interrupts' = interrupts /\ proxy' = proxy /\ raised' = raised
      /\ expired' = expired /\ exists' = exists /\ task' = task /\ taskCode' = taskCode
      /\ held' = held /\ status' = status /\ exitCode' = exitCode /\ console' = console
      /\ mishaps' = mishaps
  BY DEF CloseResize, Quietly, signalVars, worldVars, collectVars
<1>3. CASE Proceed("CloseResize")
  <2>1. /\ code' = code /\ failed' = failed
    BY <1>3 DEF Proceed
  <2>2. /\ ~OnPlan /\ ~OnPlan' /\ OffPlanInv /\ ControlInv'
        /\ Ahead = {"CloseResize"} \cup Ahead' /\ "CloseResize" \notin Ahead' /\ Later = {}
        /\ Later' = {} /\ \A y \in Ahead : y = "CloseResize" \/ Rank["CloseResize"] < Rank[y]
        /\ Rank["CloseResize"] > 12
    <3>1. Rank["CloseResize"] > 12
      BY RanksAre
    <3>2. /\ At("CloseResize") /\ todo' = Tail(todo) /\ deferred' = deferred
          /\ (failed => failed')
      BY <1>2, <1>3 DEF Proceed
    <3> QED BY <1>1, <3>1, <3>2, RestShortens
  <2>3. /\ Ahead \cap {"CreateLease", "GetImage", "CreateContainer", "CreateTask",
                      "StartTask"} = {}
        /\ Ahead \cap {"DropTask", "DropSnapshot", "DropLease"} = {}
    BY <2>2, RestSplits
  <2>4. TypeOK'
    BY <1>1, <1>2, <2>1, <2>2 DEF TypeOK, ControlInv, Ascending, Things
  <2>5. CreatedInv'
    BY <1>1, <1>2, <2>1, <2>2, <2>3 DEF CreatedInv, OffPlanInv
  <2>6. WillBeGivenBack'
    BY <1>1, <1>2, <2>1, <2>2, <2>3
       DEF WillBeGivenBack, LeaseGoes, EndpointGoes, ContainerGoes, SnapshotGoes, TaskGoes,
           ConsoleGoes, CreatedInv, Agenda
  <2>7. NeededOnesRemain'
    BY <1>1, <1>2, <2>1, <2>2, <2>3
       DEF NeededOnesRemain, TaskKeepsItsSnapshot, LeaseOutlivesSnapshot, WillBeGivenBack,
           TaskGoes, ContainerGoes, SnapshotGoes, Agenda, CreatedInv
  <2>8. ResizerInv'
    BY <1>1, <1>2, <2>1, <2>2, <2>3 DEF ResizerInv, Agenda
  <2>9. CodeInv'
    BY <1>1, <1>2, <2>1, <2>2, <2>3 DEF CodeInv, CreatedInv
  <2> QED BY <2>2, <2>4, <2>5, <2>6, <2>7, <2>8, <2>9 DEF RunnerInv
<1> QED BY <1>3 DEF CloseResize

\* And awaited.
LEMMA AwaitResizePreserves ==
  ASSUME RunnerInv, AwaitResize
  PROVE  RunnerInv'
<1>1. /\ TypeOK /\ ControlInv /\ CreatedInv /\ WillBeGivenBack /\ NeededOnesRemain
      /\ ResizerInv /\ CodeInv
  BY DEF RunnerInv
<1>2. /\ resizer \in {"none", "ended"} /\ cfg' = cfg /\ killed' = killed /\ notified' = notified
      /\ interrupts' = interrupts /\ proxy' = proxy /\ raised' = raised /\ expired' = expired
      /\ exists' = exists /\ task' = task /\ taskCode' = taskCode /\ held' = held
      /\ status' = status /\ exitCode' = exitCode /\ console' = console /\ resizer' = resizer
      /\ resizeDone' = resizeDone /\ mishaps' = mishaps
  BY DEF AwaitResize, Quietly, signalVars, worldVars, collectVars, resizeVars
<1>3. CASE Proceed("AwaitResize")
  <2>1. /\ code' = code /\ failed' = failed
    BY <1>3 DEF Proceed
  <2>2. /\ ~OnPlan /\ ~OnPlan' /\ OffPlanInv /\ ControlInv'
        /\ Ahead = {"AwaitResize"} \cup Ahead' /\ "AwaitResize" \notin Ahead' /\ Later = {}
        /\ Later' = {} /\ \A y \in Ahead : y = "AwaitResize" \/ Rank["AwaitResize"] < Rank[y]
        /\ Rank["AwaitResize"] > 12
    <3>1. Rank["AwaitResize"] > 12
      BY RanksAre
    <3>2. /\ At("AwaitResize") /\ todo' = Tail(todo) /\ deferred' = deferred
          /\ (failed => failed')
      BY <1>2, <1>3 DEF Proceed
    <3> QED BY <1>1, <3>1, <3>2, RestShortens
  <2>3. /\ Ahead \cap {"CreateLease", "GetImage", "CreateContainer", "CreateTask",
                      "StartTask"} = {}
        /\ Ahead \cap {"DropTask", "DropSnapshot", "DropLease"} = {}
    BY <2>2, RestSplits
  <2>4. TypeOK'
    BY <1>1, <1>2, <2>1, <2>2 DEF TypeOK, ControlInv, Ascending, Things
  <2>5. CreatedInv'
    BY <1>1, <1>2, <2>1, <2>2, <2>3 DEF CreatedInv, OffPlanInv
  <2>6. WillBeGivenBack'
    BY <1>1, <1>2, <2>1, <2>2, <2>3
       DEF WillBeGivenBack, LeaseGoes, EndpointGoes, ContainerGoes, SnapshotGoes, TaskGoes,
           ConsoleGoes, CreatedInv, Agenda
  <2>7. NeededOnesRemain'
    BY <1>1, <1>2, <2>1, <2>2, <2>3
       DEF NeededOnesRemain, TaskKeepsItsSnapshot, LeaseOutlivesSnapshot, WillBeGivenBack,
           TaskGoes, ContainerGoes, SnapshotGoes, Agenda, CreatedInv
  <2>8. ResizerInv'
    BY <1>1, <1>2, <2>1, <2>2, <2>3 DEF ResizerInv, Agenda
  <2>9. CodeInv'
    BY <1>1, <1>2, <2>1, <2>2, <2>3 DEF CodeInv, CreatedInv
  <2> QED BY <2>2, <2>4, <2>5, <2>6, <2>7, <2>8, <2>9 DEF RunnerInv
<1> QED BY <1>3 DEF AwaitResize

\* The console is given back when no goroutine uses it.
LEMMA RestoreConsolePreserves ==
  ASSUME RunnerInv, RestoreConsole
  PROVE  RunnerInv'
<1>1. /\ TypeOK /\ ControlInv /\ CreatedInv /\ WillBeGivenBack /\ NeededOnesRemain
      /\ ResizerInv /\ CodeInv
  BY DEF RunnerInv
<1>2. /\ cfg' = cfg /\ killed' = killed /\ notified' = notified /\ interrupts' = interrupts
      /\ proxy' = proxy /\ raised' = raised /\ expired' = expired /\ exists' = exists
      /\ task' = task /\ taskCode' = taskCode /\ held' = held /\ status' = status
      /\ exitCode' = exitCode /\ resizer' = resizer /\ resizeDone' = resizeDone
  BY DEF RestoreConsole, Quietly, signalVars, worldVars, collectVars, resizeVars
<1>3. CASE Proceed("RestoreConsole") /\ console' = "normal" /\ UNCHANGED mishaps
  <2>1. /\ code' = code /\ failed' = failed /\ console' = "normal" /\ mishaps' = mishaps
    BY <1>3 DEF Proceed
  <2>2. /\ ~OnPlan /\ ~OnPlan' /\ OffPlanInv /\ ControlInv'
        /\ Ahead = {"RestoreConsole"} \cup Ahead' /\ "RestoreConsole" \notin Ahead'
        /\ Later = {} /\ Later' = {}
        /\ \A y \in Ahead : y = "RestoreConsole" \/ Rank["RestoreConsole"] < Rank[y]
        /\ Rank["RestoreConsole"] > 12
    <3>1. Rank["RestoreConsole"] > 12
      BY RanksAre
    <3>2. /\ At("RestoreConsole") /\ todo' = Tail(todo) /\ deferred' = deferred
          /\ (failed => failed')
      BY <1>2, <1>3 DEF Proceed
    <3> QED BY <1>1, <3>1, <3>2, RestShortens
  <2>3. /\ Ahead \cap {"CreateLease", "GetImage", "CreateContainer", "CreateTask",
                      "StartTask"} = {}
        /\ Ahead \cap {"DropTask", "DropSnapshot", "DropLease", "AwaitResize"} = {}
    BY <2>2, RestSplits
  <2>4. TypeOK'
    BY <1>1, <1>2, <2>1, <2>2 DEF TypeOK, ControlInv, Ascending, Things
  <2>5. CreatedInv'
    BY <1>1, <1>2, <2>1, <2>2, <2>3 DEF CreatedInv, OffPlanInv
  <2>6. WillBeGivenBack'
    BY <1>1, <1>2, <2>1, <2>2, <2>3
       DEF WillBeGivenBack, LeaseGoes, EndpointGoes, ContainerGoes, SnapshotGoes, TaskGoes,
           ConsoleGoes, CreatedInv, Agenda
  <2>7. NeededOnesRemain'
    BY <1>1, <1>2, <2>1, <2>2, <2>3
       DEF NeededOnesRemain, TaskKeepsItsSnapshot, LeaseOutlivesSnapshot, WillBeGivenBack,
           TaskGoes, ContainerGoes, SnapshotGoes, Agenda, CreatedInv
  <2>8. ResizerInv'
    BY <1>1, <1>2, <2>1, <2>2, <2>3 DEF ResizerInv, Agenda
  <2>9. CodeInv'
    BY <1>1, <1>2, <2>1, <2>2, <2>3 DEF CodeInv, CreatedInv
  <2> QED BY <2>2, <2>4, <2>5, <2>6, <2>7, <2>8, <2>9 DEF RunnerInv
<1>4. CASE Join("RestoreConsole") /\ UndoFailed("console") /\ UNCHANGED console
  <2>1. /\ code' = code /\ failed' = TRUE /\ console' = console
        /\ mishaps' = mishaps \cup {"console"} /\ mishaps' # {}
    BY <1>4 DEF Join, UndoFailed
  <2>2. /\ ~OnPlan /\ ~OnPlan' /\ OffPlanInv /\ ControlInv'
        /\ Ahead = {"RestoreConsole"} \cup Ahead' /\ "RestoreConsole" \notin Ahead'
        /\ Later = {} /\ Later' = {}
        /\ \A y \in Ahead : y = "RestoreConsole" \/ Rank["RestoreConsole"] < Rank[y]
        /\ Rank["RestoreConsole"] > 12
    <3>1. Rank["RestoreConsole"] > 12
      BY RanksAre
    <3>2. /\ At("RestoreConsole") /\ todo' = Tail(todo) /\ deferred' = deferred
          /\ (failed => failed')
      BY <1>2, <1>4 DEF Join
    <3> QED BY <1>1, <3>1, <3>2, RestShortens
  <2>3. /\ Ahead \cap {"CreateLease", "GetImage", "CreateContainer", "CreateTask",
                      "StartTask"} = {}
        /\ Ahead \cap {"DropTask", "DropSnapshot", "DropLease", "AwaitResize"} = {}
    BY <2>2, RestSplits
  <2>4. TypeOK'
    BY <1>1, <1>2, <2>1, <2>2 DEF TypeOK, ControlInv, Ascending, Things
  <2>5. CreatedInv'
    BY <1>1, <1>2, <2>1, <2>2, <2>3 DEF CreatedInv, OffPlanInv
  <2>6. WillBeGivenBack'
    BY <1>1, <1>2, <2>1, <2>2, <2>3
       DEF WillBeGivenBack, LeaseGoes, EndpointGoes, ContainerGoes, SnapshotGoes, TaskGoes,
           ConsoleGoes, CreatedInv, Agenda
  <2>7. NeededOnesRemain'
    BY <1>1, <1>2, <2>1, <2>2, <2>3
       DEF NeededOnesRemain, TaskKeepsItsSnapshot, LeaseOutlivesSnapshot, WillBeGivenBack,
           TaskGoes, ContainerGoes, SnapshotGoes, Agenda, CreatedInv
  <2>8. ResizerInv'
    BY <1>1, <1>2, <2>1, <2>2, <2>3 DEF ResizerInv, Agenda
  <2>9. CodeInv'
    BY <1>1, <1>2, <2>1, <2>2, <2>3 DEF CodeInv, CreatedInv
  <2> QED BY <2>2, <2>4, <2>5, <2>6, <2>7, <2>8, <2>9 DEF RunnerInv
<1> QED BY <1>3, <1>4 DEF RestoreConsole

\* The task goes first.
LEMMA DeleteTaskPreserves ==
  ASSUME RunnerInv, DeleteTask
  PROVE  RunnerInv'
<1>1. /\ TypeOK /\ ControlInv /\ CreatedInv /\ WillBeGivenBack /\ NeededOnesRemain
      /\ ResizerInv /\ CodeInv
  BY DEF RunnerInv
<1>2. /\ exists' = exists /\ taskCode' = taskCode /\ cfg' = cfg /\ killed' = killed
      /\ notified' = notified /\ interrupts' = interrupts /\ proxy' = proxy /\ raised' = raised
      /\ expired' = expired /\ held' = held /\ status' = status /\ exitCode' = exitCode
      /\ console' = console /\ resizer' = resizer /\ resizeDone' = resizeDone
  BY DEF DeleteTask, Quietly, signalVars, collectVars, resizeVars
<1>3. CASE Proceed("DeleteTask") /\ "task" \notin held /\ UNCHANGED <<task, mishaps>>
  <2>1. /\ code' = code /\ failed' = failed /\ "task" \notin held /\ task' = task
        /\ mishaps' = mishaps
    BY <1>3 DEF Proceed
  <2>2. /\ ~OnPlan /\ ~OnPlan' /\ OffPlanInv /\ ControlInv'
        /\ Ahead = {"DeleteTask"} \cup Ahead' /\ "DeleteTask" \notin Ahead' /\ Later = {}
        /\ Later' = {} /\ \A y \in Ahead : y = "DeleteTask" \/ Rank["DeleteTask"] < Rank[y]
        /\ Rank["DeleteTask"] > 12
    <3>1. Rank["DeleteTask"] > 12
      BY RanksAre
    <3>2. /\ At("DeleteTask") /\ todo' = Tail(todo) /\ deferred' = deferred
          /\ (failed => failed')
      BY <1>2, <1>3 DEF Proceed
    <3> QED BY <1>1, <3>1, <3>2, RestShortens
  <2>3. /\ Ahead \cap {"CreateLease", "GetImage", "CreateContainer", "CreateTask",
                      "StartTask"} = {}
        /\ Ahead \cap {"DropTask", "DropSnapshot", "DropLease", "AwaitResize",
                       "RestoreConsole"} = {}
    BY <2>2, RestSplits
  <2>4. TypeOK'
    BY <1>1, <1>2, <2>1, <2>2 DEF TypeOK, ControlInv, Ascending, Things
  <2>5. CreatedInv'
    BY <1>1, <1>2, <2>1, <2>2, <2>3 DEF CreatedInv, OffPlanInv
  <2>6. WillBeGivenBack'
    BY <1>1, <1>2, <2>1, <2>2, <2>3
       DEF WillBeGivenBack, LeaseGoes, EndpointGoes, ContainerGoes, SnapshotGoes, TaskGoes,
           ConsoleGoes, CreatedInv, Agenda
  <2>7. NeededOnesRemain'
    BY <1>1, <1>2, <2>1, <2>2, <2>3
       DEF NeededOnesRemain, TaskKeepsItsSnapshot, LeaseOutlivesSnapshot, WillBeGivenBack,
           TaskGoes, ContainerGoes, SnapshotGoes, Agenda, CreatedInv
  <2>8. ResizerInv'
    BY <1>1, <1>2, <2>1, <2>2, <2>3 DEF ResizerInv, Agenda
  <2>9. CodeInv'
    BY <1>1, <1>2, <2>1, <2>2, <2>3 DEF CodeInv, CreatedInv
  <2> QED BY <2>2, <2>4, <2>5, <2>6, <2>7, <2>8, <2>9 DEF RunnerInv
<1>4. CASE Proceed("DeleteTask") /\ "task" \in held /\ task' = "none" /\ UNCHANGED mishaps
  <2>1. /\ code' = code /\ failed' = failed /\ task' = "none" /\ mishaps' = mishaps
    BY <1>4 DEF Proceed
  <2>2. /\ ~OnPlan /\ ~OnPlan' /\ OffPlanInv /\ ControlInv'
        /\ Ahead = {"DeleteTask"} \cup Ahead' /\ "DeleteTask" \notin Ahead' /\ Later = {}
        /\ Later' = {} /\ \A y \in Ahead : y = "DeleteTask" \/ Rank["DeleteTask"] < Rank[y]
        /\ Rank["DeleteTask"] > 12
    <3>1. Rank["DeleteTask"] > 12
      BY RanksAre
    <3>2. /\ At("DeleteTask") /\ todo' = Tail(todo) /\ deferred' = deferred
          /\ (failed => failed')
      BY <1>2, <1>4 DEF Proceed
    <3> QED BY <1>1, <3>1, <3>2, RestShortens
  <2>3. /\ Ahead \cap {"CreateLease", "GetImage", "CreateContainer", "CreateTask",
                      "StartTask"} = {}
        /\ Ahead \cap {"DropTask", "DropSnapshot", "DropLease", "AwaitResize",
                       "RestoreConsole"} = {}
    BY <2>2, RestSplits
  <2>4. TypeOK'
    BY <1>1, <1>2, <2>1, <2>2 DEF TypeOK, ControlInv, Ascending, Things
  <2>5. CreatedInv'
    BY <1>1, <1>2, <2>1, <2>2, <2>3 DEF CreatedInv, OffPlanInv
  <2>6. WillBeGivenBack'
    BY <1>1, <1>2, <2>1, <2>2, <2>3
       DEF WillBeGivenBack, LeaseGoes, EndpointGoes, ContainerGoes, SnapshotGoes, TaskGoes,
           ConsoleGoes, CreatedInv, Agenda
  <2>7. NeededOnesRemain'
    BY <1>1, <1>2, <2>1, <2>2, <2>3
       DEF NeededOnesRemain, TaskKeepsItsSnapshot, LeaseOutlivesSnapshot, WillBeGivenBack,
           TaskGoes, ContainerGoes, SnapshotGoes, Agenda, CreatedInv
  <2>8. ResizerInv'
    BY <1>1, <1>2, <2>1, <2>2, <2>3 DEF ResizerInv, Agenda
  <2>9. CodeInv'
    BY <1>1, <1>2, <2>1, <2>2, <2>3 DEF CodeInv, CreatedInv
  <2> QED BY <2>2, <2>4, <2>5, <2>6, <2>7, <2>8, <2>9 DEF RunnerInv
<1>5. CASE /\ Join("DeleteTask") /\ "task" \in held /\ UndoFailed("task")
          /\ task' \in {task, IF task = "running" THEN "stopped" ELSE task}
  <2>1. /\ code' = code /\ failed' = TRUE
        /\ (task' = task \/ (task = "running" /\ task' = "stopped"))
        /\ mishaps' = mishaps \cup {"task"} /\ mishaps' # {}
    BY <1>5 DEF Join, UndoFailed
  <2>2. /\ ~OnPlan /\ ~OnPlan' /\ OffPlanInv /\ ControlInv'
        /\ Ahead = {"DeleteTask"} \cup Ahead' /\ "DeleteTask" \notin Ahead' /\ Later = {}
        /\ Later' = {} /\ \A y \in Ahead : y = "DeleteTask" \/ Rank["DeleteTask"] < Rank[y]
        /\ Rank["DeleteTask"] > 12
    <3>1. Rank["DeleteTask"] > 12
      BY RanksAre
    <3>2. /\ At("DeleteTask") /\ todo' = Tail(todo) /\ deferred' = deferred
          /\ (failed => failed')
      BY <1>2, <1>5 DEF Join
    <3> QED BY <1>1, <3>1, <3>2, RestShortens
  <2>3. /\ Ahead \cap {"CreateLease", "GetImage", "CreateContainer", "CreateTask",
                      "StartTask"} = {}
        /\ Ahead \cap {"DropTask", "DropSnapshot", "DropLease", "AwaitResize",
                       "RestoreConsole"} = {}
    BY <2>2, RestSplits
  <2>4. TypeOK'
    BY <1>1, <1>2, <2>1, <2>2 DEF TypeOK, ControlInv, Ascending, Things
  <2>5. CreatedInv'
    BY <1>1, <1>2, <2>1, <2>2, <2>3 DEF CreatedInv, OffPlanInv
  <2>6. WillBeGivenBack'
    BY <1>1, <1>2, <2>1, <2>2, <2>3
       DEF WillBeGivenBack, LeaseGoes, EndpointGoes, ContainerGoes, SnapshotGoes, TaskGoes,
           ConsoleGoes, CreatedInv, Agenda
  <2>7. NeededOnesRemain'
    BY <1>1, <1>2, <2>1, <2>2, <2>3
       DEF NeededOnesRemain, TaskKeepsItsSnapshot, LeaseOutlivesSnapshot, WillBeGivenBack,
           TaskGoes, ContainerGoes, SnapshotGoes, Agenda, CreatedInv
  <2>8. ResizerInv'
    BY <1>1, <1>2, <2>1, <2>2, <2>3 DEF ResizerInv, Agenda
  <2>9. CodeInv'
    BY <1>1, <1>2, <2>1, <2>2, <2>3 DEF CodeInv, CreatedInv
  <2> QED BY <2>2, <2>4, <2>5, <2>6, <2>7, <2>8, <2>9 DEF RunnerInv
<1> QED BY <1>3, <1>4, <1>5 DEF DeleteTask

\* The container goes when its task is gone, or its parts are deleted one by one.
LEMMA DeleteContainerPreserves ==
  ASSUME RunnerInv, DeleteContainer
  PROVE  RunnerInv'
<1>1. /\ TypeOK /\ ControlInv /\ CreatedInv /\ WillBeGivenBack /\ NeededOnesRemain
      /\ ResizerInv /\ CodeInv
  BY DEF RunnerInv
<1>2. /\ task' = task /\ taskCode' = taskCode /\ cfg' = cfg /\ killed' = killed
      /\ notified' = notified /\ interrupts' = interrupts /\ proxy' = proxy /\ raised' = raised
      /\ expired' = expired /\ held' = held /\ status' = status /\ exitCode' = exitCode
      /\ console' = console /\ resizer' = resizer /\ resizeDone' = resizeDone
      /\ mishaps' = mishaps
  BY DEF DeleteContainer, Quietly, signalVars, collectVars, resizeVars
<1>3. CASE /\ Proceed("DeleteContainer") /\ "container" \notin held
          /\ UNCHANGED exists
  <2>1. /\ code' = code /\ failed' = failed /\ "container" \notin held /\ exists' = exists
    BY <1>3 DEF Proceed
  <2>2. /\ ~OnPlan /\ ~OnPlan' /\ OffPlanInv /\ ControlInv'
        /\ Ahead = {"DeleteContainer"} \cup Ahead' /\ "DeleteContainer" \notin Ahead'
        /\ Later = {} /\ Later' = {}
        /\ \A y \in Ahead : y = "DeleteContainer" \/ Rank["DeleteContainer"] < Rank[y]
        /\ Rank["DeleteContainer"] > 12
    <3>1. Rank["DeleteContainer"] > 12
      BY RanksAre
    <3>2. /\ At("DeleteContainer") /\ todo' = Tail(todo) /\ deferred' = deferred
          /\ (failed => failed')
      BY <1>2, <1>3 DEF Proceed
    <3> QED BY <1>1, <3>1, <3>2, RestShortens
  <2>3. /\ Ahead \cap {"CreateLease", "GetImage", "CreateContainer", "CreateTask",
                      "StartTask"} = {}
        /\ Ahead \cap {"DropTask", "DropSnapshot", "DropLease", "AwaitResize", "RestoreConsole",
                       "DeleteTask"} = {}
    BY <2>2, RestSplits
  <2>4. TypeOK'
    BY <1>1, <1>2, <2>1, <2>2 DEF TypeOK, ControlInv, Ascending, Things
  <2>5. CreatedInv'
    BY <1>1, <1>2, <2>1, <2>2, <2>3 DEF CreatedInv, OffPlanInv
  <2>6. WillBeGivenBack'
    BY <1>1, <1>2, <2>1, <2>2, <2>3
       DEF WillBeGivenBack, LeaseGoes, EndpointGoes, ContainerGoes, SnapshotGoes, TaskGoes,
           ConsoleGoes, CreatedInv, Agenda
  <2>7. NeededOnesRemain'
    BY <1>1, <1>2, <2>1, <2>2, <2>3
       DEF NeededOnesRemain, TaskKeepsItsSnapshot, LeaseOutlivesSnapshot, WillBeGivenBack,
           TaskGoes, ContainerGoes, SnapshotGoes, Agenda, CreatedInv
  <2>8. ResizerInv'
    BY <1>1, <1>2, <2>1, <2>2, <2>3 DEF ResizerInv, Agenda
  <2>9. CodeInv'
    BY <1>1, <1>2, <2>1, <2>2, <2>3 DEF CodeInv, CreatedInv
  <2> QED BY <2>2, <2>4, <2>5, <2>6, <2>7, <2>8, <2>9 DEF RunnerInv
<1>4. CASE /\ Proceed("DeleteContainer") /\ "container" \in held /\ task = "none"
          /\ exists' = exists \ {"snapshot", "container"}
  <2>1. /\ code' = code /\ failed' = failed /\ task = "none"
        /\ exists' = exists \ {"snapshot", "container"}
    BY <1>4 DEF Proceed
  <2>2. /\ ~OnPlan /\ ~OnPlan' /\ OffPlanInv /\ ControlInv'
        /\ Ahead = {"DeleteContainer"} \cup Ahead' /\ "DeleteContainer" \notin Ahead'
        /\ Later = {} /\ Later' = {}
        /\ \A y \in Ahead : y = "DeleteContainer" \/ Rank["DeleteContainer"] < Rank[y]
        /\ Rank["DeleteContainer"] > 12
    <3>1. Rank["DeleteContainer"] > 12
      BY RanksAre
    <3>2. /\ At("DeleteContainer") /\ todo' = Tail(todo) /\ deferred' = deferred
          /\ (failed => failed')
      BY <1>2, <1>4 DEF Proceed
    <3> QED BY <1>1, <3>1, <3>2, RestShortens
  <2>3. /\ Ahead \cap {"CreateLease", "GetImage", "CreateContainer", "CreateTask",
                      "StartTask"} = {}
        /\ Ahead \cap {"DropTask", "DropSnapshot", "DropLease", "AwaitResize", "RestoreConsole",
                       "DeleteTask"} = {}
    BY <2>2, RestSplits
  <2>4. TypeOK'
    BY <1>1, <1>2, <2>1, <2>2 DEF TypeOK, ControlInv, Ascending, Things
  <2>5. CreatedInv'
    BY <1>1, <1>2, <2>1, <2>2, <2>3 DEF CreatedInv, OffPlanInv
  <2>6. WillBeGivenBack'
    BY <1>1, <1>2, <2>1, <2>2, <2>3
       DEF WillBeGivenBack, LeaseGoes, EndpointGoes, ContainerGoes, SnapshotGoes, TaskGoes,
           ConsoleGoes, CreatedInv, Agenda
  <2>7. NeededOnesRemain'
    BY <1>1, <1>2, <2>1, <2>2, <2>3
       DEF NeededOnesRemain, TaskKeepsItsSnapshot, LeaseOutlivesSnapshot, WillBeGivenBack,
           TaskGoes, ContainerGoes, SnapshotGoes, Agenda, CreatedInv
  <2>8. ResizerInv'
    BY <1>1, <1>2, <2>1, <2>2, <2>3 DEF ResizerInv, Agenda
  <2>9. CodeInv'
    BY <1>1, <1>2, <2>1, <2>2, <2>3 DEF CodeInv, CreatedInv
  <2> QED BY <2>2, <2>4, <2>5, <2>6, <2>7, <2>8, <2>9 DEF RunnerInv
<1>5. CASE /\ At("DeleteContainer") /\ "container" \in held
          /\ todo' = <<"RemoveSnapshot", "DeleteMetadata">> \o Tail(todo)
          /\ \/ UNCHANGED exists
             \/ task = "none" /\ exists' = exists \ {"snapshot"}
          /\ UNCHANGED <<deferred, failed, code>>
  <2>1. /\ code' = code /\ failed' = failed /\ "container" \in held
        /\ (exists' = exists \/ (task = "none" /\ exists' = exists \ {"snapshot"}))
    BY <1>5 DEF Proceed
  <2>2. /\ ~OnPlan /\ ~OnPlan' /\ OffPlanInv /\ ControlInv'
        /\ Ahead' = {"RemoveSnapshot", "DeleteMetadata"} \cup (Ahead \ {"DeleteContainer"})
        /\ Later = {} /\ Later' = {}
        /\ \A y \in Ahead : y = "DeleteContainer" \/ Rank["DeleteContainer"] < Rank[y]
        /\ Rank["DeleteContainer"] > 12
    <3>1. Rank["DeleteContainer"] > 12
      BY RanksAre
    <3>2. /\ At("DeleteContainer")
          /\ todo' = <<"RemoveSnapshot", "DeleteMetadata">> \o Tail(todo)
          /\ deferred' = deferred /\ failed' = failed
      BY <1>2, <1>5
    <3>3. /\ Ascending(<<"RemoveSnapshot", "DeleteMetadata">>)
          /\ Elements(<<"RemoveSnapshot", "DeleteMetadata">>) = {"RemoveSnapshot",
                                                                 "DeleteMetadata"}
      BY SingleAscends, LiteralsAscend DEF Steps
    <3> QED BY <1>1, <3>1, <3>2, <3>3, RestGrows
  <2>3. /\ Ahead \cap {"CreateLease", "GetImage", "CreateContainer", "CreateTask",
                      "StartTask"} = {}
        /\ Ahead \cap {"DropTask", "DropSnapshot", "DropLease", "AwaitResize", "RestoreConsole",
                       "DeleteTask"} = {}
    BY <2>2, RestSplits
  <2>4. TypeOK'
    <3>1. todo' \in Seq(Steps) /\ deferred' \in Seq(Steps)
      BY <2>2 DEF ControlInv, Ascending
    <3>2. failed' \in BOOLEAN /\ notified' \in BOOLEAN
      BY <1>1, <1>2, <2>1 DEF TypeOK
    <3>3. exists' \subseteq Things
      BY <1>1, <1>2, <2>1 DEF TypeOK, Things
    <3> QED BY <3>1, <3>2, <3>3, <1>1, <1>2, <2>1 DEF TypeOK
  <2>5. CreatedInv'
    BY <1>1, <1>2, <2>1, <2>2, <2>3 DEF CreatedInv, OffPlanInv
  <2>6. WillBeGivenBack'
    BY <1>1, <1>2, <2>1, <2>2, <2>3
       DEF WillBeGivenBack, LeaseGoes, EndpointGoes, ContainerGoes, SnapshotGoes, TaskGoes,
           ConsoleGoes, CreatedInv, Agenda
  <2>7. NeededOnesRemain'
    BY <1>1, <1>2, <2>1, <2>2, <2>3
       DEF NeededOnesRemain, TaskKeepsItsSnapshot, LeaseOutlivesSnapshot, WillBeGivenBack,
           TaskGoes, ContainerGoes, SnapshotGoes, Agenda, CreatedInv
  <2>8. ResizerInv'
    BY <1>1, <1>2, <2>1, <2>2, <2>3 DEF ResizerInv, Agenda
  <2>9. CodeInv'
    BY <1>1, <1>2, <2>1, <2>2, <2>3 DEF CodeInv, CreatedInv
  <2> QED BY <2>2, <2>4, <2>5, <2>6, <2>7, <2>8, <2>9 DEF RunnerInv
<1> QED BY <1>3, <1>4, <1>5 DEF DeleteContainer

\* The snapshot, when its task is gone.
LEMMA RemoveSnapshotPreserves ==
  ASSUME RunnerInv, RemoveSnapshot
  PROVE  RunnerInv'
<1>1. /\ TypeOK /\ ControlInv /\ CreatedInv /\ WillBeGivenBack /\ NeededOnesRemain
      /\ ResizerInv /\ CodeInv
  BY DEF RunnerInv
<1>2. /\ task' = task /\ taskCode' = taskCode /\ cfg' = cfg /\ killed' = killed
      /\ notified' = notified /\ interrupts' = interrupts /\ proxy' = proxy /\ raised' = raised
      /\ expired' = expired /\ held' = held /\ status' = status /\ exitCode' = exitCode
      /\ console' = console /\ resizer' = resizer /\ resizeDone' = resizeDone
  BY DEF RemoveSnapshot, Quietly, signalVars, collectVars, resizeVars
<1>3. CASE /\ Proceed("RemoveSnapshot") /\ TRUE
          /\ exists' = exists \ {"snapshot"} /\ UNCHANGED mishaps
  <2>1. /\ code' = code /\ failed' = failed /\ exists' = exists \ {"snapshot"}
        /\ mishaps' = mishaps
    BY <1>3 DEF Proceed
  <2>2. /\ ~OnPlan /\ ~OnPlan' /\ OffPlanInv /\ ControlInv'
        /\ Ahead = {"RemoveSnapshot"} \cup Ahead' /\ "RemoveSnapshot" \notin Ahead'
        /\ Later = {} /\ Later' = {}
        /\ \A y \in Ahead : y = "RemoveSnapshot" \/ Rank["RemoveSnapshot"] < Rank[y]
        /\ Rank["RemoveSnapshot"] > 12
    <3>1. Rank["RemoveSnapshot"] > 12
      BY RanksAre
    <3>2. /\ At("RemoveSnapshot") /\ todo' = Tail(todo) /\ deferred' = deferred
          /\ (failed => failed')
      BY <1>2, <1>3 DEF Proceed
    <3> QED BY <1>1, <3>1, <3>2, RestShortens
  <2>3. /\ Ahead \cap {"CreateLease", "GetImage", "CreateContainer", "CreateTask",
                      "StartTask"} = {}
        /\ Ahead \cap {"DropTask", "DropSnapshot", "DropLease", "AwaitResize", "RestoreConsole",
                       "DeleteTask", "DeleteContainer"} = {}
    BY <2>2, RestSplits
  <2>4. TypeOK'
    BY <1>1, <1>2, <2>1, <2>2 DEF TypeOK, ControlInv, Ascending, Things
  <2>5. CreatedInv'
    BY <1>1, <1>2, <2>1, <2>2, <2>3 DEF CreatedInv, OffPlanInv
  <2>6. WillBeGivenBack'
    BY <1>1, <1>2, <2>1, <2>2, <2>3
       DEF WillBeGivenBack, LeaseGoes, EndpointGoes, ContainerGoes, SnapshotGoes, TaskGoes,
           ConsoleGoes, CreatedInv, Agenda
  <2>7. NeededOnesRemain'
    BY <1>1, <1>2, <2>1, <2>2, <2>3
       DEF NeededOnesRemain, TaskKeepsItsSnapshot, LeaseOutlivesSnapshot, WillBeGivenBack,
           TaskGoes, ContainerGoes, SnapshotGoes, Agenda, CreatedInv
  <2>8. ResizerInv'
    BY <1>1, <1>2, <2>1, <2>2, <2>3 DEF ResizerInv, Agenda
  <2>9. CodeInv'
    BY <1>1, <1>2, <2>1, <2>2, <2>3 DEF CodeInv, CreatedInv
  <2> QED BY <2>2, <2>4, <2>5, <2>6, <2>7, <2>8, <2>9 DEF RunnerInv
<1>4. CASE Join("RemoveSnapshot") /\ UndoFailed("snapshot") /\ UNCHANGED exists
  <2>1. /\ code' = code /\ failed' = TRUE /\ exists' = exists
        /\ mishaps' = mishaps \cup {"snapshot"} /\ mishaps' # {}
    BY <1>4 DEF Join, UndoFailed
  <2>2. /\ ~OnPlan /\ ~OnPlan' /\ OffPlanInv /\ ControlInv'
        /\ Ahead = {"RemoveSnapshot"} \cup Ahead' /\ "RemoveSnapshot" \notin Ahead'
        /\ Later = {} /\ Later' = {}
        /\ \A y \in Ahead : y = "RemoveSnapshot" \/ Rank["RemoveSnapshot"] < Rank[y]
        /\ Rank["RemoveSnapshot"] > 12
    <3>1. Rank["RemoveSnapshot"] > 12
      BY RanksAre
    <3>2. /\ At("RemoveSnapshot") /\ todo' = Tail(todo) /\ deferred' = deferred
          /\ (failed => failed')
      BY <1>2, <1>4 DEF Join
    <3> QED BY <1>1, <3>1, <3>2, RestShortens
  <2>3. /\ Ahead \cap {"CreateLease", "GetImage", "CreateContainer", "CreateTask",
                      "StartTask"} = {}
        /\ Ahead \cap {"DropTask", "DropSnapshot", "DropLease", "AwaitResize", "RestoreConsole",
                       "DeleteTask", "DeleteContainer"} = {}
    BY <2>2, RestSplits
  <2>4. TypeOK'
    BY <1>1, <1>2, <2>1, <2>2 DEF TypeOK, ControlInv, Ascending, Things
  <2>5. CreatedInv'
    BY <1>1, <1>2, <2>1, <2>2, <2>3 DEF CreatedInv, OffPlanInv
  <2>6. WillBeGivenBack'
    BY <1>1, <1>2, <2>1, <2>2, <2>3
       DEF WillBeGivenBack, LeaseGoes, EndpointGoes, ContainerGoes, SnapshotGoes, TaskGoes,
           ConsoleGoes, CreatedInv, Agenda
  <2>7. NeededOnesRemain'
    BY <1>1, <1>2, <2>1, <2>2, <2>3
       DEF NeededOnesRemain, TaskKeepsItsSnapshot, LeaseOutlivesSnapshot, WillBeGivenBack,
           TaskGoes, ContainerGoes, SnapshotGoes, Agenda, CreatedInv
  <2>8. ResizerInv'
    BY <1>1, <1>2, <2>1, <2>2, <2>3 DEF ResizerInv, Agenda
  <2>9. CodeInv'
    BY <1>1, <1>2, <2>1, <2>2, <2>3 DEF CodeInv, CreatedInv
  <2> QED BY <2>2, <2>4, <2>5, <2>6, <2>7, <2>8, <2>9 DEF RunnerInv
<1> QED BY <1>3, <1>4 DEF RemoveSnapshot, Delete

\* The container, when its task is gone.
LEMMA DeleteMetadataPreserves ==
  ASSUME RunnerInv, DeleteMetadata
  PROVE  RunnerInv'
<1>1. /\ TypeOK /\ ControlInv /\ CreatedInv /\ WillBeGivenBack /\ NeededOnesRemain
      /\ ResizerInv /\ CodeInv
  BY DEF RunnerInv
<1>2. /\ task' = task /\ taskCode' = taskCode /\ cfg' = cfg /\ killed' = killed
      /\ notified' = notified /\ interrupts' = interrupts /\ proxy' = proxy /\ raised' = raised
      /\ expired' = expired /\ held' = held /\ status' = status /\ exitCode' = exitCode
      /\ console' = console /\ resizer' = resizer /\ resizeDone' = resizeDone
  BY DEF DeleteMetadata, Quietly, signalVars, collectVars, resizeVars
<1>3. CASE /\ Proceed("DeleteMetadata") /\ task = "none"
          /\ exists' = exists \ {"container"} /\ UNCHANGED mishaps
  <2>1. /\ code' = code /\ failed' = failed /\ task = "none" /\ exists' = exists \ {"container"}
        /\ mishaps' = mishaps
    BY <1>3 DEF Proceed
  <2>2. /\ ~OnPlan /\ ~OnPlan' /\ OffPlanInv /\ ControlInv'
        /\ Ahead = {"DeleteMetadata"} \cup Ahead' /\ "DeleteMetadata" \notin Ahead'
        /\ Later = {} /\ Later' = {}
        /\ \A y \in Ahead : y = "DeleteMetadata" \/ Rank["DeleteMetadata"] < Rank[y]
        /\ Rank["DeleteMetadata"] > 12
    <3>1. Rank["DeleteMetadata"] > 12
      BY RanksAre
    <3>2. /\ At("DeleteMetadata") /\ todo' = Tail(todo) /\ deferred' = deferred
          /\ (failed => failed')
      BY <1>2, <1>3 DEF Proceed
    <3> QED BY <1>1, <3>1, <3>2, RestShortens
  <2>3. /\ Ahead \cap {"CreateLease", "GetImage", "CreateContainer", "CreateTask",
                      "StartTask"} = {}
        /\ Ahead \cap {"DropTask", "DropSnapshot", "DropLease", "AwaitResize", "RestoreConsole",
                       "DeleteTask", "DeleteContainer", "RemoveSnapshot"} = {}
    BY <2>2, RestSplits
  <2>4. TypeOK'
    BY <1>1, <1>2, <2>1, <2>2 DEF TypeOK, ControlInv, Ascending, Things
  <2>5. CreatedInv'
    BY <1>1, <1>2, <2>1, <2>2, <2>3 DEF CreatedInv, OffPlanInv
  <2>6. WillBeGivenBack'
    BY <1>1, <1>2, <2>1, <2>2, <2>3
       DEF WillBeGivenBack, LeaseGoes, EndpointGoes, ContainerGoes, SnapshotGoes, TaskGoes,
           ConsoleGoes, CreatedInv, Agenda
  <2>7. NeededOnesRemain'
    BY <1>1, <1>2, <2>1, <2>2, <2>3
       DEF NeededOnesRemain, TaskKeepsItsSnapshot, LeaseOutlivesSnapshot, WillBeGivenBack,
           TaskGoes, ContainerGoes, SnapshotGoes, Agenda, CreatedInv
  <2>8. ResizerInv'
    BY <1>1, <1>2, <2>1, <2>2, <2>3 DEF ResizerInv, Agenda
  <2>9. CodeInv'
    BY <1>1, <1>2, <2>1, <2>2, <2>3 DEF CodeInv, CreatedInv
  <2> QED BY <2>2, <2>4, <2>5, <2>6, <2>7, <2>8, <2>9 DEF RunnerInv
<1>4. CASE Join("DeleteMetadata") /\ UndoFailed("container") /\ UNCHANGED exists
  <2>1. /\ code' = code /\ failed' = TRUE /\ exists' = exists
        /\ mishaps' = mishaps \cup {"container"} /\ mishaps' # {}
    BY <1>4 DEF Join, UndoFailed
  <2>2. /\ ~OnPlan /\ ~OnPlan' /\ OffPlanInv /\ ControlInv'
        /\ Ahead = {"DeleteMetadata"} \cup Ahead' /\ "DeleteMetadata" \notin Ahead'
        /\ Later = {} /\ Later' = {}
        /\ \A y \in Ahead : y = "DeleteMetadata" \/ Rank["DeleteMetadata"] < Rank[y]
        /\ Rank["DeleteMetadata"] > 12
    <3>1. Rank["DeleteMetadata"] > 12
      BY RanksAre
    <3>2. /\ At("DeleteMetadata") /\ todo' = Tail(todo) /\ deferred' = deferred
          /\ (failed => failed')
      BY <1>2, <1>4 DEF Join
    <3> QED BY <1>1, <3>1, <3>2, RestShortens
  <2>3. /\ Ahead \cap {"CreateLease", "GetImage", "CreateContainer", "CreateTask",
                      "StartTask"} = {}
        /\ Ahead \cap {"DropTask", "DropSnapshot", "DropLease", "AwaitResize", "RestoreConsole",
                       "DeleteTask", "DeleteContainer", "RemoveSnapshot"} = {}
    BY <2>2, RestSplits
  <2>4. TypeOK'
    BY <1>1, <1>2, <2>1, <2>2 DEF TypeOK, ControlInv, Ascending, Things
  <2>5. CreatedInv'
    BY <1>1, <1>2, <2>1, <2>2, <2>3 DEF CreatedInv, OffPlanInv
  <2>6. WillBeGivenBack'
    BY <1>1, <1>2, <2>1, <2>2, <2>3
       DEF WillBeGivenBack, LeaseGoes, EndpointGoes, ContainerGoes, SnapshotGoes, TaskGoes,
           ConsoleGoes, CreatedInv, Agenda
  <2>7. NeededOnesRemain'
    BY <1>1, <1>2, <2>1, <2>2, <2>3
       DEF NeededOnesRemain, TaskKeepsItsSnapshot, LeaseOutlivesSnapshot, WillBeGivenBack,
           TaskGoes, ContainerGoes, SnapshotGoes, Agenda, CreatedInv
  <2>8. ResizerInv'
    BY <1>1, <1>2, <2>1, <2>2, <2>3 DEF ResizerInv, Agenda
  <2>9. CodeInv'
    BY <1>1, <1>2, <2>1, <2>2, <2>3 DEF CodeInv, CreatedInv
  <2> QED BY <2>2, <2>4, <2>5, <2>6, <2>7, <2>8, <2>9 DEF RunnerInv
<1> QED BY <1>3, <1>4 DEF DeleteMetadata, Delete

\* The endpoint, if one is held.
LEMMA DeleteEndpointPreserves ==
  ASSUME RunnerInv, DeleteEndpoint
  PROVE  RunnerInv'
<1>1. /\ TypeOK /\ ControlInv /\ CreatedInv /\ WillBeGivenBack /\ NeededOnesRemain
      /\ ResizerInv /\ CodeInv
  BY DEF RunnerInv
<1>2. /\ task' = task /\ taskCode' = taskCode /\ cfg' = cfg /\ killed' = killed
      /\ notified' = notified /\ interrupts' = interrupts /\ proxy' = proxy /\ raised' = raised
      /\ expired' = expired /\ held' = held /\ status' = status /\ exitCode' = exitCode
      /\ console' = console /\ resizer' = resizer /\ resizeDone' = resizeDone
  BY DEF DeleteEndpoint, Quietly, signalVars, collectVars, resizeVars
<1>3. CASE /\ Proceed("DeleteEndpoint")
          /\ exists' = exists \ {"endpoint"} /\ UNCHANGED mishaps
  <2>1. /\ code' = code /\ failed' = failed /\ exists' = exists \ {"endpoint"}
        /\ mishaps' = mishaps
    BY <1>3 DEF Proceed
  <2>2. /\ ~OnPlan /\ ~OnPlan' /\ OffPlanInv /\ ControlInv'
        /\ Ahead = {"DeleteEndpoint"} \cup Ahead' /\ "DeleteEndpoint" \notin Ahead'
        /\ Later = {} /\ Later' = {}
        /\ \A y \in Ahead : y = "DeleteEndpoint" \/ Rank["DeleteEndpoint"] < Rank[y]
        /\ Rank["DeleteEndpoint"] > 12
    <3>1. Rank["DeleteEndpoint"] > 12
      BY RanksAre
    <3>2. /\ At("DeleteEndpoint") /\ todo' = Tail(todo) /\ deferred' = deferred
          /\ (failed => failed')
      BY <1>2, <1>3 DEF Proceed
    <3> QED BY <1>1, <3>1, <3>2, RestShortens
  <2>3. /\ Ahead \cap {"CreateLease", "GetImage", "CreateContainer", "CreateTask",
                      "StartTask"} = {}
        /\ Ahead \cap {"DropTask", "DropSnapshot", "DropLease", "AwaitResize", "RestoreConsole",
                       "DeleteTask", "DeleteContainer", "RemoveSnapshot", "DeleteMetadata"} = {}
    BY <2>2, RestSplits
  <2>4. TypeOK'
    BY <1>1, <1>2, <2>1, <2>2 DEF TypeOK, ControlInv, Ascending, Things
  <2>5. CreatedInv'
    BY <1>1, <1>2, <2>1, <2>2, <2>3 DEF CreatedInv, OffPlanInv
  <2>6. WillBeGivenBack'
    BY <1>1, <1>2, <2>1, <2>2, <2>3
       DEF WillBeGivenBack, LeaseGoes, EndpointGoes, ContainerGoes, SnapshotGoes, TaskGoes,
           ConsoleGoes, CreatedInv, Agenda
  <2>7. NeededOnesRemain'
    BY <1>1, <1>2, <2>1, <2>2, <2>3
       DEF NeededOnesRemain, TaskKeepsItsSnapshot, LeaseOutlivesSnapshot, WillBeGivenBack,
           TaskGoes, ContainerGoes, SnapshotGoes, Agenda, CreatedInv
  <2>8. ResizerInv'
    BY <1>1, <1>2, <2>1, <2>2, <2>3 DEF ResizerInv, Agenda
  <2>9. CodeInv'
    BY <1>1, <1>2, <2>1, <2>2, <2>3 DEF CodeInv, CreatedInv
  <2> QED BY <2>2, <2>4, <2>5, <2>6, <2>7, <2>8, <2>9 DEF RunnerInv
<1>4. CASE Join("DeleteEndpoint") /\ UndoFailed("endpoint") /\ UNCHANGED exists
  <2>1. /\ code' = code /\ failed' = TRUE /\ exists' = exists
        /\ mishaps' = mishaps \cup {"endpoint"} /\ mishaps' # {}
    BY <1>4 DEF Join, UndoFailed
  <2>2. /\ ~OnPlan /\ ~OnPlan' /\ OffPlanInv /\ ControlInv'
        /\ Ahead = {"DeleteEndpoint"} \cup Ahead' /\ "DeleteEndpoint" \notin Ahead'
        /\ Later = {} /\ Later' = {}
        /\ \A y \in Ahead : y = "DeleteEndpoint" \/ Rank["DeleteEndpoint"] < Rank[y]
        /\ Rank["DeleteEndpoint"] > 12
    <3>1. Rank["DeleteEndpoint"] > 12
      BY RanksAre
    <3>2. /\ At("DeleteEndpoint") /\ todo' = Tail(todo) /\ deferred' = deferred
          /\ (failed => failed')
      BY <1>2, <1>4 DEF Join
    <3> QED BY <1>1, <3>1, <3>2, RestShortens
  <2>3. /\ Ahead \cap {"CreateLease", "GetImage", "CreateContainer", "CreateTask",
                      "StartTask"} = {}
        /\ Ahead \cap {"DropTask", "DropSnapshot", "DropLease", "AwaitResize", "RestoreConsole",
                       "DeleteTask", "DeleteContainer", "RemoveSnapshot", "DeleteMetadata"} = {}
    BY <2>2, RestSplits
  <2>4. TypeOK'
    BY <1>1, <1>2, <2>1, <2>2 DEF TypeOK, ControlInv, Ascending, Things
  <2>5. CreatedInv'
    BY <1>1, <1>2, <2>1, <2>2, <2>3 DEF CreatedInv, OffPlanInv
  <2>6. WillBeGivenBack'
    BY <1>1, <1>2, <2>1, <2>2, <2>3
       DEF WillBeGivenBack, LeaseGoes, EndpointGoes, ContainerGoes, SnapshotGoes, TaskGoes,
           ConsoleGoes, CreatedInv, Agenda
  <2>7. NeededOnesRemain'
    BY <1>1, <1>2, <2>1, <2>2, <2>3
       DEF NeededOnesRemain, TaskKeepsItsSnapshot, LeaseOutlivesSnapshot, WillBeGivenBack,
           TaskGoes, ContainerGoes, SnapshotGoes, Agenda, CreatedInv
  <2>8. ResizerInv'
    BY <1>1, <1>2, <2>1, <2>2, <2>3 DEF ResizerInv, Agenda
  <2>9. CodeInv'
    BY <1>1, <1>2, <2>1, <2>2, <2>3 DEF CodeInv, CreatedInv
  <2> QED BY <2>2, <2>4, <2>5, <2>6, <2>7, <2>8, <2>9 DEF RunnerInv
<1>5. CASE "endpoint" \notin held /\ Proceed("DeleteEndpoint") /\ UNCHANGED <<exists, mishaps>>
  <2>1. /\ code' = code /\ failed' = failed /\ "endpoint" \notin held /\ exists' = exists
        /\ mishaps' = mishaps
    BY <1>5 DEF Proceed
  <2>2. /\ ~OnPlan /\ ~OnPlan' /\ OffPlanInv /\ ControlInv'
        /\ Ahead = {"DeleteEndpoint"} \cup Ahead' /\ "DeleteEndpoint" \notin Ahead'
        /\ Later = {} /\ Later' = {}
        /\ \A y \in Ahead : y = "DeleteEndpoint" \/ Rank["DeleteEndpoint"] < Rank[y]
        /\ Rank["DeleteEndpoint"] > 12
    <3>1. Rank["DeleteEndpoint"] > 12
      BY RanksAre
    <3>2. /\ At("DeleteEndpoint") /\ todo' = Tail(todo) /\ deferred' = deferred
          /\ (failed => failed')
      BY <1>2, <1>5 DEF Proceed
    <3> QED BY <1>1, <3>1, <3>2, RestShortens
  <2>3. /\ Ahead \cap {"CreateLease", "GetImage", "CreateContainer", "CreateTask",
                      "StartTask"} = {}
        /\ Ahead \cap {"DropTask", "DropSnapshot", "DropLease", "AwaitResize", "RestoreConsole",
                       "DeleteTask", "DeleteContainer", "RemoveSnapshot", "DeleteMetadata"} = {}
    BY <2>2, RestSplits
  <2>4. TypeOK'
    BY <1>1, <1>2, <2>1, <2>2 DEF TypeOK, ControlInv, Ascending, Things
  <2>5. CreatedInv'
    BY <1>1, <1>2, <2>1, <2>2, <2>3 DEF CreatedInv, OffPlanInv
  <2>6. WillBeGivenBack'
    BY <1>1, <1>2, <2>1, <2>2, <2>3
       DEF WillBeGivenBack, LeaseGoes, EndpointGoes, ContainerGoes, SnapshotGoes, TaskGoes,
           ConsoleGoes, CreatedInv, Agenda
  <2>7. NeededOnesRemain'
    BY <1>1, <1>2, <2>1, <2>2, <2>3
       DEF NeededOnesRemain, TaskKeepsItsSnapshot, LeaseOutlivesSnapshot, WillBeGivenBack,
           TaskGoes, ContainerGoes, SnapshotGoes, Agenda, CreatedInv
  <2>8. ResizerInv'
    BY <1>1, <1>2, <2>1, <2>2, <2>3 DEF ResizerInv, Agenda
  <2>9. CodeInv'
    BY <1>1, <1>2, <2>1, <2>2, <2>3 DEF CodeInv, CreatedInv
  <2> QED BY <2>2, <2>4, <2>5, <2>6, <2>7, <2>8, <2>9 DEF RunnerInv
<1> QED BY <1>3, <1>4, <1>5 DEF DeleteEndpoint, Delete

\* The lease goes last, when nothing is left that it protects.
LEMMA DeleteLeasePreserves ==
  ASSUME RunnerInv, DeleteLease
  PROVE  RunnerInv'
<1>1. /\ TypeOK /\ ControlInv /\ CreatedInv /\ WillBeGivenBack /\ NeededOnesRemain
      /\ ResizerInv /\ CodeInv
  BY DEF RunnerInv
<1>2. /\ task' = task /\ taskCode' = taskCode /\ held' = {} /\ cfg' = cfg /\ killed' = killed
      /\ notified' = notified /\ interrupts' = interrupts /\ proxy' = proxy /\ raised' = raised
      /\ expired' = expired /\ status' = status /\ exitCode' = exitCode /\ console' = console
      /\ resizer' = resizer /\ resizeDone' = resizeDone
  BY DEF DeleteLease, Quietly, signalVars, collectVars, resizeVars
<1>3. CASE /\ Proceed("DeleteLease")
          /\ exists' = exists \ {"lease"} /\ UNCHANGED mishaps
  <2>1. /\ code' = code /\ failed' = failed /\ exists' = exists \ {"lease"}
        /\ mishaps' = mishaps
    BY <1>3 DEF Proceed
  <2>2. /\ ~OnPlan /\ ~OnPlan' /\ OffPlanInv /\ ControlInv'
        /\ Ahead = {"DeleteLease"} \cup Ahead' /\ "DeleteLease" \notin Ahead' /\ Later = {}
        /\ Later' = {} /\ \A y \in Ahead : y = "DeleteLease" \/ Rank["DeleteLease"] < Rank[y]
        /\ Rank["DeleteLease"] > 12
    <3>1. Rank["DeleteLease"] > 12
      BY RanksAre
    <3>2. /\ At("DeleteLease") /\ todo' = Tail(todo) /\ deferred' = deferred
          /\ (failed => failed')
      BY <1>2, <1>3 DEF Proceed
    <3> QED BY <1>1, <3>1, <3>2, RestShortens
  <2>3. /\ Ahead \cap {"CreateLease", "GetImage", "CreateContainer", "CreateTask",
                      "StartTask"} = {}
        /\ Ahead \cap {"DropTask", "DropSnapshot", "DropLease", "AwaitResize", "RestoreConsole",
                       "DeleteTask", "DeleteContainer", "RemoveSnapshot", "DeleteMetadata",
                       "DeleteEndpoint"} = {}
    BY <2>2, RestSplits
  <2>4. TypeOK'
    BY <1>1, <1>2, <2>1, <2>2 DEF TypeOK, ControlInv, Ascending, Things
  <2>5. CreatedInv'
    BY <1>1, <1>2, <2>1, <2>2, <2>3 DEF CreatedInv, OffPlanInv
  <2>6. WillBeGivenBack'
    BY <1>1, <1>2, <2>1, <2>2, <2>3
       DEF WillBeGivenBack, LeaseGoes, EndpointGoes, ContainerGoes, SnapshotGoes, TaskGoes,
           ConsoleGoes, CreatedInv, Agenda
  <2>7. NeededOnesRemain'
    BY <1>1, <1>2, <2>1, <2>2, <2>3
       DEF NeededOnesRemain, TaskKeepsItsSnapshot, LeaseOutlivesSnapshot, WillBeGivenBack,
           TaskGoes, ContainerGoes, SnapshotGoes, Agenda, CreatedInv
  <2>8. ResizerInv'
    BY <1>1, <1>2, <2>1, <2>2, <2>3 DEF ResizerInv, Agenda
  <2>9. CodeInv'
    BY <1>1, <1>2, <2>1, <2>2, <2>3 DEF CodeInv, CreatedInv
  <2> QED BY <2>2, <2>4, <2>5, <2>6, <2>7, <2>8, <2>9 DEF RunnerInv
<1>4. CASE Join("DeleteLease") /\ UndoFailed("lease") /\ UNCHANGED exists
  <2>1. /\ code' = code /\ failed' = TRUE /\ exists' = exists
        /\ mishaps' = mishaps \cup {"lease"} /\ mishaps' # {}
    BY <1>4 DEF Join, UndoFailed
  <2>2. /\ ~OnPlan /\ ~OnPlan' /\ OffPlanInv /\ ControlInv'
        /\ Ahead = {"DeleteLease"} \cup Ahead' /\ "DeleteLease" \notin Ahead' /\ Later = {}
        /\ Later' = {} /\ \A y \in Ahead : y = "DeleteLease" \/ Rank["DeleteLease"] < Rank[y]
        /\ Rank["DeleteLease"] > 12
    <3>1. Rank["DeleteLease"] > 12
      BY RanksAre
    <3>2. /\ At("DeleteLease") /\ todo' = Tail(todo) /\ deferred' = deferred
          /\ (failed => failed')
      BY <1>2, <1>4 DEF Join
    <3> QED BY <1>1, <3>1, <3>2, RestShortens
  <2>3. /\ Ahead \cap {"CreateLease", "GetImage", "CreateContainer", "CreateTask",
                      "StartTask"} = {}
        /\ Ahead \cap {"DropTask", "DropSnapshot", "DropLease", "AwaitResize", "RestoreConsole",
                       "DeleteTask", "DeleteContainer", "RemoveSnapshot", "DeleteMetadata",
                       "DeleteEndpoint"} = {}
    BY <2>2, RestSplits
  <2>4. TypeOK'
    BY <1>1, <1>2, <2>1, <2>2 DEF TypeOK, ControlInv, Ascending, Things
  <2>5. CreatedInv'
    BY <1>1, <1>2, <2>1, <2>2, <2>3 DEF CreatedInv, OffPlanInv
  <2>6. WillBeGivenBack'
    BY <1>1, <1>2, <2>1, <2>2, <2>3
       DEF WillBeGivenBack, LeaseGoes, EndpointGoes, ContainerGoes, SnapshotGoes, TaskGoes,
           ConsoleGoes, CreatedInv, Agenda
  <2>7. NeededOnesRemain'
    BY <1>1, <1>2, <2>1, <2>2, <2>3
       DEF NeededOnesRemain, TaskKeepsItsSnapshot, LeaseOutlivesSnapshot, WillBeGivenBack,
           TaskGoes, ContainerGoes, SnapshotGoes, Agenda, CreatedInv
  <2>8. ResizerInv'
    BY <1>1, <1>2, <2>1, <2>2, <2>3 DEF ResizerInv, Agenda
  <2>9. CodeInv'
    BY <1>1, <1>2, <2>1, <2>2, <2>3 DEF CodeInv, CreatedInv
  <2> QED BY <2>2, <2>4, <2>5, <2>6, <2>7, <2>8, <2>9 DEF RunnerInv
<1> QED BY <1>3, <1>4 DEF DeleteLease, Delete

\* The connection is closed after all the calls over it.
LEMMA CloseClientPreserves ==
  ASSUME RunnerInv, CloseClient
  PROVE  RunnerInv'
<1>1. /\ TypeOK /\ ControlInv /\ CreatedInv /\ WillBeGivenBack /\ NeededOnesRemain
      /\ ResizerInv /\ CodeInv
  BY DEF RunnerInv
<1>2. /\ cfg' = cfg /\ killed' = killed /\ notified' = notified /\ interrupts' = interrupts
      /\ proxy' = proxy /\ raised' = raised /\ expired' = expired /\ exists' = exists
      /\ task' = task /\ taskCode' = taskCode /\ held' = held /\ status' = status
      /\ exitCode' = exitCode /\ console' = console /\ resizer' = resizer
      /\ resizeDone' = resizeDone /\ mishaps' = mishaps
  BY DEF CloseClient, Quietly, signalVars, worldVars, collectVars, resizeVars
<1>3. CASE Proceed("CloseClient")
  <2>1. /\ code' = code /\ failed' = failed
    BY <1>3 DEF Proceed
  <2>2. /\ ~OnPlan /\ ~OnPlan' /\ OffPlanInv /\ ControlInv'
        /\ Ahead = {"CloseClient"} \cup Ahead' /\ "CloseClient" \notin Ahead' /\ Later = {}
        /\ Later' = {} /\ \A y \in Ahead : y = "CloseClient" \/ Rank["CloseClient"] < Rank[y]
        /\ Rank["CloseClient"] > 12
    <3>1. Rank["CloseClient"] > 12
      BY RanksAre
    <3>2. /\ At("CloseClient") /\ todo' = Tail(todo) /\ deferred' = deferred
          /\ (failed => failed')
      BY <1>2, <1>3 DEF Proceed
    <3> QED BY <1>1, <3>1, <3>2, RestShortens
  <2>3. /\ Ahead \cap {"CreateLease", "GetImage", "CreateContainer", "CreateTask",
                      "StartTask"} = {}
        /\ Ahead \cap {"DropTask", "DropSnapshot", "DropLease", "AwaitResize", "RestoreConsole",
                       "DeleteTask", "DeleteContainer", "RemoveSnapshot", "DeleteMetadata",
                       "DeleteEndpoint", "DeleteLease"} = {}
    BY <2>2, RestSplits
  <2>4. TypeOK'
    BY <1>1, <1>2, <2>1, <2>2 DEF TypeOK, ControlInv, Ascending, Things
  <2>5. CreatedInv'
    BY <1>1, <1>2, <2>1, <2>2, <2>3 DEF CreatedInv, OffPlanInv
  <2>6. WillBeGivenBack'
    BY <1>1, <1>2, <2>1, <2>2, <2>3
       DEF WillBeGivenBack, LeaseGoes, EndpointGoes, ContainerGoes, SnapshotGoes, TaskGoes,
           ConsoleGoes, CreatedInv, Agenda
  <2>7. NeededOnesRemain'
    BY <1>1, <1>2, <2>1, <2>2, <2>3
       DEF NeededOnesRemain, TaskKeepsItsSnapshot, LeaseOutlivesSnapshot, WillBeGivenBack,
           TaskGoes, ContainerGoes, SnapshotGoes, Agenda, CreatedInv
  <2>8. ResizerInv'
    BY <1>1, <1>2, <2>1, <2>2, <2>3 DEF ResizerInv, Agenda
  <2>9. CodeInv'
    BY <1>1, <1>2, <2>1, <2>2, <2>3 DEF CodeInv, CreatedInv
  <2> QED BY <2>2, <2>4, <2>5, <2>6, <2>7, <2>8, <2>9 DEF RunnerInv
<1>4. CASE Join("CloseClient")
  <2>1. /\ code' = code /\ failed' = TRUE
    BY <1>4 DEF Join
  <2>2. /\ ~OnPlan /\ ~OnPlan' /\ OffPlanInv /\ ControlInv'
        /\ Ahead = {"CloseClient"} \cup Ahead' /\ "CloseClient" \notin Ahead' /\ Later = {}
        /\ Later' = {} /\ \A y \in Ahead : y = "CloseClient" \/ Rank["CloseClient"] < Rank[y]
        /\ Rank["CloseClient"] > 12
    <3>1. Rank["CloseClient"] > 12
      BY RanksAre
    <3>2. /\ At("CloseClient") /\ todo' = Tail(todo) /\ deferred' = deferred
          /\ (failed => failed')
      BY <1>2, <1>4 DEF Join
    <3> QED BY <1>1, <3>1, <3>2, RestShortens
  <2>3. /\ Ahead \cap {"CreateLease", "GetImage", "CreateContainer", "CreateTask",
                      "StartTask"} = {}
        /\ Ahead \cap {"DropTask", "DropSnapshot", "DropLease", "AwaitResize", "RestoreConsole",
                       "DeleteTask", "DeleteContainer", "RemoveSnapshot", "DeleteMetadata",
                       "DeleteEndpoint", "DeleteLease"} = {}
    BY <2>2, RestSplits
  <2>4. TypeOK'
    BY <1>1, <1>2, <2>1, <2>2 DEF TypeOK, ControlInv, Ascending, Things
  <2>5. CreatedInv'
    BY <1>1, <1>2, <2>1, <2>2, <2>3 DEF CreatedInv, OffPlanInv
  <2>6. WillBeGivenBack'
    BY <1>1, <1>2, <2>1, <2>2, <2>3
       DEF WillBeGivenBack, LeaseGoes, EndpointGoes, ContainerGoes, SnapshotGoes, TaskGoes,
           ConsoleGoes, CreatedInv, Agenda
  <2>7. NeededOnesRemain'
    BY <1>1, <1>2, <2>1, <2>2, <2>3
       DEF NeededOnesRemain, TaskKeepsItsSnapshot, LeaseOutlivesSnapshot, WillBeGivenBack,
           TaskGoes, ContainerGoes, SnapshotGoes, Agenda, CreatedInv
  <2>8. ResizerInv'
    BY <1>1, <1>2, <2>1, <2>2, <2>3 DEF ResizerInv, Agenda
  <2>9. CodeInv'
    BY <1>1, <1>2, <2>1, <2>2, <2>3 DEF CodeInv, CreatedInv
  <2> QED BY <2>2, <2>4, <2>5, <2>6, <2>7, <2>8, <2>9 DEF RunnerInv
<1> QED BY <1>3, <1>4 DEF CloseClient

------------------------------------------------------------------------------
(* The other goroutines, the clock, the task and the user preserve it.     *)

\* What is collected is the code of a task that has stopped.
LEMMA collectExitPreserves ==
  ASSUME RunnerInv, collectExit
  PROVE  RunnerInv'
<1>1. /\ TypeOK /\ ControlInv /\ CreatedInv /\ WillBeGivenBack /\ NeededOnesRemain
      /\ ResizerInv /\ CodeInv
  BY DEF RunnerInv
<1>2. /\ status = "waiting"
      /\ \/ task = "stopped" /\ status' = "exited" /\ exitCode' = taskCode
         \/ status' = "error" /\ exitCode' = 0
      /\ cfg' = cfg /\ code' = code /\ failed' = failed /\ killed' = killed
      /\ notified' = notified /\ interrupts' = interrupts /\ proxy' = proxy /\ raised' = raised
      /\ expired' = expired /\ exists' = exists /\ task' = task /\ taskCode' = taskCode
      /\ held' = held /\ console' = console /\ resizer' = resizer /\ resizeDone' = resizeDone
      /\ mishaps' = mishaps
  BY DEF collectExit, Collected, worldVars, collectVars, resizeVars, mainVars, signalVars
<1>3. /\ ControlInv' /\ Ahead' = Ahead /\ Later' = Later /\ (OnPlan' <=> OnPlan)
  BY <1>1, MainRests DEF collectExit
<1>4. TypeOK'
  BY <1>1, <1>2, <1>3 DEF TypeOK, ControlInv, Ascending
<1>5. CreatedInv'
  BY <1>1, <1>2, <1>3 DEF CreatedInv
<1>6. WillBeGivenBack'
  BY <1>1, <1>2, <1>3
     DEF WillBeGivenBack, LeaseGoes, EndpointGoes, ContainerGoes, SnapshotGoes, TaskGoes,
         ConsoleGoes, Agenda
<1>7. NeededOnesRemain'
  BY <1>1, <1>2 DEF NeededOnesRemain, TaskKeepsItsSnapshot, LeaseOutlivesSnapshot
<1>8. ResizerInv'
  BY <1>1, <1>2, <1>3 DEF ResizerInv, Agenda
<1>9. CodeInv'
  BY <1>1, <1>2, <1>3 DEF CodeInv
<1> QED BY <1>3, <1>4, <1>5, <1>6, <1>7, <1>8, <1>9 DEF RunnerInv

\* The console and its goroutine, until that has ended.
LEMMA ResizePreserves ==
  ASSUME RunnerInv, Resize
  PROVE  RunnerInv'
<1>1. /\ TypeOK /\ ControlInv /\ CreatedInv /\ WillBeGivenBack /\ NeededOnesRemain
      /\ ResizerInv /\ CodeInv
  BY DEF RunnerInv
<1>2. /\ (resizer = "idle" \/ resizer = "calling")
      /\ (resizer' = "idle" \/ resizer' = "calling") /\ resizeDone' = resizeDone /\ cfg' = cfg
      /\ code' = code /\ failed' = failed /\ killed' = killed /\ notified' = notified
      /\ interrupts' = interrupts /\ proxy' = proxy /\ raised' = raised /\ expired' = expired
      /\ exists' = exists /\ task' = task /\ taskCode' = taskCode /\ held' = held
      /\ status' = status /\ exitCode' = exitCode /\ console' = console /\ mishaps' = mishaps
  BY DEF Resize, worldVars, collectVars, resizeVars, mainVars, signalVars
<1>3. /\ ControlInv' /\ Ahead' = Ahead /\ Later' = Later /\ (OnPlan' <=> OnPlan)
  BY <1>1, MainRests DEF Resize
<1>4. TypeOK'
  BY <1>1, <1>2, <1>3 DEF TypeOK, ControlInv, Ascending
<1>5. CreatedInv'
  BY <1>1, <1>2, <1>3 DEF CreatedInv
<1>6. WillBeGivenBack'
  BY <1>1, <1>2, <1>3
     DEF WillBeGivenBack, LeaseGoes, EndpointGoes, ContainerGoes, SnapshotGoes, TaskGoes,
         ConsoleGoes, Agenda
<1>7. NeededOnesRemain'
  BY <1>1, <1>2 DEF NeededOnesRemain, TaskKeepsItsSnapshot, LeaseOutlivesSnapshot
<1>8. ResizerInv'
  BY <1>1, <1>2, <1>3 DEF ResizerInv, Agenda
<1>9. CodeInv'
  BY <1>1, <1>2, <1>3 DEF CodeInv
<1> QED BY <1>3, <1>4, <1>5, <1>6, <1>7, <1>8, <1>9 DEF RunnerInv

\* It ends.
LEMMA EndResizePreserves ==
  ASSUME RunnerInv, EndResize
  PROVE  RunnerInv'
<1>1. /\ TypeOK /\ ControlInv /\ CreatedInv /\ WillBeGivenBack /\ NeededOnesRemain
      /\ ResizerInv /\ CodeInv
  BY DEF RunnerInv
<1>2. /\ resizer' = "ended" /\ resizeDone' = resizeDone /\ cfg' = cfg /\ code' = code
      /\ failed' = failed /\ killed' = killed /\ notified' = notified
      /\ interrupts' = interrupts /\ proxy' = proxy /\ raised' = raised /\ expired' = expired
      /\ exists' = exists /\ task' = task /\ taskCode' = taskCode /\ held' = held
      /\ status' = status /\ exitCode' = exitCode /\ console' = console /\ mishaps' = mishaps
  BY DEF EndResize, worldVars, collectVars, resizeVars, mainVars, signalVars
<1>3. /\ ControlInv' /\ Ahead' = Ahead /\ Later' = Later /\ (OnPlan' <=> OnPlan)
  BY <1>1, MainRests DEF EndResize
<1>4. TypeOK'
  BY <1>1, <1>2, <1>3 DEF TypeOK, ControlInv, Ascending
<1>5. CreatedInv'
  BY <1>1, <1>2, <1>3 DEF CreatedInv
<1>6. WillBeGivenBack'
  BY <1>1, <1>2, <1>3
     DEF WillBeGivenBack, LeaseGoes, EndpointGoes, ContainerGoes, SnapshotGoes, TaskGoes,
         ConsoleGoes, Agenda
<1>7. NeededOnesRemain'
  BY <1>1, <1>2 DEF NeededOnesRemain, TaskKeepsItsSnapshot, LeaseOutlivesSnapshot
<1>8. ResizerInv'
  BY <1>1, <1>2, <1>3 DEF ResizerInv, Agenda
<1>9. CodeInv'
  BY <1>1, <1>2, <1>3 DEF CodeInv
<1> QED BY <1>3, <1>4, <1>5, <1>6, <1>7, <1>8, <1>9 DEF RunnerInv

\* The relay of interrupts touches nothing else.
LEMMA ProxyPreserves ==
  ASSUME RunnerInv, Proxy
  PROVE  RunnerInv'
<1>1. /\ TypeOK /\ ControlInv /\ CreatedInv /\ WillBeGivenBack /\ NeededOnesRemain
      /\ ResizerInv /\ CodeInv
  BY DEF RunnerInv
<1>2. /\ proxy' \in {"none", "idle", "calling", "ended"}
      /\ (interrupts' = interrupts \/ (interrupts > 0 /\ interrupts' = interrupts - 1))
      /\ killed' = killed /\ notified' = notified /\ raised' = raised /\ cfg' = cfg
      /\ code' = code /\ failed' = failed /\ expired' = expired /\ exists' = exists
      /\ task' = task /\ taskCode' = taskCode /\ held' = held /\ status' = status
      /\ exitCode' = exitCode /\ console' = console /\ resizer' = resizer
      /\ resizeDone' = resizeDone /\ mishaps' = mishaps
  BY DEF Proxy, worldVars, collectVars, resizeVars, mainVars, signalVars
<1>3. /\ ControlInv' /\ Ahead' = Ahead /\ Later' = Later /\ (OnPlan' <=> OnPlan)
  BY <1>1, MainRests DEF Proxy
<1>4. TypeOK'
  <2>1. interrupts' \in 0..2
    BY <1>1, <1>2 DEF TypeOK
  <2> QED BY <1>1, <1>2, <1>3, <2>1 DEF TypeOK, ControlInv, Ascending
<1>5. CreatedInv'
  BY <1>1, <1>2, <1>3 DEF CreatedInv
<1>6. WillBeGivenBack'
  BY <1>1, <1>2, <1>3
     DEF WillBeGivenBack, LeaseGoes, EndpointGoes, ContainerGoes, SnapshotGoes, TaskGoes,
         ConsoleGoes, Agenda
<1>7. NeededOnesRemain'
  BY <1>1, <1>2 DEF NeededOnesRemain, TaskKeepsItsSnapshot, LeaseOutlivesSnapshot
<1>8. ResizerInv'
  BY <1>1, <1>2, <1>3 DEF ResizerInv, Agenda
<1>9. CodeInv'
  BY <1>1, <1>2, <1>3 DEF CodeInv
<1> QED BY <1>3, <1>4, <1>5, <1>6, <1>7, <1>8, <1>9 DEF RunnerInv

\* The deadline passes.
LEMMA ExpirePreserves ==
  ASSUME RunnerInv, Expire
  PROVE  RunnerInv'
<1>1. /\ TypeOK /\ ControlInv /\ CreatedInv /\ WillBeGivenBack /\ NeededOnesRemain
      /\ ResizerInv /\ CodeInv
  BY DEF RunnerInv
<1>2. /\ expired' = TRUE /\ cfg' = cfg /\ code' = code /\ failed' = failed /\ killed' = killed
      /\ notified' = notified /\ interrupts' = interrupts /\ proxy' = proxy /\ raised' = raised
      /\ exists' = exists /\ task' = task /\ taskCode' = taskCode /\ held' = held
      /\ status' = status /\ exitCode' = exitCode /\ console' = console /\ resizer' = resizer
      /\ resizeDone' = resizeDone /\ mishaps' = mishaps
  BY DEF Expire, worldVars, collectVars, resizeVars, mainVars, signalVars
<1>3. /\ ControlInv' /\ Ahead' = Ahead /\ Later' = Later /\ (OnPlan' <=> OnPlan)
  BY <1>1, MainRests DEF Expire
<1>4. TypeOK'
  <2>1. expired' \in BOOLEAN
    BY <1>1, <1>2 DEF TypeOK
  <2> QED BY <1>1, <1>2, <1>3, <2>1 DEF TypeOK, ControlInv, Ascending
<1>5. CreatedInv'
  BY <1>1, <1>2, <1>3 DEF CreatedInv
<1>6. WillBeGivenBack'
  BY <1>1, <1>2, <1>3
     DEF WillBeGivenBack, LeaseGoes, EndpointGoes, ContainerGoes, SnapshotGoes, TaskGoes,
         ConsoleGoes, Agenda
<1>7. NeededOnesRemain'
  BY <1>1, <1>2 DEF NeededOnesRemain, TaskKeepsItsSnapshot, LeaseOutlivesSnapshot
<1>8. ResizerInv'
  BY <1>1, <1>2, <1>3 DEF ResizerInv, Agenda
<1>9. CodeInv'
  BY <1>1, <1>2, <1>3 DEF CodeInv
<1> QED BY <1>3, <1>4, <1>5, <1>6, <1>7, <1>8, <1>9 DEF RunnerInv

\* A task that exits was running, so that no code had been collected.
LEMMA TaskExitsPreserves ==
  ASSUME RunnerInv, TaskExits
  PROVE  RunnerInv'
<1>1. /\ TypeOK /\ ControlInv /\ CreatedInv /\ WillBeGivenBack /\ NeededOnesRemain
      /\ ResizerInv /\ CodeInv
  BY DEF RunnerInv
<1>2. /\ task = "running" /\ task' = "stopped" /\ taskCode' \in Codes /\ exists' = exists
      /\ cfg' = cfg /\ code' = code /\ failed' = failed /\ killed' = killed
      /\ notified' = notified /\ interrupts' = interrupts /\ proxy' = proxy /\ raised' = raised
      /\ expired' = expired /\ held' = held /\ status' = status /\ exitCode' = exitCode
      /\ console' = console /\ resizer' = resizer /\ resizeDone' = resizeDone
      /\ mishaps' = mishaps
  BY DEF TaskExits, worldVars, collectVars, resizeVars, mainVars, signalVars
<1>3. /\ ControlInv' /\ Ahead' = Ahead /\ Later' = Later /\ (OnPlan' <=> OnPlan)
  BY <1>1, MainRests DEF TaskExits
<1>4. TypeOK'
  BY <1>1, <1>2, <1>3 DEF TypeOK, ControlInv, Ascending
<1>5. CreatedInv'
  BY <1>1, <1>2, <1>3 DEF CreatedInv
<1>6. WillBeGivenBack'
  BY <1>1, <1>2, <1>3
     DEF WillBeGivenBack, LeaseGoes, EndpointGoes, ContainerGoes, SnapshotGoes, TaskGoes,
         ConsoleGoes, Agenda
<1>7. NeededOnesRemain'
  BY <1>1, <1>2 DEF NeededOnesRemain, TaskKeepsItsSnapshot, LeaseOutlivesSnapshot
<1>8. ResizerInv'
  BY <1>1, <1>2, <1>3 DEF ResizerInv, Agenda
<1>9. CodeInv'
  BY <1>1, <1>2, <1>3 DEF CodeInv
<1> QED BY <1>3, <1>4, <1>5, <1>6, <1>7, <1>8, <1>9 DEF RunnerInv

\* Ctrl+C is counted, queued, or the end.
LEMMA InterruptPreserves ==
  ASSUME RunnerInv, Interrupt
  PROVE  RunnerInv'
<1>1. /\ TypeOK /\ ControlInv /\ CreatedInv /\ WillBeGivenBack /\ NeededOnesRemain
      /\ ResizerInv /\ CodeInv
  BY DEF RunnerInv
<1>2. /\ raised < MaxInterrupts /\ raised' = raised + 1
      /\ (interrupts' = interrupts \/ interrupts' = (IF interrupts < 2 THEN interrupts + 1 ELSE 2))
      /\ (killed' = killed \/ killed' = TRUE) /\ notified' = notified /\ proxy' = proxy
      /\ cfg' = cfg /\ code' = code /\ failed' = failed /\ expired' = expired
      /\ exists' = exists /\ task' = task /\ taskCode' = taskCode /\ held' = held
      /\ status' = status /\ exitCode' = exitCode /\ console' = console /\ resizer' = resizer
      /\ resizeDone' = resizeDone /\ mishaps' = mishaps
  BY DEF Interrupt, Queued, worldVars, collectVars, resizeVars, mainVars, signalVars
<1>3. /\ ControlInv' /\ Ahead' = Ahead /\ Later' = Later /\ (OnPlan' <=> OnPlan)
  BY <1>1, MainRests DEF Interrupt
<1>4. TypeOK'
  <2>1. interrupts' \in 0..2
    BY <1>1, <1>2 DEF TypeOK
  <2>2. raised' \in 0..MaxInterrupts
    BY <1>1, <1>2, SandboxRunnerAssumption DEF TypeOK
  <2>3. killed' \in BOOLEAN
    BY <1>1, <1>2 DEF TypeOK
  <2> QED BY <1>1, <1>2, <1>3, <2>1, <2>2, <2>3 DEF TypeOK, ControlInv, Ascending
<1>5. CreatedInv'
  BY <1>1, <1>2, <1>3 DEF CreatedInv
<1>6. WillBeGivenBack'
  BY <1>1, <1>2, <1>3
     DEF WillBeGivenBack, LeaseGoes, EndpointGoes, ContainerGoes, SnapshotGoes, TaskGoes,
         ConsoleGoes, Agenda
<1>7. NeededOnesRemain'
  BY <1>1, <1>2 DEF NeededOnesRemain, TaskKeepsItsSnapshot, LeaseOutlivesSnapshot
<1>8. ResizerInv'
  BY <1>1, <1>2, <1>3 DEF ResizerInv, Agenda
<1>9. CodeInv'
  BY <1>1, <1>2, <1>3 DEF CodeInv
<1> QED BY <1>3, <1>4, <1>5, <1>6, <1>7, <1>8, <1>9 DEF RunnerInv

\* Nothing happens.
LEMMA StutterPreserves ==
  ASSUME RunnerInv, UNCHANGED vars
  PROVE  RunnerInv'
<1>1. /\ TypeOK /\ ControlInv /\ CreatedInv /\ WillBeGivenBack /\ NeededOnesRemain
      /\ ResizerInv /\ CodeInv
  BY DEF RunnerInv
<1>2. /\ cfg' = cfg /\ code' = code /\ failed' = failed /\ killed' = killed
      /\ notified' = notified /\ interrupts' = interrupts /\ proxy' = proxy /\ raised' = raised
      /\ expired' = expired /\ exists' = exists /\ task' = task /\ taskCode' = taskCode
      /\ held' = held /\ status' = status /\ exitCode' = exitCode /\ console' = console
      /\ resizer' = resizer /\ resizeDone' = resizeDone /\ mishaps' = mishaps
  BY DEF vars, worldVars, collectVars, resizeVars, mainVars, signalVars
<1>3. /\ ControlInv' /\ Ahead' = Ahead /\ Later' = Later /\ (OnPlan' <=> OnPlan)
  BY <1>1, MainRests DEF vars
<1>4. TypeOK'
  BY <1>1, <1>2, <1>3 DEF TypeOK, ControlInv, Ascending
<1>5. CreatedInv'
  BY <1>1, <1>2, <1>3 DEF CreatedInv
<1>6. WillBeGivenBack'
  BY <1>1, <1>2, <1>3
     DEF WillBeGivenBack, LeaseGoes, EndpointGoes, ContainerGoes, SnapshotGoes, TaskGoes,
         ConsoleGoes, Agenda
<1>7. NeededOnesRemain'
  BY <1>1, <1>2 DEF NeededOnesRemain, TaskKeepsItsSnapshot, LeaseOutlivesSnapshot
<1>8. ResizerInv'
  BY <1>1, <1>2, <1>3 DEF ResizerInv, Agenda
<1>9. CodeInv'
  BY <1>1, <1>2, <1>3 DEF CodeInv
<1> QED BY <1>3, <1>4, <1>5, <1>6, <1>7, <1>8, <1>9 DEF RunnerInv

------------------------------------------------------------------------------
(* The invariant.                                                          *)

\* It holds at the start: the whole plan is ahead, and there is nothing.
LEMMA InitIsSafe ==
  ASSUME Init
  PROVE  RunnerInv
<1>1. /\ cfg \in [terminal : BOOLEAN, network : BOOLEAN] /\ todo = run(cfg) /\ deferred = <<>>
      /\ failed = FALSE /\ code = 0 /\ killed = FALSE /\ expired = FALSE
      /\ exists = {} /\ task = "none" /\ taskCode = 0 /\ held = {} /\ status = "absent"
      /\ exitCode = 0 /\ console = "normal" /\ resizer = "none" /\ resizeDone = FALSE
      /\ notified = FALSE /\ interrupts = 0 /\ proxy = "none" /\ raised = 0 /\ mishaps = {}
  BY DEF Init
<1>2. Ascending(todo) /\ Ahead = Planned
  BY <1>1, PlanAscends DEF Ahead
<1>3. Ascending(deferred) /\ Later = {}
  BY <1>1, EmptyAscends DEF Later
<1>4. OnPlan
  BY <1>2, PlannedAreFirst DEF OnPlan
<1>5. Head(todo) = "Connect"
  BY <1>1 DEF run
<1> HIDE DEF Ahead, Later, Planned
<1>6. ControlInv
  <2>1. \A y \in Planned : Rank[y] >= 1
    <3>1. \A y \in Planned : Rank[y] \in 1..31
      BY PlannedAreFirst, RanksAreNumbers
    <3>2. \A n \in 1..31 : n >= 1
      OBVIOUS
    <3> QED BY <3>1, <3>2
  <2>2. Rank[Head(todo)] = 1
    BY <1>5, RanksAre
  <2>3. Ahead = {y \in Planned : Rank[y] >= Rank[Head(todo)]}
    BY <1>2, <2>1, <2>2
  <2>4. OnPlanInv
    BY <1>1, <1>2, <1>3, <2>3 DEF OnPlanInv, Passed
  <2> QED BY <1>2, <1>3, <1>4, <2>4 DEF ControlInv
<1>7. TypeOK
  <2>1. todo \in Seq(Steps) /\ deferred \in Seq(Steps)
    BY <1>2, <1>3 DEF Ascending
  <2>2. raised \in 0..MaxInterrupts /\ interrupts \in 0..2
    BY <1>1, SandboxRunnerAssumption
  <2>3. failed \in BOOLEAN /\ killed \in BOOLEAN /\ expired \in BOOLEAN /\ resizeDone \in BOOLEAN
        /\ notified \in BOOLEAN
    BY <1>1
  <2> QED BY <1>1, <2>1, <2>2, <2>3 DEF TypeOK
<1>8. CreatedInv
  <2>1. "CreateLease" \in Ahead /\ "CreateContainer" \in Ahead
    BY <1>2 DEF Planned
  <2> QED BY <1>1, <2>1 DEF CreatedInv
<1>9. WillBeGivenBack /\ NeededOnesRemain
  BY <1>1 DEF WillBeGivenBack, LeaseGoes, EndpointGoes, ContainerGoes, SnapshotGoes, TaskGoes,
              ConsoleGoes, NeededOnesRemain, TaskKeepsItsSnapshot, LeaseOutlivesSnapshot
<1>10. ResizerInv /\ CodeInv
  BY <1>1, <1>4 DEF ResizerInv, CodeInv
<1> QED BY <1>6, <1>7, <1>8, <1>9, <1>10 DEF RunnerInv

\* Every step preserves it.
LEMMA NextIsSafe ==
  ASSUME RunnerInv, [Next]_vars
  PROVE  RunnerInv'
<1>1. CASE Connect
  BY <1>1, ConnectPreserves
<1>2. CASE DetectSnapshotter
  BY <1>2, DetectSnapshotterPreserves
<1>3. CASE CreateLease
  BY <1>3, CreateLeasePreserves
<1>4. CASE GetImage
  BY <1>4, GetImagePreserves
<1>5. CASE DropLease
  BY <1>5, DropLeasePreserves
<1>6. CASE EnableConsole
  BY <1>6, EnableConsolePreserves
<1>7. CASE CreateEndpoint
  BY <1>7, CreateEndpointPreserves
<1>8. CASE CreateContainer
  BY <1>8, CreateContainerPreserves
<1>9. CASE DropSnapshot
  BY <1>9, DropSnapshotPreserves
<1>10. CASE CreateTask
  BY <1>10, CreateTaskPreserves
<1>11. CASE RegisterWait
  BY <1>11, RegisterWaitPreserves
<1>12. CASE StartTask
  BY <1>12, StartTaskPreserves
<1>13. CASE DropTask
  BY <1>13, DropTaskPreserves
<1>14. CASE Relay
  BY <1>14, RelayPreserves
<1>15. CASE Wait
  BY <1>15, WaitPreserves
<1>16. CASE Stop
  BY <1>16, StopPreserves
<1>17. CASE Poll
  BY <1>17, PollPreserves
<1>18. CASE Kill
  BY <1>18, KillPreserves
<1>19. CASE StopSignals
  BY <1>19, StopSignalsPreserves
<1>20. CASE CloseResize
  BY <1>20, CloseResizePreserves
<1>21. CASE AwaitResize
  BY <1>21, AwaitResizePreserves
<1>22. CASE RestoreConsole
  BY <1>22, RestoreConsolePreserves
<1>23. CASE DeleteTask
  BY <1>23, DeleteTaskPreserves
<1>24. CASE DeleteContainer
  BY <1>24, DeleteContainerPreserves
<1>25. CASE RemoveSnapshot
  BY <1>25, RemoveSnapshotPreserves
<1>26. CASE DeleteMetadata
  BY <1>26, DeleteMetadataPreserves
<1>27. CASE DeleteEndpoint
  BY <1>27, DeleteEndpointPreserves
<1>28. CASE DeleteLease
  BY <1>28, DeleteLeasePreserves
<1>29. CASE CloseClient
  BY <1>29, CloseClientPreserves
<1>30. CASE collectExit
  BY <1>30, collectExitPreserves
<1>31. CASE Resize
  BY <1>31, ResizePreserves
<1>32. CASE EndResize
  BY <1>32, EndResizePreserves
<1>33. CASE Proxy
  BY <1>33, ProxyPreserves
<1>34. CASE Expire
  BY <1>34, ExpirePreserves
<1>35. CASE TaskExits
  BY <1>35, TaskExitsPreserves
<1>36. CASE Interrupt
  BY <1>36, InterruptPreserves
<1>37. CASE UNCHANGED vars
  BY <1>37, StutterPreserves
<1> QED BY <1>1, <1>2, <1>3, <1>4, <1>5, <1>6, <1>7, <1>8, <1>9, <1>10, <1>11, <1>12, <1>13,
           <1>14, <1>15, <1>16, <1>17, <1>18, <1>19, <1>20, <1>21, <1>22, <1>23, <1>24,
           <1>25, <1>26, <1>27, <1>28, <1>29, <1>30, <1>31, <1>32, <1>33, <1>34, <1>35,
           <1>36, <1>37 DEF Next, Main

\* The invariant holds in every state the program can be in.
THEOREM RunnerInvariant == Spec => []RunnerInv
<1>1. Init => RunnerInv
  BY InitIsSafe
<1>2. RunnerInv /\ [Next]_vars => RunnerInv'
  BY NextIsSafe
<1> QED BY <1>1, <1>2, PTL DEF Spec

\* Every variable always has its type.
THEOREM TypeCorrect == Spec => []TypeOK
<1>1. RunnerInv => TypeOK
  BY DEF RunnerInv
<1> QED BY <1>1, RunnerInvariant, PTL

\* When run has returned there is no step left, and main is not on the plan.
LEMMA ReturnedHasNoSteps ==
  ASSUME RunnerInv, Returned
  PROVE  ~OnPlan /\ Ahead = {} /\ Agenda = {}
<1>1. todo = <<>> /\ ControlInv
  BY DEF Returned, RunnerInv
<1>2. Ahead = {}
  BY <1>1, EmptyAscends DEF Ahead
<1>3. ~OnPlan
  BY <1>2 DEF OnPlan
<1>4. Later = {}
  BY <1>1, <1>3 DEF ControlInv, OffPlanInv
<1> QED BY <1>2, <1>3, <1>4 DEF Agenda

\* When nothing that was created went unreported, and no deletion failed, nothing is
\* left once run has returned, whatever calls failed and whenever the deadline passed.
LEMMA ReturnLeavesNothing ==
  ASSUME RunnerInv, Returned, mishaps = {}
  PROVE  NothingLeft
<1>1. /\ exists \subseteq Things /\ console \in {"normal", "raw"} /\ WillBeGivenBack
  BY DEF RunnerInv, TypeOK
<1>2. Ahead = {} /\ Agenda = {}
  BY ReturnedHasNoSteps
<1>3. exists = {}
  BY <1>1, <1>2 DEF WillBeGivenBack, LeaseGoes, EndpointGoes, ContainerGoes, SnapshotGoes, Things
<1>4. task = "none" /\ console = "normal"
  BY <1>1, <1>2 DEF WillBeGivenBack, TaskGoes, ConsoleGoes
<1> QED BY <1>3, <1>4 DEF NothingLeft

\* run gives back what it has made, whatever fails.
THEOREM LeaksNeedMishaps == Spec => []LeakNeedsMishap
<1>1. RunnerInv => LeakNeedsMishap
  BY ReturnLeavesNothing DEF LeakNeedsMishap
<1> QED BY <1>1, RunnerInvariant, PTL

\* And when it cannot, it returns an error.
THEOREM LeaksAreReported == Spec => []NoSilentLeak
<1>1. RunnerInv => NoSilentLeak
  <2> SUFFICES ASSUME RunnerInv, Returned, ~failed PROVE NothingLeft
    BY DEF NoSilentLeak
  <2>1. mishaps = {}
    BY DEF RunnerInv, CreatedInv
  <2> QED BY <2>1, ReturnLeavesNothing
<1> QED BY <1>1, RunnerInvariant, PTL

\* Nothing is deleted from under what still needs it, whatever failed before, unless the
\* deletion of what needs it failed: then run has an error to return.
THEOREM NeededRemain == Spec => []NeededOnesRemain
<1>1. RunnerInv => NeededOnesRemain
  BY DEF RunnerInv
<1> QED BY <1>1, RunnerInvariant, PTL

\* The resize goroutine has ended before the console is given back and the task deleted.
THEOREM ResizingEndsFirst == Spec => []ResizeEndsFirst
<1>1. RunnerInv => ResizeEndsFirst
  <2> SUFFICES ASSUME RunnerInv, resizer = "calling"
               PROVE  \/ "RestoreConsole" \in {todo[n] : n \in DOMAIN todo}
                      \/ "RestoreConsole" \in {deferred[n] : n \in DOMAIN deferred}
    BY DEF ResizeEndsFirst
  <2>1. "RestoreConsole" \in Ahead \/ "RestoreConsole" \in Later
    BY DEF RunnerInv, ResizerInv, Agenda
  <2>2. todo \in Seq(Steps) /\ deferred \in Seq(Steps)
    BY DEF RunnerInv, TypeOK
  <2>3. DOMAIN todo = 1..Len(todo) /\ DOMAIN deferred = 1..Len(deferred)
    BY <2>2
  <2> QED BY <2>1, <2>3 DEF Ahead, Later, Elements
<1> QED BY <1>1, RunnerInvariant, PTL

\* The exit code run returns without an error is the one the task exited with.
THEOREM CodeIsTheTasks == Spec => []ReportedCodeIsTrue
<1>1. RunnerInv => ReportedCodeIsTrue
  <2> SUFFICES ASSUME RunnerInv, Returned, ~failed PROVE status = "exited" /\ code = taskCode
    BY DEF ReportedCodeIsTrue
  <2>1. ~OnPlan
    BY ReturnedHasNoSteps
  <2> QED BY <2>1 DEF RunnerInv, CodeInv
<1> QED BY <1>1, RunnerInvariant, PTL
==============================================================================
