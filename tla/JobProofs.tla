------------------------------ MODULE JobProofs ------------------------------
(***************************************************************************)
(* Proofs about Job, for every number of stages and every number of        *)
(* signals sent by other parties: its types and its launch first, then     *)
(* what its caller is told, namely that a stopped job is stopped, that a   *)
(* termination sent by the supervisor is on record, and that a launch      *)
(* error names its cause.                                                  *)
(***************************************************************************)
EXTENDS Job, SequenceTheorems, WellFoundedInduction, TLAPS

USE DEF Leader

-----------------------------------------------------------------------------
(* Type correctness.                                                       *)

\* The values poll computes from the kernel's state have the types of its fields.
LEMMA PollTypes ==
  ASSUME TypeOK
  PROVE  /\ [i \in Stages |-> SeenExit(i)] \in [Stages -> Fates]
         /\ [i \in Stages |-> SeenStop(i)] \in [Stages -> BOOLEAN]
  BY DEF TypeOK, SeenExit, SeenStop

\* A process that ends keeps the kernel's variables in their types.
LEMMA EndsType ==
  ASSUME TypeOK, NEW i \in Stages, NEW how \in Fates, Ends(i, how)
  PROVE  /\ proc' \in [Stages -> Alive \cup {"absent", "zombie", "reaped"}]
         /\ fate' \in [Stages -> Fates]
         /\ halted' \in [Stages -> BOOLEAN]
         /\ event' \in [Stages -> {"none", "stopped", "continued"}]
         /\ pend' \in [Stages -> SUBSET {"term", "kill"}]
         /\ wake' \in BOOLEAN
  BY DEF TypeOK, Ends

\* Group signals keep the kernel's variables in their types.
LEMMA SignalTypes ==
  ASSUME TypeOK, NEW S \in SUBSET Stages
  PROVE  /\ Stopping(S) \/ Continuing(S) =>
              /\ halted' \in [Stages -> BOOLEAN]
              /\ event' \in [Stages -> {"none", "stopped", "continued"}]
              /\ wake' \in BOOLEAN
         /\ \A signal \in {"term", "kill"} :
              Terminating(S, signal) => pend' \in [Stages -> SUBSET {"term", "kill"}]
  <1>1. ASSUME Stopping(S) \/ Continuing(S)
        PROVE  /\ halted' \in [Stages -> BOOLEAN]
               /\ event' \in [Stages -> {"none", "stopped", "continued"}]
               /\ wake' \in BOOLEAN
    <2>1. /\ halted \in [Stages -> BOOLEAN] /\ wake \in BOOLEAN
          /\ event \in [Stages -> {"none", "stopped", "continued"}]
      BY DEF TypeOK
    <2>2. CASE Stopping(S)
      <3>1. halted' = [i \in Stages |-> halted[i] \/ i \in {j \in S : ~halted[j]}]
        BY <2>2 DEF Stopping
      <3>2. event' \in [Stages -> {"none", "stopped", "continued"}]
        BY <2>1, <2>2 DEF Stopping
      <3>3. QED BY <2>1, <2>2, <3>1, <3>2 DEF Stopping
    <2>3. CASE Continuing(S)
      <3>1. halted' = [i \in Stages |-> halted[i] /\ i \notin {j \in S : halted[j]}]
        BY <2>3 DEF Continuing
      <3>2. event' \in [Stages -> {"none", "stopped", "continued"}]
        BY <2>1, <2>3 DEF Continuing
      <3>3. QED BY <2>1, <2>3, <3>1, <3>2 DEF Continuing
    <2>4. QED BY <1>1, <2>2, <2>3
  <1>2. ASSUME NEW signal \in {"term", "kill"}, Terminating(S, signal)
        PROVE  pend' \in [Stages -> SUBSET {"term", "kill"}]
    BY <1>2 DEF TypeOK, Terminating
  <1>3. QED BY <1>1, <1>2

\* A record written to the status pipe keeps it a sequence of records.
LEMMA ReportType ==
  ASSUME TypeOK, NEW i \in Stages, NEW error \in BOOLEAN,
         NEW next \in {"gated", "failing"}, Report(i, error, next)
  PROVE  /\ status' \in Seq(Record)
         /\ proc' \in [Stages -> Alive \cup {"absent", "zombie", "reaped"}]
         /\ fate' \in [Stages -> Fates]
         /\ halted' \in [Stages -> BOOLEAN]
         /\ event' \in [Stages -> {"none", "stopped", "continued"}]
         /\ pend' \in [Stages -> SUBSET {"term", "kill"}]
         /\ wake' \in BOOLEAN
  <1>1. CASE statusOpen
    <2>1. [stage |-> i, error |-> error] \in Record
      BY DEF Record
    <2>3. status \in Seq(Record)
      BY DEF TypeOK
    <2>4. status' = Append(status, [stage |-> i, error |-> error])
      BY <1>1 DEF Report
    <2>2. status' \in Seq(Record)
      BY <2>1, <2>3, <2>4, AppendProperties
    <2>5. QED BY <1>1, <2>2 DEF TypeOK, Report, Alive, Helper
  <1>2. CASE ~statusOpen
    BY <1>2, EndsType DEF TypeOK, Report, Fates
  <1>3. QED BY <1>1, <1>2

\* Received records name stages of the plan.
LEMMA ReceiveType ==
  ASSUME TypeOK, Receive
  PROVE  /\ status' \in Seq(Record)
         /\ ready' \subseteq Stages /\ failed' \subseteq Stages
         /\ call' \in {"idle", call} /\ escalated' = escalated
         /\ at' \in {"none", "release", "drain"}
         /\ result' \in {result, "error", "protocol"}
         /\ UNCHANGED <<statusOpen, exit, stopped, proc, event>>
  <1>1. \A k \in DOMAIN status : status[k].stage \in Stages
    <2>1. status \in Seq(Record) BY DEF TypeOK
    <2>2. \A k \in DOMAIN status : status[k] \in Record
      BY <2>1, ElementOfSeq
    <2>3. QED BY <2>2 DEF Record
  <1>2. ready' \subseteq Stages /\ failed' \subseteq Stages
    BY <1>1 DEF TypeOK, Receive, Good, FirstBad
  <1>3. QED BY <1>2 DEF Receive, Continue, Return

LEMMA ReceiveEndType ==
  ASSUME ReceiveEnd
  PROVE  /\ UNCHANGED <<status, ready, failed, exit, stopped, proc, event, escalated>>
         /\ statusOpen' = FALSE /\ call' = "idle" /\ at' = "none"
         /\ result' \in {"ok", "lost"}
  BY DEF ReceiveEnd, Return

LEMMA TypeInit == Init => TypeOK
  <1>1. <<>> \in Seq(Record) OBVIOUS
  <1>2. 0 \in 0..N /\ 0 \in 0..MaxExternal
    BY StageCount, ExternalBound
  <1>3. SUFFICES ASSUME Init PROVE TypeOK OBVIOUS
  <1>4. /\ proc \in [Stages -> Alive \cup {"absent", "zombie", "reaped"}]
        /\ fate \in [Stages -> Fates] /\ exit \in [Stages -> Fates]
        /\ event \in [Stages -> {"none", "stopped", "continued"}]
        /\ pend \in [Stages -> SUBSET {"term", "kill"}]
        /\ halted \in [Stages -> BOOLEAN] /\ stopped \in [Stages -> BOOLEAN]
    BY <1>3 DEF Init, Fates
  <1>5. QED BY <1>1, <1>2, <1>3, <1>4 DEF Init, TypeOK

LEMMA KernelType ==
  ASSUME TypeOK, NEW i \in Stages, Kernel(i)
  PROVE  TypeOK'
  <1>1. CASE Deliver(i)
    <2>1. CASE UNCHANGED <<proc, fate, halted, event, wake>>
      BY <1>1, <2>1 DEF Deliver, TypeOK, pipeVars, recordVars, callVars, Ends
    <2>2. CASE \E how \in {"kill", "term"} : Ends(i, how)
      BY <1>1, <2>2, EndsType DEF Deliver, TypeOK, pipeVars, recordVars, callVars, Fates
    <2>3. QED BY <1>1, <2>1, <2>2 DEF Deliver
  <1>2. CASE External(i)
    <2>1. external' \in 0..MaxExternal
      BY <1>2, ExternalBound DEF External, TypeOK
    <2>2. CASE Ends(i, "foreign")
      BY <1>2, <2>1, <2>2, EndsType
         DEF External, TypeOK, pipeVars, recordVars, callVars, Fates
    <2>3. CASE (Stopping({i}) \/ Continuing({i})) /\ UNCHANGED <<proc, fate, pend>>
      BY <1>2, <2>1, <2>3, SignalTypes
         DEF External, TypeOK, pipeVars, recordVars, callVars
    <2>4. QED BY <1>2, <2>2, <2>3 DEF External
  <1>3. QED BY <1>1, <1>2 DEF Kernel

LEMMA StageType ==
  ASSUME TypeOK, NEW i \in Stages, Stage(i)
  PROVE  TypeOK'
  <1> USE DEF helperFrame, recordVars, callVars
  <1>1. CASE HelperReady(i)
    <2>1. Report(i, FALSE, "gated") BY <1>1 DEF HelperReady
    <2>2. arrived' \subseteq Stages BY <1>1 DEF HelperReady, TypeOK
    <2>3. /\ status' \in Seq(Record)
          /\ proc' \in [Stages -> Alive \cup {"absent", "zombie", "reaped"}]
          /\ fate' \in [Stages -> Fates]
          /\ halted' \in [Stages -> BOOLEAN]
          /\ event' \in [Stages -> {"none", "stopped", "continued"}]
          /\ pend' \in [Stages -> SUBSET {"term", "kill"}]
          /\ wake' \in BOOLEAN
      BY <2>1, ReportType
    <2>4. QED BY <1>1, <2>2, <2>3 DEF HelperReady, TypeOK
  <1>2. CASE HelperFails(i)
    <2>1. Report(i, TRUE, "failing") BY <1>2 DEF HelperFails
    <2>2. /\ status' \in Seq(Record)
          /\ proc' \in [Stages -> Alive \cup {"absent", "zombie", "reaped"}]
          /\ fate' \in [Stages -> Fates]
          /\ halted' \in [Stages -> BOOLEAN]
          /\ event' \in [Stages -> {"none", "stopped", "continued"}]
          /\ pend' \in [Stages -> SUBSET {"term", "kill"}]
          /\ wake' \in BOOLEAN
      BY <2>1, ReportType
    <2>3. QED BY <1>2, <2>2 DEF HelperFails, TypeOK
  <1>3. CASE HelperReleased(i)
    BY <1>3 DEF HelperReleased, TypeOK, Alive, Helper
  <1>4. CASE HelperExecs(i)
    BY <1>4 DEF HelperExecs, TypeOK, Alive, Helper
  <1>5. CASE HelperExits(i)
    BY <1>5, EndsType DEF HelperExits, TypeOK, Fates
  <1>6. CASE TargetExits(i)
    BY <1>6, EndsType DEF TargetExits, TypeOK, Fates
  <1>7. QED BY <1>1, <1>2, <1>3, <1>4, <1>5, <1>6 DEF Stage

\* The three ways launch_status goes on after looking at the status pipe.
LEMMA ReceivedType ==
  ASSUME TypeOK, UNCHANGED commitFrame, wake' \in BOOLEAN,
         Receive \/ ReceiveEnd
  PROVE  TypeOK'
  <1> USE DEF commitFrame
  <1>1. CASE Receive
    <2>1. /\ call' \in {"spawn", "idle", "commit", "wait", "cancel", "done", "dropped"}
          /\ result' \in {"none", "ok", "error", "protocol", "lost", "stopped", "finished"}
          /\ escalated' \in BOOLEAN
          /\ at' \in {"none", "drain", "poll", "reread", "await", "release", "signal"}
      BY <1>1, ReceiveType DEF TypeOK
    <2>2. QED BY <1>1, <2>1, ReceiveType DEF TypeOK
  <1>2. CASE ReceiveEnd
    BY <1>2, ReceiveEndType DEF TypeOK
  <1>3. QED BY <1>1, <1>2

LEMMA LookedType ==
  ASSUME TypeOK, UNCHANGED commitFrame, wake' \in BOOLEAN,
         NEW value \in {"ok", "lost"}, NEW where \in {"poll", "drain"},
         Return(value) \/ Continue(where),
         UNCHANGED <<status, statusOpen, ready, failed, exit, stopped, proc, event>>
  PROVE  TypeOK'
  BY DEF commitFrame, TypeOK, Return, Continue

LEMMA LaunchType ==
  ASSUME TypeOK, Drain \/ PollLaunch \/ Reread \/ AwaitLaunch \/ Release
  PROVE  TypeOK'
  <1> USE DEF commitFrame
  <1>1. CASE Drain
    <2>1. /\ UNCHANGED commitFrame /\ wake' \in BOOLEAN
      BY <1>1 DEF Drain, TypeOK
    <2>2. \/ Receive \/ ReceiveEnd
          \/ /\ Return("ok") \/ Return("lost") \/ Continue("poll")
             /\ UNCHANGED <<status, statusOpen, ready, failed, exit, stopped, proc, event>>
      BY <1>1 DEF Drain
    <2>3. QED BY <2>1, <2>2, ReceivedType, LookedType
  <1>2. CASE PollLaunch
    BY <1>2, PollTypes DEF PollLaunch, Poll, TypeOK, Continue, Return
  <1>3. CASE Reread
    <2>1. /\ UNCHANGED commitFrame /\ wake' \in BOOLEAN
      BY <1>3 DEF Reread, TypeOK
    <2>2. \/ Receive \/ ReceiveEnd
          \/ /\ Return("lost")
             /\ UNCHANGED <<status, statusOpen, ready, failed, exit, stopped, proc, event>>
      BY <1>3 DEF Reread
    <2>3. QED BY <2>1, <2>2, ReceivedType, LookedType
  <1>4. CASE AwaitLaunch
    <2>1. /\ UNCHANGED commitFrame /\ wake' \in BOOLEAN
      BY <1>4 DEF AwaitLaunch, TypeOK
    <2>2. \/ Receive \/ ReceiveEnd
          \/ /\ Continue("drain")
             /\ UNCHANGED <<status, statusOpen, ready, failed, exit, stopped, proc, event>>
      BY <1>4 DEF AwaitLaunch
    <2>3. QED BY <2>1, <2>2, ReceivedType, LookedType
  <1>5. CASE Release
    <2>1. written' \in 0..N /\ gate' \in Nat
      BY <1>5, StageCount DEF Release, TypeOK
    <2>2. QED
      BY <1>5, <2>1 DEF Release, TypeOK, kernelVars, Continue, Return
  <1>6. QED BY <1>1, <1>2, <1>3, <1>4, <1>5

LEMMA WaitType ==
  ASSUME TypeOK, PollWait \/ Freeze \/ AwaitWait
  PROVE  TypeOK'
  <1> USE DEF waitFrame, pipeVars, recordVars
  <1>1. CASE PollWait
    BY <1>1, PollTypes DEF PollWait, Poll, TypeOK, Continue, Return
  <1>2. CASE Freeze
    <2>1. Members \in SUBSET Stages BY DEF Members
    <2>2. QED BY <1>2, <2>1, SignalTypes DEF Freeze, TypeOK, Continue
  <1>3. CASE AwaitWait
    BY <1>3 DEF AwaitWait, TypeOK, Continue
  <1>4. QED BY <1>1, <1>2, <1>3

LEMMA CancelType ==
  ASSUME TypeOK,
         PollCancel \/ CancelSignals \/ PollCancelled \/ AwaitCancelled \/ Escalate
  PROVE  TypeOK'
  <1> USE DEF pipeVars, recordVars
  <1>1. Members \in SUBSET Stages /\ Live \subseteq Stages
    BY DEF Members, Live, Spawned
  <1>2. CASE PollCancel
    BY <1>2, PollTypes DEF PollCancel, Poll, TypeOK, Continue
  <1>3. CASE CancelSignals
    <2>1. /\ pend' \in [Stages -> SUBSET {"term", "kill"}]
          /\ sent' \subseteq Stages \X {"term", "kill"}
          /\ halted' \in [Stages -> BOOLEAN]
          /\ event' \in [Stages -> {"none", "stopped", "continued"}]
          /\ wake' \in BOOLEAN
      BY <1>1, <1>3, SignalTypes DEF CancelSignals, TypeOK
    <2>2. QED BY <1>3, <2>1 DEF CancelSignals, TypeOK, Continue
  <1>4. CASE PollCancelled
    <2>1. /\ exit' \in [Stages -> Fates] /\ stopped' \in [Stages -> BOOLEAN]
          /\ event' \in [Stages -> {"none", "stopped", "continued"}]
      BY <1>4, PollTypes DEF PollCancelled
    <2>2. proc' \in [Stages -> Alive \cup {"absent", "zombie", "reaped"}]
      BY <1>4 DEF PollCancelled, TypeOK
    <2>3. /\ group' \in BOOLEAN
          /\ call' \in {"spawn", "idle", "commit", "wait", "cancel", "done", "dropped"}
          /\ at' \in {"none", "drain", "poll", "reread", "await", "release", "signal"}
          /\ UNCHANGED <<escalated, result>>
      BY <1>4 DEF PollCancelled, TypeOK, Continue
    <2>4. QED BY <1>4, <2>1, <2>2, <2>3 DEF PollCancelled, TypeOK
  <1>5. CASE AwaitCancelled
    BY <1>5 DEF AwaitCancelled, TypeOK, Continue
  <1>6. CASE Escalate
    <2>1. /\ pend' \in [Stages -> SUBSET {"term", "kill"}]
          /\ sent' \subseteq Stages \X {"term", "kill"}
      BY <1>1, <1>6, SignalTypes DEF Escalate, TypeOK
    <2>2. QED BY <1>6, <2>1 DEF Escalate, TypeOK
  <1>7. QED BY <1>2, <1>3, <1>4, <1>5, <1>6

LEMMA CallerType ==
  ASSUME TypeOK, Caller \/ \E i \in Stages : Spawn(i)
  PROVE  TypeOK'
  <1> USE DEF kernelVars, pipeVars, recordVars
  <1>1. Members \in SUBSET Stages /\ Leader \in Stages
    BY StageCount DEF Members, Stages
  <1>2. CASE \E i \in Stages : Spawn(i)
    BY <1>2 DEF Spawn, TypeOK, Alive, Helper
  <1>3. CASE SpawnFails \/ Commit \/ Wait \/ Cancel \/ DropCall
    BY <1>3 DEF SpawnFails, Commit, Wait, Cancel, DropCall, Return, Usable, TypeOK
  <1>4. CASE Suspend
    BY <1>1, <1>4, SignalTypes DEF Suspend, Usable, TypeOK
  <1>5. CASE Resume
    BY <1>1, <1>5, SignalTypes DEF Resume, Usable, TypeOK
  <1>6. CASE Reap
    <2>1. proc' \in [Stages -> Alive \cup {"absent", "zombie", "reaped"}] /\ group' \in BOOLEAN
      BY <1>6 DEF Reap, GiveUpGroup, TypeOK
    <2>2. QED BY <1>6, <2>1 DEF Reap, TypeOK
  <1>7. CASE Drop
    <2>1. pend' \in [Stages -> SUBSET {"term", "kill"}]
      BY <1>1, <1>7, SignalTypes DEF Drop, TypeOK
    <2>2. proc' \in [Stages -> Alive \cup {"absent", "zombie", "reaped"}]
      BY <1>7 DEF Drop, TypeOK
    <2>3. QED BY <1>7, <2>1, <2>2, PollTypes DEF Drop, TypeOK
  <1>8. QED BY <1>2, <1>3, <1>4, <1>5, <1>6, <1>7 DEF Caller

LEMMA TypeStep == TypeOK /\ [Next]_vars => TypeOK'
  <1> SUFFICES ASSUME TypeOK, [Next]_vars PROVE TypeOK' OBVIOUS
  <1>1. CASE UNCHANGED vars
    BY <1>1 DEF vars, kernelVars, pipeVars, recordVars, callVars, TypeOK
  <1>2. CASE Next
    BY <1>2, KernelType, StageType, LaunchType, WaitType, CancelType, CallerType
       DEF Next, Progress
  <1>3. QED BY <1>1, <1>2

\* Every reachable state of a job is well typed; in particular the gate never
\* receives more than one byte for each stage (written \in 0..N).
THEOREM TypeCorrect == Spec => []TypeOK
  BY TypeInit, TypeStep, PTL DEF Spec

-----------------------------------------------------------------------------
(* The launch gate.                                                        *)

\* Why a target runs only behind the barrier: every piece of state that can let a
\* helper pass (a byte in the gate, a call about to write it, a released helper)
\* exists only once all readiness records were received, and a record is
\* received only after it was written.
BarrierInv ==
  /\ ready \subseteq arrived
  /\ \A k \in DOMAIN status : ~status[k].error => status[k].stage \in arrived
  /\ written \in {0, N}
  /\ at = "release" => ready = Stages
  /\ written = N => ready = Stages
  /\ gate > 0 => written = N
  /\ \A i \in Stages : proc[i] \in {"released", "target"} => written = N

\* Why a group id is never signalled after it was given up: the observations of
\* poll agree with the kernel, only members other than the leader are reaped by
\* it, and the leader goes last.
GroupInv ==
  /\ group <=> proc[Leader] \notin {"absent", "reaped"}
  /\ call = "spawn" => \A i \in Stages : proc[i] # "reaped"
  /\ call = "done" => ~group
  /\ \A i \in Stages : proc[i] = "reaped" => exit[i] # "none"
  /\ \A i \in Stages :
       exit[i] # "none" =>
         /\ exit[i] = fate[i]
         /\ proc[i] \in {"zombie", "reaped"}
         /\ i # Leader => proc[i] = "reaped"
  /\ proc[Leader] = "reaped" => \A i \in Stages : proc[i] \in {"absent", "reaped"}
  /\ \A i \in Stages : proc[i] = "zombie" => fate[i] # "none"

LEMMA BarrierInit == Init => BarrierInv
  BY StageCount DEF Init, BarrierInv, Stages

\* Most steps neither touch the launch protocol nor let a helper pass the gate.
LEMMA BarrierFrame ==
  ASSUME BarrierInv, UNCHANGED <<ready, arrived, status, written, gate>>,
         at' \in {at, "none", "drain", "poll", "reread", "await", "signal"},
         \A i \in Stages : proc'[i] \in {"released", "target"} => proc'[i] = proc[i]
  PROVE  BarrierInv'
  BY DEF BarrierInv

\* A process that ends passes no gate.
LEMMA EndsBarrier ==
  ASSUME TypeOK, NEW i \in Stages, NEW how, Ends(i, how)
  PROVE  \A j \in Stages : proc'[j] \in {"released", "target"} => proc'[j] = proc[j]
  BY DEF TypeOK, Ends

LEMMA KernelBarrier ==
  ASSUME TypeOK, BarrierInv, NEW i \in Stages, Kernel(i)
  PROVE  BarrierInv'
  <1> USE DEF pipeVars, recordVars, callVars
  <1>1. \A j \in Stages : proc'[j] \in {"released", "target"} => proc'[j] = proc[j]
    BY EndsBarrier DEF Kernel, Deliver, External
  <1>2. UNCHANGED <<ready, arrived, status, written, gate, at>>
    BY DEF Kernel, Deliver, External
  <1>3. QED BY <1>1, <1>2, BarrierFrame

\* A record goes to the end of the pipe and, if it says "ready", its writer has arrived.
LEMMA ReportBarrier ==
  ASSUME TypeOK, BarrierInv, NEW i \in Stages, NEW error \in BOOLEAN,
         NEW next \in {"gated", "failing"}, Report(i, error, next),
         arrived \subseteq arrived', ~error /\ statusOpen => i \in arrived',
         UNCHANGED <<ready, written, gate, at>>
  PROVE  BarrierInv'
  <1>1. \A j \in Stages : proc'[j] \in {"released", "target"} => proc'[j] = proc[j]
    <2>1. CASE statusOpen BY <2>1 DEF Report, TypeOK
    <2>2. CASE ~statusOpen BY <2>2, EndsBarrier DEF Report
    <2>3. QED BY <2>1, <2>2
  <1>2. \A k \in DOMAIN status' : ~status'[k].error => status'[k].stage \in arrived'
    <2>1. CASE ~statusOpen BY <2>1 DEF Report, BarrierInv
    <2>2. CASE statusOpen
      <3>1. status' = Append(status, [stage |-> i, error |-> error])
        BY <2>2 DEF Report
      <3>2. status \in Seq(Record) /\ [stage |-> i, error |-> error] \in Record
        BY DEF TypeOK, Record
      <3>3. /\ DOMAIN status = 1..Len(status) /\ Len(status) \in Nat
            /\ DOMAIN status' = 1..(Len(status) + 1)
            /\ \A k \in 1..Len(status) : status'[k] = status[k]
            /\ status'[Len(status) + 1] = [stage |-> i, error |-> error]
        BY <3>1, <3>2, AppendProperties
      <3>4. TAKE k \in DOMAIN status'
      <3>5. CASE k = Len(status) + 1 BY <2>2, <3>3, <3>5
      <3>6. CASE k \in 1..Len(status) BY <3>3, <3>6 DEF BarrierInv
      <3>7. QED BY <3>3, <3>4, <3>5, <3>6
    <2>3. QED BY <2>1, <2>2
  <1>3. QED BY <1>1, <1>2 DEF BarrierInv

LEMMA StageBarrier ==
  ASSUME TypeOK, BarrierInv, NEW i \in Stages, Stage(i)
  PROVE  BarrierInv'
  <1> USE DEF helperFrame, recordVars, callVars
  <1>1. CASE HelperReady(i)
    BY <1>1, ReportBarrier DEF HelperReady, TypeOK
  <1>2. CASE HelperFails(i)
    BY <1>2, ReportBarrier DEF HelperFails
  <1>3. CASE HelperReleased(i)
    BY <1>3 DEF HelperReleased, BarrierInv, TypeOK
  <1>4. CASE HelperExecs(i)
    BY <1>4 DEF HelperExecs, BarrierInv, TypeOK
  <1>5. CASE HelperExits(i) \/ TargetExits(i)
    <2>1. \A j \in Stages : proc'[j] \in {"released", "target"} => proc'[j] = proc[j]
      BY <1>5, EndsBarrier DEF HelperExits, TargetExits
    <2>2. QED BY <1>5, <2>1, BarrierFrame DEF HelperExits, TargetExits
  <1>6. QED BY <1>1, <1>2, <1>3, <1>4, <1>5 DEF Stage

\* Received readiness records were written by stages that arrived.
LEMMA ReceiveBarrier ==
  ASSUME TypeOK, BarrierInv, Receive, UNCHANGED <<written, gate, arrived>>
  PROVE  BarrierInv'
  <1>1. ready \subseteq ready' BY DEF Receive
  <1>2. ready' \subseteq arrived
    BY DEF Receive, Good, Bad, BarrierInv
  <1>3. at' = "release" => ready' = Stages
    BY DEF Receive, Continue, Return
  <1>4. ready' \subseteq Stages BY ReceiveType
  <1>5. status' = <<>> /\ UNCHANGED proc BY DEF Receive
  <1>6. \A k \in DOMAIN status' : ~status'[k].error => status'[k].stage \in arrived'
    BY <1>5
  <1>7. written' = N => ready' = Stages
    BY <1>1, <1>4 DEF BarrierInv
  <1>8. ready' \subseteq arrived' /\ written' \in {0, N} /\ (gate' > 0 => written' = N)
    BY <1>2 DEF BarrierInv
  <1>9. \A i \in Stages : proc'[i] \in {"released", "target"} => written' = N
    BY <1>5 DEF BarrierInv
  <1>10. QED BY <1>3, <1>6, <1>7, <1>8, <1>9 DEF BarrierInv

LEMMA ProgressBarrier ==
  ASSUME TypeOK, BarrierInv, Progress \/ Escalate
  PROVE  BarrierInv'
  <1> USE DEF commitFrame, waitFrame, pipeVars, recordVars, kernelVars
  <1> DEFINE Quiet ==
        /\ UNCHANGED <<ready, arrived, status, written, gate>>
        /\ at' \in {at, "none", "drain", "poll", "reread", "await", "signal"}
        /\ \A i \in Stages : proc'[i] \in {"released", "target"} => proc'[i] = proc[i]
  <1>1. Quiet => BarrierInv' BY BarrierFrame
  <1>2. CASE Drain \/ Reread \/ AwaitLaunch
    <2>1. CASE Receive BY <1>2, <2>1, ReceiveBarrier DEF Drain, Reread, AwaitLaunch
    <2>2. CASE ~Receive
      BY <1>1, <1>2, <2>2 DEF Drain, Reread, AwaitLaunch, ReceiveEnd, Continue, Return
    <2>3. QED BY <2>1, <2>2
  <1>3. CASE PollLaunch \/ PollWait \/ PollCancel
    BY <1>1, <1>3 DEF PollLaunch, PollWait, PollCancel, Poll, Continue, Return
  <1>4. CASE Release
    <2>2. ready = Stages BY <1>4 DEF Release, BarrierInv
    <2>3. written' \in {0, N} BY <1>4 DEF Release, BarrierInv
    <2>4. gate' > 0 => written' = N
      BY <1>4 DEF Release, BarrierInv
    <2>5. \A i \in Stages : proc'[i] \in {"released", "target"} => written' = N
      BY <1>4 DEF Release, BarrierInv
    <2>6. UNCHANGED <<ready, arrived, status>> BY <1>4 DEF Release
    <2>7. \A k \in DOMAIN status' : ~status'[k].error => status'[k].stage \in arrived'
      BY <2>6 DEF BarrierInv
    <2>8. ready' \subseteq arrived' /\ ready' = Stages
      BY <2>2, <2>6 DEF BarrierInv
    <2>9. QED BY <2>3, <2>4, <2>5, <2>7, <2>8 DEF BarrierInv
  <1>5. CASE Freeze \/ AwaitWait \/ CancelSignals \/ AwaitCancelled \/ Escalate
    BY <1>1, <1>5
       DEF Freeze, AwaitWait, CancelSignals, AwaitCancelled, Escalate, Continue
  <1>6. CASE PollCancelled
    BY <1>1, <1>6 DEF PollCancelled, Continue
  <1>7. QED BY <1>2, <1>3, <1>4, <1>5, <1>6 DEF Progress

LEMMA CallerBarrier ==
  ASSUME TypeOK, BarrierInv, Caller \/ \E i \in Stages : Spawn(i)
  PROVE  BarrierInv'
  <1> USE DEF pipeVars, recordVars, kernelVars
  <1>1. CASE Commit
    BY <1>1 DEF Commit, Usable, BarrierInv
  <1>2. CASE \E i \in Stages : Spawn(i)
    <2>1. \A i \in Stages : proc'[i] \in {"released", "target"} => proc'[i] = proc[i]
      BY <1>2 DEF Spawn, TypeOK
    <2>2. QED BY <1>2, <2>1, BarrierFrame DEF Spawn
  <1>3. CASE SpawnFails \/ Wait \/ Cancel \/ DropCall \/ Suspend \/ Resume
    BY <1>3, BarrierFrame
       DEF SpawnFails, Wait, Cancel, DropCall, Suspend, Resume, Usable, Return
  <1>4. CASE Reap \/ Drop
    <2>1. \A i \in Stages : proc'[i] \in {"released", "target"} => proc'[i] = proc[i]
      BY <1>4 DEF Reap, Drop, GiveUpGroup, TypeOK
    <2>2. QED BY <1>4, <2>1, BarrierFrame DEF Reap, Drop
  <1>5. QED BY <1>1, <1>2, <1>3, <1>4 DEF Caller

LEMMA BarrierStep == TypeOK /\ BarrierInv /\ [Next]_vars => BarrierInv'
  <1> SUFFICES ASSUME TypeOK, BarrierInv, [Next]_vars PROVE BarrierInv' OBVIOUS
  <1>1. CASE UNCHANGED vars
    BY <1>1 DEF vars, kernelVars, pipeVars, recordVars, callVars, BarrierInv
  <1>2. CASE Next
    BY <1>2, KernelBarrier, StageBarrier, ProgressBarrier, CallerBarrier DEF Next
  <1>3. QED BY <1>1, <1>2

LEMMA BarrierAlways == Spec => []BarrierInv
  BY BarrierInit, BarrierStep, TypeCorrect, PTL DEF Spec

\* No program of a pipeline is executed before every stage has finished its setup
\* and said so, for pipelines of any length.
THEOREM LaunchBarrierHolds == Spec => []Barrier
  <1>1. BarrierInv => Barrier BY StageCount DEF BarrierInv, Barrier
  <1>2. QED BY <1>1, BarrierAlways, PTL

-----------------------------------------------------------------------------
(* The process group.                                                      *)

LEMMA GroupInit == Init => GroupInv
  BY StageCount DEF Init, GroupInv, Stages

\* A step that changes no process, observation or group, and neither starts nor
\* finishes a job, keeps the group's invariant.
LEMMA GroupFrame ==
  ASSUME GroupInv, UNCHANGED <<proc, fate, exit, group>>,
         call' \in {call, "idle", "commit", "wait", "cancel"}
  PROVE  GroupInv'
  BY DEF GroupInv

\* A living process may change what it does or die.
LEMMA AliveGroup ==
  ASSUME TypeOK, GroupInv, NEW i \in Stages, proc[i] \in Alive,
         UNCHANGED <<exit, group, call>>,
         \/ \E how \in Fates \ {"none"} : Ends(i, how)
         \/ /\ \E next \in Alive : proc' = [proc EXCEPT ![i] = next]
            /\ UNCHANGED fate
  PROVE  GroupInv'
  <1>1. \A j \in Stages : j # i => proc'[j] = proc[j] /\ fate'[j] = fate[j]
    BY DEF Ends, TypeOK
  <1>2. proc'[i] \in Alive \cup {"zombie"} /\ (proc'[i] = "zombie" => fate'[i] # "none")
    BY DEF Ends, TypeOK, Alive, Helper
  <1>3. exit[i] = "none" /\ proc[i] \notin {"absent", "zombie", "reaped"}
    BY DEF GroupInv, Alive, Helper, TypeOK
  <1>4. proc[Leader] # "reaped"
    BY <1>3 DEF GroupInv
  <1>5. Leader \in Stages BY StageCount DEF Stages
  <1>6. QED BY <1>1, <1>2, <1>3, <1>4, <1>5 DEF GroupInv, Alive, Helper

LEMMA KernelGroup ==
  ASSUME TypeOK, GroupInv, NEW i \in Stages, Kernel(i)
  PROVE  GroupInv'
  <1> USE DEF callVars
  <1>1. CASE Deliver(i)
    <2>1. CASE UNCHANGED <<proc, fate, halted, event, wake>>
      BY <1>1, <2>1, GroupFrame DEF Deliver
    <2>2. CASE \E how \in {"kill", "term"} : Ends(i, how)
      BY <1>1, <2>2, AliveGroup DEF Deliver, Fates
    <2>3. QED BY <1>1, <2>1, <2>2 DEF Deliver
  <1>2. CASE External(i)
    <2>1. CASE UNCHANGED <<proc, fate, pend>>
      BY <1>2, <2>1, GroupFrame DEF External
    <2>2. CASE Ends(i, "foreign")
      BY <1>2, <2>2, AliveGroup DEF External, Fates
    <2>3. QED BY <1>2, <2>1, <2>2 DEF External
  <1>3. QED BY <1>1, <1>2 DEF Kernel

LEMMA StageGroup ==
  ASSUME TypeOK, GroupInv, NEW i \in Stages, Stage(i)
  PROVE  GroupInv'
  <1> USE DEF helperFrame, callVars
  <1>1. proc[i] \in Alive /\ UNCHANGED <<exit, group, call>>
    BY DEF Stage, HelperReady, HelperFails, HelperReleased, HelperExecs,
           HelperExits, TargetExits, Steps
  <1>2. \/ \E how \in Fates \ {"none"} : Ends(i, how)
        \/ /\ \E next \in Alive : proc' = [proc EXCEPT ![i] = next]
           /\ UNCHANGED fate
    BY DEF Stage, HelperReady, HelperFails, HelperReleased, HelperExecs,
           HelperExits, TargetExits, Report, Fates, Alive, Helper
  <1>3. QED BY <1>1, <1>2, AliveGroup

\* Collecting the children's states reaps members but not the leader.
LEMMA PollGroup ==
  ASSUME TypeOK, GroupInv, Poll, UNCHANGED <<fate, group>>,
         call # "spawn", call' \in {call, "idle", "commit", "wait", "cancel"}
  PROVE  GroupInv'
  <1> USE DEF SeenExit
  <1>1. Leader \in Stages BY StageCount DEF Stages
  <1>2. \A i \in Stages : proc'[i] = IF proc[i] = "zombie" /\ i # Leader
                                     THEN "reaped" ELSE proc[i]
    BY DEF Poll
  <1>3. \A i \in Stages : exit'[i] = SeenExit(i) BY DEF Poll
  <1>4. QED BY <1>1, <1>2, <1>3 DEF GroupInv

\* Collecting the children's states when all are dead, and giving up the group.
LEMMA FinishGroup ==
  ASSUME TypeOK, GroupInv, Finished, UNCHANGED fate,
         exit' = [i \in Stages |-> SeenExit(i)],
         proc' = [i \in Stages |-> IF proc[i] = "zombie" THEN "reaped" ELSE proc[i]],
         group' = FALSE, call' # "spawn"
  PROVE  GroupInv'
  <1> USE DEF SeenExit
  <1>1. Leader \in Stages BY StageCount DEF Stages
  <1>2. \A i \in Stages : exit'[i] = SeenExit(i)
    OBVIOUS
  <1>3. \A i \in Stages : proc[i] \in {"absent", "zombie", "reaped"}
    BY DEF Finished, Spawned, GroupInv
  <1>4. \A i \in Stages : proc'[i] \in {"absent", "reaped"} /\
                          (proc'[i] = "reaped" => proc[i] \in {"zombie", "reaped"}) /\
                          (proc'[i] = "absent" => proc[i] = "absent")
    BY <1>3
  <1>5. \A i \in Stages : exit'[i] # "none" => exit'[i] = fate[i] /\ proc'[i] = "reaped"
    BY <1>2, <1>3 DEF GroupInv
  <1>6. \A i \in Stages : proc'[i] = "reaped" => exit'[i] # "none"
    BY <1>2, <1>4 DEF GroupInv
  <1>7. QED BY <1>1, <1>4, <1>5, <1>6 DEF GroupInv

LEMMA ProgressGroup ==
  ASSUME TypeOK, GroupInv, Progress \/ Escalate
  PROVE  GroupInv'
  <1> USE DEF commitFrame, waitFrame, pipeVars, recordVars, kernelVars
  <1>1. CASE Drain \/ Reread \/ AwaitLaunch
    BY <1>1, GroupFrame
       DEF Drain, Reread, AwaitLaunch, Receive, ReceiveEnd, Continue, Return
  <1>2. CASE PollLaunch \/ PollWait \/ PollCancel
    BY <1>2, PollGroup DEF PollLaunch, PollWait, PollCancel, Continue, Return
  <1>3. CASE Release \/ Freeze \/ AwaitWait \/ CancelSignals \/ AwaitCancelled \/ Escalate
    BY <1>3, GroupFrame
       DEF Release, Freeze, AwaitWait, CancelSignals, AwaitCancelled, Escalate,
           Continue, Return
  <1>4. CASE PollCancelled
    <2>1. CASE Finished BY <1>4, <2>1, FinishGroup DEF PollCancelled
    <2>2. CASE ~Finished
      BY <1>4, <2>2, PollGroup DEF PollCancelled, Poll, Continue
    <2>3. QED BY <2>1, <2>2
  <1>5. QED BY <1>1, <1>2, <1>3, <1>4 DEF Progress

LEMMA CallerGroup ==
  ASSUME TypeOK, GroupInv, Caller \/ \E i \in Stages : Spawn(i)
  PROVE  GroupInv'
  <1> USE DEF pipeVars, recordVars, kernelVars
  <1>1. Leader \in Stages BY StageCount DEF Stages
  <1>2. ASSUME NEW i \in Stages, Spawn(i) PROVE GroupInv'
    <2>1. proc[i] = "absent" /\ (i # Leader => proc[Leader] # "absent")
      BY <1>1, <1>2 DEF Spawn, Spawned, Stages
    <2>2. proc'[i] = "setup" /\ \A j \in Stages : j # i => proc'[j] = proc[j]
      BY <1>2 DEF Spawn, TypeOK
    <2>3. group' /\ UNCHANGED <<exit, fate>> /\ call = "spawn" /\ call' # "done"
      BY <1>2 DEF Spawn
    <2>4. \A j \in Stages : proc'[j] # "reaped"
      BY <2>2, <2>3 DEF GroupInv
    <2>5. exit[i] = "none"
      BY <2>1 DEF GroupInv
    <2>6. proc'[Leader] # "absent"
      BY <1>1, <2>1, <2>2
    <2>7. QED BY <1>1, <2>2, <2>3, <2>4, <2>5, <2>6 DEF GroupInv
  <1>3. CASE SpawnFails \/ Commit \/ Wait \/ Cancel \/ DropCall \/ Suspend \/ Resume
    BY <1>3, GroupFrame
       DEF SpawnFails, Commit, Wait, Cancel, DropCall, Suspend, Resume, Usable, Return
  <1>4. CASE Reap
    <2>1. \A i \in Stages : exit[i] # "none" \/ proc[i] = "absent"
      BY <1>4 DEF Reap, Live, Spawned
    <2>2. proc[Leader] = "zombie" /\ proc' = [proc EXCEPT ![Leader] = "reaped"]
      BY <1>1, <1>4, <2>1 DEF Reap, GiveUpGroup, GroupInv
    <2>3. ~group' /\ UNCHANGED <<exit, fate>> /\ call' = "done"
      BY <1>4 DEF Reap, GiveUpGroup
    <2>4. \A i \in Stages : proc'[i] \in {"absent", "reaped"} /\
                            (i # Leader => proc'[i] = proc[i])
      BY <2>1, <2>2 DEF GroupInv, TypeOK
    <2>5. proc'[Leader] = "reaped" /\ exit[Leader] # "none"
      BY <1>1, <2>1, <2>2 DEF TypeOK
    <2>6. QED BY <1>1, <2>3, <2>4, <2>5 DEF GroupInv
  <1>5. CASE Drop
    <2>1. call # "spawn" /\ call' = "dropped" BY <1>5 DEF Drop
    <2>2. CASE Finished
      BY <1>5, <2>1, <2>2, FinishGroup DEF Drop
    <2>3. CASE ~Finished
      <3>1. \A i \in Stages : proc'[i] = IF proc[i] = "zombie" /\ i # Leader
                                         THEN "reaped" ELSE proc[i]
        BY <1>5, <2>3 DEF Drop
      <3>2. (\A i \in Stages : exit'[i] = SeenExit(i)) /\ group' = group /\ fate' = fate
        BY <1>5, <2>3 DEF Drop, TypeOK
      <3>3. QED BY <1>1, <2>1, <3>1, <3>2 DEF GroupInv, SeenExit
    <2>4. QED BY <2>2, <2>3
  <1>6. QED BY <1>2, <1>3, <1>4, <1>5 DEF Caller

LEMMA GroupStep == TypeOK /\ GroupInv /\ [Next]_vars => GroupInv'
  <1> SUFFICES ASSUME TypeOK, GroupInv, [Next]_vars PROVE GroupInv' OBVIOUS
  <1>1. CASE UNCHANGED vars
    BY <1>1, GroupFrame DEF vars, kernelVars, callVars
  <1>2. CASE Next
    BY <1>2, KernelGroup, StageGroup, ProgressGroup, CallerGroup DEF Next
  <1>3. QED BY <1>1, <1>2

\* A job signals its group only while the leader's unreaped process reserves the
\* group id, and gives it up only after every child's end has been observed.
THEOREM GroupStaysOwned == Spec => []OwnedGroup
  <1>1. GroupInv => OwnedGroup
    BY DEF GroupInv, OwnedGroup, Spawned
  <1>2. Spec => []GroupInv
    BY GroupInit, GroupStep, TypeCorrect, PTL DEF Spec
  <1>3. QED BY <1>1, <1>2, PTL

-----------------------------------------------------------------------------
(* Refinement of the abstract gate.                                        *)

\* Where the stages are for the abstract specification.
Abstract == [i \in Stages |-> BarrierStage(i)]

\* If no stage moves between places, the step is invisible or opens the gate.
LEMMA Invisible ==
  ASSUME \A i \in Stages : BarrierStage(i)' = BarrierStage(i),
         UNCHANGED <<arrived, written>>
  PROVE  UNCHANGED Gate!vars
  BY DEF Gate!vars

LEMMA OneMoves ==
  ASSUME TypeOK, NEW i \in Stages,
         \A j \in Stages \ {i} : proc'[j] = proc[j]
  PROVE  Abstract' = [Abstract EXCEPT ![i] = BarrierStage(i)']
  BY DEF Abstract, BarrierStage, TypeOK

LEMMA EndsVisible ==
  ASSUME TypeOK, NEW i \in Stages, proc[i] \in Alive,
         \A j \in Stages \ {i} : proc'[j] = proc[j],
         BarrierStage(i)' = "over", UNCHANGED <<arrived, written>>
  PROVE  Gate!Next
  <1>1. Abstract' = [Abstract EXCEPT ![i] = "over"] BY OneMoves
  <1>2. Abstract[i] # "unborn" BY DEF Abstract, BarrierStage, Alive, Helper
  <1>3. Gate!End(i) BY <1>1, <1>2 DEF Gate!End, Abstract
  <1>4. QED BY <1>3 DEF Gate!Next

LEMMA KernelRefines ==
  ASSUME TypeOK, NEW i \in Stages, Kernel(i)
  PROVE  Gate!Next \/ UNCHANGED Gate!vars
  <1> USE DEF recordVars
  <1>1. proc[i] \in Alive /\ UNCHANGED <<arrived, written>>
    BY DEF Kernel, Deliver, External
  <1>2. CASE UNCHANGED proc
    <2>1. \A j \in Stages : BarrierStage(j)' = BarrierStage(j)
      BY <1>2 DEF BarrierStage
    <2>2. QED BY <1>1, <2>1, Invisible
  <1>3. CASE \E how \in Fates : Ends(i, how)
    <2>1. proc'[i] = "zombie" /\ \A j \in Stages \ {i} : proc'[j] = proc[j]
      BY <1>3 DEF Ends, TypeOK
    <2>2. BarrierStage(i)' = "over" BY <2>1 DEF BarrierStage
    <2>3. QED BY <1>1, <2>1, <2>2, EndsVisible
  <1>4. QED BY <1>2, <1>3 DEF Kernel, Deliver, External, Fates

LEMMA StageRefines ==
  ASSUME TypeOK, BarrierInv, NEW i \in Stages, Stage(i)
  PROVE  Gate!Next \/ UNCHANGED Gate!vars
  <1> USE DEF helperFrame, recordVars
  <1>1. \A j \in Stages \ {i} : proc'[j] = proc[j]
    BY DEF Stage, HelperReady, HelperFails, HelperReleased, HelperExecs,
           HelperExits, TargetExits, Report, Ends, TypeOK
  <1>2. proc[i] \in Alive /\ UNCHANGED written
    BY DEF Stage, HelperReady, HelperFails, HelperReleased, HelperExecs,
           HelperExits, TargetExits, Steps
  <1>3. CASE HelperReady(i) /\ statusOpen
    <2>1. proc[i] = "setup" /\ proc'[i] = "gated" /\ arrived' = arrived \cup {i}
      BY <1>3 DEF HelperReady, Report, TypeOK
    <2>2. BarrierStage(i) = "preparing" /\ BarrierStage(i)' = "waiting"
      BY <2>1 DEF BarrierStage
    <2>3. Abstract' = [Abstract EXCEPT ![i] = "waiting"] /\ Abstract[i] = "preparing"
      BY <1>1, <2>2, OneMoves DEF Abstract
    <2>4. Gate!Arrive(i) BY <1>2, <2>1, <2>3 DEF Gate!Arrive, Abstract
    <2>5. QED BY <2>4 DEF Gate!Next
  <1>4. CASE HelperReleased(i)
    <2>1. proc[i] = "gated" /\ proc'[i] = "released" /\ UNCHANGED arrived
      BY <1>4 DEF HelperReleased, TypeOK
    <2>2. \A j \in Stages : BarrierStage(j)' = BarrierStage(j)
      BY <1>1, <2>1 DEF BarrierStage
    <2>3. QED BY <1>2, <2>1, <2>2, Invisible
  <1>5. CASE HelperExecs(i)
    <2>1. proc[i] = "released" /\ proc'[i] = "target" /\ UNCHANGED arrived
      BY <1>5 DEF HelperExecs, TypeOK
    <2>2. BarrierStage(i) = "waiting" /\ BarrierStage(i)' = "running"
      BY <2>1 DEF BarrierStage
    <2>3. Abstract' = [Abstract EXCEPT ![i] = "running"] /\ Abstract[i] = "waiting"
      BY <1>1, <2>2, OneMoves DEF Abstract
    <2>4. written = N BY <2>1 DEF BarrierInv
    <2>5. Gate!Run(i) BY <1>2, <2>1, <2>3, <2>4 DEF Gate!Run, Abstract
    <2>6. QED BY <2>5 DEF Gate!Next
  <1>6. CASE \/ HelperReady(i) /\ ~statusOpen
             \/ HelperFails(i) \/ HelperExits(i) \/ TargetExits(i)
    <2>1. proc'[i] \in {"failing", "zombie"} /\ UNCHANGED arrived
      BY <1>6 DEF HelperReady, HelperFails, HelperExits, TargetExits, Report, Ends, TypeOK
    <2>2. BarrierStage(i)' = "over" BY <2>1 DEF BarrierStage
    <2>3. QED BY <1>1, <1>2, <2>1, <2>2, EndsVisible
  <1>7. QED BY <1>3, <1>4, <1>5, <1>6 DEF Stage

\* Reaping is invisible: a dead stage is over whether or not it was collected.
LEMMA ReapInvisible ==
  ASSUME \A i \in Stages : proc'[i] = proc[i] \/ (proc[i] = "zombie" /\ proc'[i] = "reaped"),
         UNCHANGED <<arrived, written>>
  PROVE  UNCHANGED Gate!vars
  <1>1. \A i \in Stages : BarrierStage(i)' = BarrierStage(i) BY DEF BarrierStage
  <1>2. QED BY <1>1, Invisible

LEMMA CoordinatorRefines ==
  ASSUME TypeOK, BarrierInv,
         Progress \/ Escalate \/ Caller \/ \E i \in Stages : Spawn(i)
  PROVE  Gate!Next \/ UNCHANGED Gate!vars
  <1> USE DEF commitFrame, waitFrame, pipeVars, recordVars, kernelVars
  <1>1. CASE Release
    <2>1. \A i \in Stages : BarrierStage(i)' = BarrierStage(i)
      BY <1>1 DEF Release, BarrierStage
    <2>2. arrived = Stages /\ UNCHANGED arrived
      BY <1>1 DEF Release, BarrierInv, TypeOK
    <2>3. CASE written' = written BY <2>1, <2>2, <2>3, Invisible
    <2>4. CASE written' = N
      <3>1. Gate!Open BY <2>1, <2>2, <2>4 DEF Gate!Open
      <3>2. QED BY <3>1 DEF Gate!Next
    <2>5. QED BY <1>1, <2>3, <2>4 DEF Release
  <1>2. ASSUME NEW i \in Stages, Spawn(i) PROVE Gate!Next
    <2>1. proc[i] = "absent" BY <1>2 DEF Spawn, Spawned, Stages
    <2>2. proc'[i] = "setup" /\ \A j \in Stages \ {i} : proc'[j] = proc[j]
      BY <1>2 DEF Spawn, TypeOK
    <2>3. BarrierStage(i) = "unborn" /\ BarrierStage(i)' = "preparing"
      BY <2>1, <2>2 DEF BarrierStage
    <2>4. Abstract' = [Abstract EXCEPT ![i] = "preparing"] /\ Abstract[i] = "unborn"
      BY <2>2, <2>3, OneMoves DEF Abstract
    <2>5. UNCHANGED <<arrived, written>> BY <1>2 DEF Spawn
    <2>6. Gate!Start(i) BY <2>4, <2>5 DEF Gate!Start, Abstract
    <2>7. QED BY <2>6 DEF Gate!Next
  <1> DEFINE Quiet ==
        /\ \A i \in Stages : proc'[i] = proc[i] \/ (proc[i] = "zombie" /\ proc'[i] = "reaped")
        /\ UNCHANGED <<arrived, written>>
  <1>3. Quiet => UNCHANGED Gate!vars BY ReapInvisible
  <1>4. CASE Drain \/ Reread \/ AwaitLaunch
    <2>1. Quiet BY <1>4 DEF Drain, Reread, AwaitLaunch, Receive, ReceiveEnd
    <2>2. QED BY <1>3, <2>1
  <1>5. CASE PollLaunch \/ PollWait \/ PollCancel \/ PollCancelled
    <2>1. Quiet BY <1>5 DEF PollLaunch, PollWait, PollCancel, PollCancelled, Poll
    <2>2. QED BY <1>3, <2>1
  <1>6. CASE \/ Freeze \/ AwaitWait \/ CancelSignals \/ AwaitCancelled \/ Escalate
             \/ SpawnFails \/ Commit \/ Wait \/ Cancel \/ DropCall \/ Suspend \/ Resume
    <2>1. UNCHANGED <<proc, arrived, written>>
      BY <1>6 DEF Freeze, AwaitWait, CancelSignals, AwaitCancelled, Escalate,
                  SpawnFails, Commit, Wait, Cancel, DropCall, Suspend, Resume
    <2>2. QED BY <1>3, <2>1
  <1>7. CASE Reap \/ Drop
    <2>1. CASE Reap
      <3>1. proc' = [proc EXCEPT ![Leader] = IF @ = "zombie" THEN "reaped" ELSE @]
        BY <2>1 DEF Reap, GiveUpGroup
      <3>2. Quiet BY <2>1, <3>1 DEF Reap, TypeOK
      <3>3. QED BY <1>3, <3>2
    <2>2. CASE Drop
      <3>1. \A i \in Stages : proc'[i] = proc[i] \/ (proc[i] = "zombie" /\ proc'[i] = "reaped")
        BY <2>2 DEF Drop
      <3>2. UNCHANGED <<arrived, written>> BY <2>2 DEF Drop
      <3>3. QED BY <1>3, <3>1, <3>2
    <2>3. QED BY <1>7, <2>1, <2>2
  <1>8. QED BY <1>1, <1>2, <1>3, <1>4, <1>5, <1>6, <1>7 DEF Progress, Caller

\* The launch of any pipeline, with its helpers, pipes, signals, stops, deaths and
\* dropped calls, is a behaviour of the abstract gate.
THEOREM LaunchImplementsBarrier == Spec => ImplementsBarrier
  <1>1. Init => Gate!Init
    BY StageCount DEF Init, Gate!Init, BarrierStage
  <1>2. TypeOK /\ BarrierInv /\ [Next]_vars => [Gate!Next]_(Gate!vars)
    <2> SUFFICES ASSUME TypeOK, BarrierInv, [Next]_vars
                 PROVE  Gate!Next \/ UNCHANGED Gate!vars
      OBVIOUS
    <2>1. CASE UNCHANGED vars
      <3>1. UNCHANGED <<proc, arrived, written>>
        BY <2>1 DEF vars, kernelVars, recordVars
      <3>2. QED BY <3>1, ReapInvisible
    <2>2. CASE Next
      BY <2>2, KernelRefines, StageRefines, CoordinatorRefines DEF Next
    <2>3. QED BY <2>1, <2>2
  <1>3. QED
    BY <1>1, <1>2, TypeCorrect, BarrierAlways, PTL DEF Spec, ImplementsBarrier, Gate!Spec

-----------------------------------------------------------------------------
(* What a job's caller is told.                                            *)

\* Ended processes are the ones whose end a wait can collect or has collected.
Dead == {"zombie", "reaped"}

\* The invariants established so far, as one fact about a state.
Known == TypeOK /\ GroupInv /\ BarrierInv

\* They hold in every state of every behaviour of a job.
LEMMA KnownAlways == Spec => []Known
  <1>1. Spec => []GroupInv
    BY GroupInit, GroupStep, TypeCorrect, PTL DEF Spec
  <1>2. Known <=> TypeOK /\ GroupInv /\ BarrierInv BY DEF Known
  <1>3. QED BY <1>1, <1>2, TypeCorrect, BarrierAlways, PTL

\* A step of a stage's process or of the kernel leaves the call alone, ends the
\* process or lets it go on, and brings nobody to life.
LEMMA StageMoves ==
  ASSUME TypeOK, NEW i \in Stages, Kernel(i) \/ Stage(i)
  PROVE  /\ UNCHANGED <<call, at, result, exit, stopped, group, sent, ready,
                        statusOpen, gateOpen>>
         /\ proc[i] \in Alive
         /\ \A j \in Stages : proc'[j] \notin Dead => proc[j] \notin Dead
         /\ \/ \E how \in Fates \ {"none"} : Ends(i, how)
            \/ /\ \E next \in Alive : proc' = [proc EXCEPT ![i] = next]
               /\ UNCHANGED <<fate, halted, event, pend>>
            \/ /\ pend' = [pend EXCEPT ![i] = @ \ {"term"}]
               /\ UNCHANGED <<proc, fate, halted, event>>
            \/ /\ Stopping({i}) \/ Continuing({i})
               /\ UNCHANGED <<proc, fate, pend>>
  <1>1. CASE Kernel(i)
    <2>1. /\ UNCHANGED <<call, at, result, exit, stopped, group, sent, ready,
                         statusOpen, gateOpen>>
          /\ proc[i] \in Alive
      BY <1>1 DEF Kernel, Deliver, External, pipeVars, recordVars, callVars
    <2>2. \/ \E how \in Fates \ {"none"} : Ends(i, how)
          \/ /\ pend' = [pend EXCEPT ![i] = @ \ {"term"}]
             /\ UNCHANGED <<proc, fate, halted, event>>
          \/ /\ Stopping({i}) \/ Continuing({i})
             /\ UNCHANGED <<proc, fate, pend>>
      BY <1>1 DEF Kernel, Deliver, External, Fates
    <2>3. \A j \in Stages : proc'[j] \notin Dead => proc[j] \notin Dead
      BY <2>1, <2>2 DEF Ends, Dead, Alive, Helper, TypeOK
    <2>4. QED BY <2>1, <2>2, <2>3
  <1>2. CASE Stage(i)
    <2>1. /\ UNCHANGED <<call, at, result, exit, stopped, group, sent, ready,
                         statusOpen, gateOpen>>
          /\ proc[i] \in Alive
      BY <1>2 DEF Stage, HelperReady, HelperFails, HelperReleased, HelperExecs,
                  HelperExits, TargetExits, Steps, helperFrame, recordVars, callVars
    <2>2. \/ \E how \in Fates \ {"none"} : Ends(i, how)
          \/ /\ \E next \in Alive : proc' = [proc EXCEPT ![i] = next]
             /\ UNCHANGED <<fate, halted, event, pend>>
      BY <1>2 DEF Stage, HelperReady, HelperFails, HelperReleased, HelperExecs,
                  HelperExits, TargetExits, Report, Fates, Alive, Helper
    <2>3. \A j \in Stages : proc'[j] \notin Dead => proc[j] \notin Dead
      BY <2>1, <2>2 DEF Ends, Dead, Alive, Helper, TypeOK
    <2>4. QED BY <2>1, <2>2, <2>3
  <1>3. QED BY <1>1, <1>2

-----------------------------------------------------------------------------
(* Stops.                                                                  *)

\* Why "stopped" can be believed: what the coordinator remembers of a stage, or
\* has yet to collect, is true of its process unless a continue report is on
\* its way.
StopInv ==
  /\ call = "spawn" => result = "none"
  /\ \A i \in Stages : proc[i] \notin Dead =>
       /\ event[i] = "stopped" => halted[i]
       /\ event[i] = "none" /\ stopped[i] => halted[i]
  /\ StopBarrier

\* A step that stops and continues nobody and answers nothing.
LEMMA StopFrame ==
  ASSUME StopInv, UNCHANGED <<halted, event, stopped>>,
         \A i \in Stages : proc'[i] \notin Dead => proc[i] \notin Dead,
         \A i \in Stages : proc'[i] \in Alive => proc[i] \in Alive \/ call' = "spawn"
                                                  \/ result' # "stopped",
         call' = "spawn" => result' = "none",
         call' = "idle" /\ result' = "stopped" => call = "idle" /\ result = "stopped"
  PROVE  StopInv'
  BY DEF StopInv, StopBarrier

\* A group signal or a signal of another party.
LEMMA SignalStops ==
  ASSUME TypeOK, StopInv, NEW S \in SUBSET Stages, Stopping(S) \/ Continuing(S),
         UNCHANGED <<proc, result>>, call' \in {call, "wait"},
         \/ stopped' = stopped
         \/ stopped' = [i \in Stages |-> FALSE]
  PROVE  StopInv'
  <1>1. \A i \in Stages : \/ halted'[i] = halted[i] /\ event'[i] = event[i]
                          \/ halted'[i] /\ event'[i] = "stopped"
                          \/ event'[i] = "continued"
    <2>1. CASE Stopping(S)
      <3>1. \A i \in Stages : i \in {j \in S : ~halted[j]} =>
                                 halted'[i] /\ event'[i] = "stopped"
        BY <2>1 DEF Stopping
      <3>2. \A i \in Stages : i \notin {j \in S : ~halted[j]} =>
                                 halted'[i] = halted[i] /\ event'[i] = event[i]
        BY <2>1 DEF Stopping, TypeOK
      <3>3. QED BY <3>1, <3>2
    <2>2. CASE Continuing(S)
      <3>1. \A i \in Stages : i \in {j \in S : halted[j]} => event'[i] = "continued"
        BY <2>2 DEF Continuing
      <3>2. \A i \in Stages : i \notin {j \in S : halted[j]} =>
                                 halted'[i] = halted[i] /\ event'[i] = event[i]
        BY <2>2 DEF Continuing, TypeOK
      <3>3. QED BY <3>1, <3>2
    <2>3. QED BY <2>1, <2>2
  <1>2. \A i \in Stages : stopped'[i] => stopped[i] BY DEF TypeOK
  <1>3. \A i \in Stages : proc'[i] \notin Dead =>
          /\ event'[i] = "stopped" => halted'[i]
          /\ event'[i] = "none" /\ stopped'[i] => halted'[i]
    BY <1>1, <1>2 DEF StopInv
  <1>4. StopBarrier'
    BY <1>1 DEF StopInv, StopBarrier
  <1>5. QED BY <1>3, <1>4 DEF StopInv

\* Collecting the reports leaves what is known of every living stage true, and if
\* all of them are then known to be stopped, they are.
LEMMA PollStops ==
  ASSUME Known, StopInv, UNCHANGED halted,
         exit' = [i \in Stages |-> SeenExit(i)],
         stopped' = [i \in Stages |-> SeenStop(i)],
         event' = [i \in Stages |-> "none"],
         \A i \in Stages : proc'[i] \notin Dead => proc'[i] = proc[i],
         call' # "spawn",
         call' = "idle" /\ result' = "stopped" => AllStopped
  PROVE  StopInv'
  <1>1. \A i \in Stages : proc[i] \notin Dead => exit[i] = "none" /\ SeenExit(i) = "none"
    BY DEF Known, GroupInv, SeenExit, Dead
  <1>2. \A i \in Stages : proc[i] \notin Dead => (SeenStop(i) => halted[i])
    BY <1>1 DEF SeenStop, StopInv, Known, TypeOK
  <1>3. \A i \in Stages : proc'[i] \notin Dead => event'[i] = "none" /\
                                                  (stopped'[i] => halted'[i])
    BY <1>2
  <1>4. StopBarrier'
    <2> SUFFICES ASSUME AllStopped, NEW i \in Stages, proc'[i] \in Alive PROVE halted'[i]
      BY DEF StopBarrier
    <2>1. proc[i] \in Alive /\ proc[i] \notin Dead BY DEF Alive, Helper, Dead
    <2>2. i \in Spawned BY <2>1 DEF Spawned, Alive, Helper
    <2>3. SeenStop(i) BY <1>1, <2>1, <2>2 DEF AllStopped
    <2>4. QED BY <1>2, <2>1, <2>3
  <1>5. QED BY <1>3, <1>4 DEF StopInv

\* The steps of the stages, of the kernel and of other parties.
LEMMA StageStops ==
  ASSUME Known, StopInv, NEW i \in Stages, Kernel(i) \/ Stage(i)
  PROVE  StopInv'
  <1>0. TypeOK BY DEF Known
  <1>1. UNCHANGED <<call, result, stopped>> /\ proc[i] \in Alive
    BY <1>0, StageMoves
  <1>2. \A j \in Stages : proc'[j] \notin Dead => proc[j] \notin Dead
    BY <1>0, StageMoves
  <1>3. CASE \E how \in Fates : Ends(i, how)
    <2>1. /\ proc'[i] = "zombie"
          /\ \A j \in Stages \ {i} : proc'[j] = proc[j] /\ halted'[j] = halted[j]
                                     /\ event'[j] = event[j]
      BY <1>0, <1>3 DEF Ends, TypeOK
    <2>2. proc'[i] \notin Alive /\ proc'[i] \in Dead BY <2>1 DEF Alive, Helper, Dead
    <2>3. QED BY <1>1, <2>1, <2>2 DEF StopInv, StopBarrier
  <1>4. CASE /\ \E next \in Alive : proc' = [proc EXCEPT ![i] = next]
             /\ UNCHANGED <<fate, halted, event, pend>>
    <2>1. \A j \in Stages : proc'[j] \in Alive => proc[j] \in Alive
      BY <1>0, <1>1, <1>4 DEF TypeOK
    <2>2. QED BY <1>1, <1>2, <1>4, <2>1, StopFrame DEF StopInv
  <1>5. CASE UNCHANGED <<proc, fate, halted, event>>
    BY <1>1, <1>5, StopFrame DEF StopInv
  <1>6. CASE (Stopping({i}) \/ Continuing({i})) /\ UNCHANGED <<proc, fate, pend>>
    BY <1>0, <1>1, <1>6, SignalStops
  <1>7. QED BY <1>0, <1>3, <1>4, <1>5, <1>6, StageMoves

\* The coordinator's own steps.
LEMMA ProgressStops ==
  ASSUME Known, StopInv, Progress \/ Escalate
  PROVE  StopInv'
  <1> USE DEF commitFrame, waitFrame, pipeVars, recordVars, kernelVars
  <1>0. TypeOK /\ Members \in SUBSET Stages BY DEF Known, Members
  <1>1. CASE Drain \/ Reread \/ AwaitLaunch \/ Release \/ AwaitWait \/ AwaitCancelled
             \/ Escalate
    <2>1. UNCHANGED <<halted, event, stopped, proc>>
      BY <1>1 DEF Drain, Reread, AwaitLaunch, Release, AwaitWait, AwaitCancelled,
                  Escalate, Receive, ReceiveEnd
    <2>2. call # "spawn" /\ call' \in {call, "idle"} /\ call # "idle"
      BY <1>1 DEF Drain, Reread, AwaitLaunch, Release, AwaitWait, AwaitCancelled,
                  Escalate, Receive, ReceiveEnd, Return, Continue
    <2>3. call' = "idle" => result' # "stopped"
      BY <1>1, <2>2 DEF Drain, Reread, AwaitLaunch, Release, AwaitWait, AwaitCancelled,
                  Escalate, Receive, ReceiveEnd, Return, Continue
    <2>4. QED BY <2>1, <2>2, <2>3, StopFrame
  <1>2. CASE PollLaunch \/ PollWait \/ PollCancel
    <2>1. Poll /\ UNCHANGED halted /\ call # "spawn" /\ call # "idle"
      BY <1>2 DEF PollLaunch, PollWait, PollCancel
    <2>2. call' \in {call, "idle"} /\ (call' = "idle" /\ result' = "stopped" => AllStopped)
      BY <1>2, <2>1 DEF PollLaunch, PollWait, PollCancel, Return, Continue
    <2>3. \A i \in Stages : proc'[i] \notin Dead => proc'[i] = proc[i]
      BY <2>1 DEF Poll, Dead
    <2>4. QED BY <2>1, <2>2, <2>3, PollStops DEF Poll
  <1>3. CASE PollCancelled
    <2>1. \A i \in Stages : proc'[i] \notin Dead => proc'[i] = proc[i]
      BY <1>3 DEF PollCancelled, Dead
    <2>2. call' \in {"cancel", "done"} BY <1>3 DEF PollCancelled, Continue
    <2>3. UNCHANGED halted BY <1>3 DEF PollCancelled
    <2>4. QED BY <1>3, <2>1, <2>2, <2>3, PollStops DEF PollCancelled
  <1>4. CASE Freeze
    BY <1>0, <1>4, SignalStops DEF Freeze, Continue
  <1>5. CASE CancelSignals
    <2>1. UNCHANGED <<proc, result, stopped, call>> /\ call = "cancel"
      BY <1>5 DEF CancelSignals, Continue
    <2>2. UNCHANGED <<halted, event>> \/ Continuing(Members)
      BY <1>5 DEF CancelSignals
    <2>3. CASE UNCHANGED <<halted, event>> BY <2>1, <2>3, StopFrame
    <2>4. CASE Continuing(Members) BY <1>0, <2>1, <2>4, SignalStops
    <2>5. QED BY <2>2, <2>3, <2>4
  <1>6. QED BY <1>1, <1>2, <1>3, <1>4, <1>5 DEF Progress

\* The caller's steps.
LEMMA CallerStops ==
  ASSUME Known, StopInv, Caller \/ \E i \in Stages : Spawn(i)
  PROVE  StopInv'
  <1> USE DEF pipeVars, recordVars, kernelVars
  <1>0. TypeOK /\ Members \in SUBSET Stages BY DEF Known, Members
  <1>1. ASSUME NEW i \in Stages, Spawn(i) PROVE StopInv'
    <2>1. /\ UNCHANGED <<halted, event, stopped, result>> /\ result = "none"
          /\ call' \in {"spawn", "idle"}
      BY <1>1 DEF Spawn, StopInv
    <2>2. proc[i] = "absent" BY <1>1 DEF Spawn, Spawned, Stages
    <2>3. \A j \in Stages \ {i} : proc'[j] = proc[j]
      BY <1>0, <1>1 DEF Spawn, TypeOK
    <2>4. \A j \in Stages : proc'[j] \notin Dead => proc[j] \notin Dead
      BY <2>2, <2>3 DEF Dead
    <2>5. QED BY <2>1, <2>4, StopFrame
  <1>2. CASE SpawnFails \/ Commit \/ Wait \/ Cancel \/ DropCall
    <2>1. UNCHANGED <<halted, event, stopped, proc>> /\ call' # "spawn"
          /\ ~(call' = "idle" /\ result' = "stopped")
      BY <1>2 DEF SpawnFails, Commit, Wait, Cancel, DropCall, Return
    <2>2. QED BY <2>1, StopFrame
  <1>3. CASE Suspend
    BY <1>0, <1>3, SignalStops DEF Suspend
  <1>4. CASE Resume
    <2>1. Continuing(Members) /\ stopped' = [i \in Stages |-> FALSE]
          /\ UNCHANGED <<proc, call>> /\ result' = "none" /\ call = "idle"
      BY <1>4 DEF Resume, Usable
    <2>2. \A i \in Stages : event'[i] = "stopped" => event[i] = "stopped" /\ halted'[i] = halted[i]
      BY <1>0, <2>1 DEF Continuing, TypeOK
    <2>3. QED BY <2>1, <2>2 DEF StopInv, StopBarrier
  <1>5. CASE Reap
    <2>1. UNCHANGED <<halted, event, stopped>> /\ call' = "done"
      BY <1>5 DEF Reap
    <2>2. \A i \in Stages : proc'[i] = proc[i] \/ proc'[i] = "reaped"
      BY <1>0, <1>5 DEF Reap, GiveUpGroup, TypeOK
    <2>3. \A i \in Stages : /\ proc'[i] \notin Dead => proc[i] \notin Dead
                            /\ proc'[i] \in Alive => proc[i] \in Alive
      BY <2>2 DEF Dead, Alive, Helper
    <2>4. QED BY <2>1, <2>3, StopFrame
  <1>6. CASE Drop
    <2>1. \A i \in Stages : proc'[i] \notin Dead => proc'[i] = proc[i]
      BY <1>6 DEF Drop, Dead
    <2>2. call' = "dropped" /\ UNCHANGED halted BY <1>6 DEF Drop
    <2>3. QED BY <1>6, <2>1, <2>2, PollStops DEF Drop
  <1>7. QED BY <1>1, <1>2, <1>3, <1>4, <1>5, <1>6 DEF Caller

\* Every step of a job keeps the invariant.
LEMMA StopStep == Known /\ StopInv /\ [Next]_vars => StopInv'
  <1> SUFFICES ASSUME Known, StopInv, [Next]_vars PROVE StopInv' OBVIOUS
  <1>1. CASE UNCHANGED vars
    BY <1>1, StopFrame DEF vars, kernelVars, callVars, StopInv
  <1>2. CASE Next
    BY <1>2, StageStops, ProgressStops, CallerStops DEF Next
  <1>3. QED BY <1>1, <1>2

\* When a call on a job of any length returns "stopped", every stage that is alive
\* is stopped, or has been continued since by somebody else.
THEOREM StoppedIsStopped == Spec => []StopBarrier
  <1>1. Init => StopInv
    BY DEF Init, StopInv, StopBarrier, Alive, Helper
  <1>2. StopInv => StopBarrier BY DEF StopInv
  <1>3. QED BY <1>1, <1>2, KnownAlways, StopStep, PTL DEF Spec

-----------------------------------------------------------------------------
(* Terminations the supervisor caused.                                     *)

\* Why a supervised end is always on record: every termination signal a process
\* has still to act on was recorded when it was sent.  A job dropped without
\* cancel kills without a record, and nobody reads its results any more.
SentInv ==
  call # "dropped" =>
    \A i \in Stages :
      /\ \A signal \in pend[i] : <<i, signal>> \in sent
      /\ fate[i] \in {"term", "kill"} => <<i, fate[i]>> \in sent

\* A step that sends no signal and ends no process.
LEMMA SentFrame ==
  ASSUME SentInv, UNCHANGED <<pend, fate, sent>>, call' = "dropped" \/ call # "dropped"
  PROVE  SentInv'
  BY DEF SentInv

\* A group signal reaches only stages whose end was not observed, and those are
\* the ones it is recorded for.
LEMMA TerminatingSent ==
  ASSUME Known, SentInv, NEW signal \in {"term", "kill"},
         Terminating(Members, signal), sent' = sent \cup (Live \X {signal}),
         UNCHANGED fate, call # "dropped"
  PROVE  SentInv'
  <1>1. Members \subseteq Live
    <2> SUFFICES ASSUME NEW i \in Members PROVE i \in Live OBVIOUS
    <2>1. i \in Stages /\ proc[i] \in Alive BY DEF Members
    <2>2. proc[i] \notin {"absent", "zombie", "reaped"} BY <2>1 DEF Alive, Helper
    <2>3. exit[i] = "none" BY <2>1, <2>2 DEF Known, GroupInv
    <2>4. QED BY <2>1, <2>2, <2>3 DEF Live, Spawned
  <1>2. \A i \in Stages : pend'[i] = IF i \in Members THEN pend[i] \cup {signal} ELSE pend[i]
    BY DEF Terminating
  <1>3. \A i \in Stages : \A other \in pend'[i] : <<i, other>> \in sent'
    <2> SUFFICES ASSUME NEW i \in Stages, NEW other \in pend'[i]
                 PROVE  <<i, other>> \in sent'
      OBVIOUS
    <2>1. CASE other \in pend[i] BY <2>1 DEF SentInv
    <2>2. CASE other \notin pend[i]
      <3>1. i \in Members /\ other = signal BY <1>2, <2>2
      <3>2. <<i, other>> \in Live \X {signal} BY <1>1, <3>1
      <3>3. QED BY <3>2
    <2>3. QED BY <2>1, <2>2
  <1>4. QED BY <1>3 DEF SentInv

\* A process ends by a supervised signal only when that signal was pending.
LEMMA StageSent ==
  ASSUME Known, SentInv, NEW i \in Stages, Kernel(i) \/ Stage(i)
  PROVE  SentInv'
  <1>0. TypeOK BY DEF Known
  <1>1. UNCHANGED <<call, sent>> BY <1>0, StageMoves
  <1>2. CASE \E how \in Fates : Ends(i, how) /\ (how \in {"term", "kill"} => how \in pend[i])
    <2>1. PICK how \in Fates : Ends(i, how) /\ (how \in {"term", "kill"} => how \in pend[i])
      BY <1>2
    <2>2. fate'[i] = how /\ pend'[i] = {} BY <1>0, <2>1 DEF Ends, TypeOK
    <2>3. \A j \in Stages \ {i} : fate'[j] = fate[j] /\ pend'[j] = pend[j]
      BY <1>0, <2>1 DEF Ends, TypeOK
    <2>4. QED BY <1>1, <2>1, <2>2, <2>3 DEF SentInv
  <1>3. CASE UNCHANGED <<fate, pend>>
    BY <1>1, <1>3, SentFrame DEF SentInv
  <1>4. CASE pend' = [pend EXCEPT ![i] = @ \ {"term"}] /\ UNCHANGED fate
    <2>1. \A j \in Stages : pend'[j] \subseteq pend[j] BY <1>0, <1>4 DEF TypeOK
    <2>2. QED BY <1>1, <1>4, <2>1 DEF SentInv
  <1>5. CASE Kernel(i)
    BY <1>2, <1>3, <1>4, <1>5 DEF Kernel, Deliver, External, Fates
  <1>6. CASE Stage(i)
    BY <1>2, <1>3, <1>6 DEF Stage, HelperReady, HelperFails, HelperReleased, HelperExecs,
            HelperExits, TargetExits, Report, Fates
  <1>7. QED BY <1>5, <1>6

\* Every step of a job keeps the record complete.
LEMMA SentStep == Known /\ SentInv /\ [Next]_vars => SentInv'
  <1> SUFFICES ASSUME Known, SentInv, [Next]_vars PROVE SentInv' OBVIOUS
  <1> USE DEF commitFrame, waitFrame, pipeVars, recordVars, kernelVars
  <1>1. CASE UNCHANGED vars
    BY <1>1, SentFrame DEF vars, callVars
  <1>2. CASE \E i \in Stages : Kernel(i) \/ Stage(i)
    BY <1>2, StageSent
  <1>3. CASE \E i \in Stages : Spawn(i)
    BY <1>3, SentFrame DEF Spawn
  <1>4. CASE Escalate
    BY <1>4, TerminatingSent DEF Escalate
  <1>5. CASE CancelSignals
    <2>1. call = "cancel" /\ UNCHANGED fate BY <1>5 DEF CancelSignals
    <2>2. CASE UNCHANGED <<pend, sent>> BY <2>1, <2>2, SentFrame
    <2>3. CASE Terminating(Members, "term") /\ sent' = sent \cup (Live \X {"term"})
      BY <2>1, <2>3, TerminatingSent
    <2>4. QED BY <1>5, <2>2, <2>3 DEF CancelSignals
  <1>6. CASE \/ Drain \/ PollLaunch \/ Reread \/ AwaitLaunch \/ Release
             \/ PollWait \/ Freeze \/ AwaitWait
             \/ PollCancel \/ PollCancelled \/ AwaitCancelled
    <2>1. UNCHANGED <<pend, fate, sent>> /\ call # "dropped"
      BY <1>6 DEF Drain, PollLaunch, Reread, AwaitLaunch, Release, PollWait, Freeze,
                  AwaitWait, PollCancel, PollCancelled, AwaitCancelled
    <2>2. QED BY <2>1, SentFrame
  <1>7. CASE SpawnFails \/ Commit \/ Suspend \/ Resume \/ Wait \/ Reap \/ Cancel \/ DropCall
    <2>1. UNCHANGED <<pend, fate, sent>> /\ call # "dropped"
      BY <1>7 DEF SpawnFails, Commit, Suspend, Resume, Wait, Reap, Cancel, DropCall,
                  Usable, GiveUpGroup
    <2>2. QED BY <2>1, SentFrame
  <1>8. CASE Drop
    BY <1>8 DEF Drop, SentInv
  <1>9. QED BY <1>1, <1>2, <1>3, <1>4, <1>5, <1>6, <1>7, <1>8 DEF Next, Progress, Caller

\* Whoever asks later can tell an end the supervisor caused from a failure, for
\* every number of stages, signals and escalations.
THEOREM SupervisedEndsRecorded == Spec => []Provenance
  <1>1. Init => SentInv BY DEF Init, SentInv
  <1>2. SentInv => Provenance BY DEF SentInv, Provenance
  <1>3. QED BY <1>1, <1>2, KnownAlways, SentStep, PTL DEF Spec

-----------------------------------------------------------------------------
(* Launch errors.                                                          *)

\* The launch is still the caller's: no call has failed, and nobody has begun to
\* clean up.
Sound ==
  /\ call \in {"spawn", "idle", "commit", "wait"}
  /\ result \notin {"error", "protocol", "lost"}

Readiness(k) == ~status[k].error

\* Where the stages and the caller are.
PlaceInv ==
  /\ \A i \in Stages : fate[i] = "none" <=> proc[i] \notin Dead
  /\ \A i \in Stages : proc[i] \in {"absent", "setup"} => i \notin arrived
  /\ call = "spawn" => result = "none"
  /\ call \in {"idle", "commit", "wait"} => \A i \in Stages : proc[i] # "absent"
  /\ call \in {"commit", "wait"} => Sound

\* What is in the status pipe: at most one readiness record of a stage, none that
\* was received before, and, as long as the launch is sound, one for every stage
\* that arrived and was not received.
RecordInv ==
  /\ \A k \in DOMAIN status : Readiness(k) => status[k].stage \notin ready
  /\ \A j, k \in DOMAIN status :
       Readiness(j) /\ Readiness(k) /\ status[j].stage = status[k].stage => j = k
  /\ Sound =>
       \A i \in arrived \ ready :
         \E k \in DOMAIN status : Readiness(k) /\ status[k].stage = i

\* Why a failure is not mistaken for a loss or a success: a failing helper's error
\* record is in the pipe until a commit returns it, and the pipe ends only when
\* every helper is gone.
FailureInv ==
  /\ Sound =>
       \A i \in Stages : proc[i] = "failing" \/ fate[i] = "helper" =>
         \E k \in DOMAIN status : status[k].error
  /\ Sound /\ ~statusOpen =>
       /\ ready = Stages
       /\ \A i \in Stages : proc[i] \notin Helper /\ fate[i] # "helper"
  /\ call = "commit" /\ at = "reread" => \E i \in Stages : exit[i] # "none" /\ i \notin ready
  /\ AttributedResult

ResultInv == PlaceInv /\ RecordInv /\ FailureInv

\* Every nonempty set of numbers has a least one.
LEMMA LeastNumber ==
  ASSUME NEW T, T \subseteq Nat, T # {}
  PROVE  \E x \in T : \A y \in T : x <= y
  <1> DEFINE R == OpToRel(<, Nat)
  <1>1. IsWellFoundedOn(R, Nat) BY NatLessThanWellFounded
  <1>2. \A x, y \in Nat : y < x => <<y, x>> \in R BY DEF OpToRel
  <1> HIDE DEF R
  <1>3. PICK x \in T : \A y \in T : ~(<<y, x>> \in R) BY <1>1, WFMin
  <1>4. \A y \in T : ~(y < x) BY <1>2, <1>3
  <1>5. QED BY <1>4

\* If no record is the first bad one, none is bad.
LEMMA FirstBadExists ==
  ASSUME TypeOK, NEW k \in DOMAIN status, Bad(k)
  PROVE  FirstBad # {}
  <1> DEFINE T == {j \in DOMAIN status : Bad(j)}
  <1>1. DOMAIN status = 1..Len(status) /\ Len(status) \in Nat
    BY LenProperties DEF TypeOK
  <1>2. T \subseteq Nat /\ T # {} BY <1>1
  <1>3. PICK x \in T : \A y \in T : x <= y BY <1>2, LeastNumber
  <1>4. \A j \in 1..(x - 1) : j \in DOMAIN status /\ j < x BY <1>1
  <1>5. \A j \in 1..(x - 1) : ~Bad(j)
    <2> SUFFICES ASSUME NEW j \in 1..(x - 1), Bad(j) PROVE FALSE OBVIOUS
    <2>1. j \in T /\ j < x BY <1>4
    <2>2. x <= j /\ x \in Nat /\ j \in Nat BY <1>2, <1>3, <2>1
    <2>3. QED BY <2>1, <2>2
  <1>6. x \in FirstBad BY <1>5 DEF FirstBad
  <1>7. QED BY <1>6

\* The first bad record is an error record: a stage says "ready" once.
LEMMA FirstBadIsError ==
  ASSUME TypeOK, RecordInv, NEW k \in FirstBad
  PROVE  status[k].error
  <1> SUFFICES ASSUME ~status[k].error PROVE FALSE OBVIOUS
  <1>1. k \in DOMAIN status /\ Bad(k) /\ \A j \in 1..(k - 1) : ~Bad(j) BY DEF FirstBad
  <1>2. status[k].stage \notin ready BY <1>1 DEF RecordInv, Readiness
  <1>3. PICK j \in 1..(k - 1) : status[j].stage = status[k].stage
    BY <1>1, <1>2 DEF Bad
  <1>4. DOMAIN status = 1..Len(status) /\ Len(status) \in Nat
    BY LenProperties DEF TypeOK
  <1>5. j \in DOMAIN status /\ j # k BY <1>1, <1>4
  <1>6. ~status[j].error BY <1>1 DEF Bad
  <1>7. QED BY <1>1, <1>3, <1>5, <1>6 DEF RecordInv, Readiness

\* A step that neither writes nor receives a record, and of the launch's answers
\* at most a loss that is explained elsewhere.
LEMMA ResultFrame ==
  ASSUME ResultInv, UNCHANGED <<status, arrived, ready, fate>>,
         \A i \in Stages : proc'[i] = proc[i] \/ (proc[i] = "zombie" /\ proc'[i] = "reaped"),
         \A i \in Stages : exit[i] # "none" => exit'[i] # "none",
         Sound' => Sound /\ statusOpen' = statusOpen,
         call' = "commit" /\ at' = "reread" => \E i \in Stages : exit'[i] # "none" /\ i \notin ready,
         call' = "spawn" => call = "spawn" /\ result' = result,
         call' \in {"idle", "commit", "wait"} => call \in {"idle", "commit", "wait"},
         call' \in {"commit", "wait"} => Sound',
         \/ result' \in {result, "none", "stopped", "finished", "error"}
         \/ AttributedResult'
  PROVE  ResultInv'
  <1>1. PlaceInv' BY DEF ResultInv, PlaceInv, Dead
  <1>2. RecordInv'
    BY DEF ResultInv, RecordInv, Readiness
  <1>3. AttributedResult'
    BY DEF ResultInv, FailureInv, AttributedResult, Helper
  <1>4. Sound' => \A i \in Stages : proc'[i] = "failing" \/ fate'[i] = "helper" =>
                     \E k \in DOMAIN status' : status'[k].error
    BY DEF ResultInv, FailureInv
  <1>5. Sound' /\ ~statusOpen' =>
          /\ ready' = Stages
          /\ \A i \in Stages : proc'[i] \notin Helper /\ fate'[i] # "helper"
    BY DEF ResultInv, FailureInv, Helper
  <1>6. QED BY <1>1, <1>2, <1>3, <1>4, <1>5 DEF ResultInv, FailureInv

\* What a stage's process may do, as far as the launch is concerned.
LEMMA StageCases ==
  ASSUME TypeOK, NEW i \in Stages, Kernel(i) \/ Stage(i)
  PROVE  /\ UNCHANGED <<call, at, result, exit, ready, statusOpen>>
         /\ proc[i] \in Alive
         /\ \/ /\ \E how \in Fates \ {"none"} :
                    Ends(i, how) /\ (how = "helper" => proc[i] = "failing")
               /\ UNCHANGED <<status, arrived>>
            \/ /\ proc[i] \in {"gated", "released"}
               /\ \E next \in {"released", "target"} : proc' = [proc EXCEPT ![i] = next]
               /\ UNCHANGED <<fate, status, arrived>>
            \/ UNCHANGED <<proc, fate, status, arrived>>
            \/ /\ statusOpen /\ proc[i] = "setup"
               /\ proc' = [proc EXCEPT ![i] = "gated"]
               /\ status' = Append(status, [stage |-> i, error |-> FALSE])
               /\ arrived' = arrived \cup {i} /\ UNCHANGED fate
            \/ /\ statusOpen /\ proc[i] \in {"setup", "gated", "released"}
               /\ proc' = [proc EXCEPT ![i] = "failing"]
               /\ status' = Append(status, [stage |-> i, error |-> TRUE])
               /\ UNCHANGED <<fate, arrived>>
  <1>1. /\ UNCHANGED <<call, at, result, exit, ready, statusOpen>>
        /\ proc[i] \in Alive
    BY StageMoves
  <1>2. CASE Kernel(i)
    BY <1>1, <1>2 DEF Kernel, Deliver, External, pipeVars, Fates
  <1>3. CASE HelperReady(i)
    BY <1>1, <1>3 DEF HelperReady, Report, Fates
  <1>4. CASE HelperFails(i)
    BY <1>1, <1>4 DEF HelperFails, Report, Fates
  <1>5. CASE HelperReleased(i) \/ HelperExecs(i)
    BY <1>1, <1>5 DEF HelperReleased, HelperExecs
  <1>6. CASE HelperExits(i) \/ TargetExits(i)
    BY <1>1, <1>6 DEF HelperExits, TargetExits, Fates
  <1>7. QED BY <1>2, <1>3, <1>4, <1>5, <1>6 DEF Stage

\* The process of a stage ends.
LEMMA EndsResult ==
  ASSUME Known, ResultInv, NEW i \in Stages, NEW how \in Fates \ {"none"},
         Ends(i, how), how = "helper" => proc[i] = "failing", proc[i] \in Alive,
         UNCHANGED <<call, at, result, exit, ready, statusOpen, status, arrived>>
  PROVE  ResultInv'
  <1>1. /\ proc'[i] = "zombie" /\ fate'[i] = how
        /\ \A j \in Stages \ {i} : proc'[j] = proc[j] /\ fate'[j] = fate[j]
    BY DEF Known, TypeOK, Ends
  <1>2. fate[i] = "none" /\ proc[i] # "absent"
    BY DEF ResultInv, PlaceInv, Dead, Alive, Helper
  <1>3. PlaceInv' BY <1>1, <1>2 DEF ResultInv, PlaceInv, Dead, Sound
  <1>4. RecordInv' BY DEF ResultInv, RecordInv, Readiness, Sound
  <1>5. AttributedResult'
    BY <1>1, <1>2 DEF ResultInv, FailureInv, AttributedResult, Helper
  <1>6. Sound' => \A j \in Stages : proc'[j] = "failing" \/ fate'[j] = "helper" =>
                     \E k \in DOMAIN status' : status'[k].error
    BY <1>1 DEF ResultInv, FailureInv, Sound
  <1>7. Sound' /\ ~statusOpen' =>
          /\ ready' = Stages
          /\ \A j \in Stages : proc'[j] \notin Helper /\ fate'[j] # "helper"
    BY <1>1 DEF ResultInv, FailureInv, Helper, Sound
  <1>8. QED BY <1>3, <1>4, <1>5, <1>6, <1>7 DEF ResultInv, FailureInv

\* A released helper goes on.
LEMMA GoesOnResult ==
  ASSUME Known, ResultInv, NEW i \in Stages, proc[i] \in {"gated", "released"},
         NEW next \in {"released", "target"}, proc' = [proc EXCEPT ![i] = next],
         UNCHANGED <<call, at, result, exit, ready, statusOpen, status, arrived, fate>>
  PROVE  ResultInv'
  <1>1. /\ proc'[i] = next /\ \A j \in Stages \ {i} : proc'[j] = proc[j]
    BY DEF Known, TypeOK
  <1>3. PlaceInv' BY <1>1 DEF ResultInv, PlaceInv, Dead, Sound
  <1>4. RecordInv' BY DEF ResultInv, RecordInv, Readiness, Sound
  <1>5. AttributedResult'
    BY <1>1 DEF ResultInv, FailureInv, AttributedResult, Helper
  <1>6. Sound' => \A j \in Stages : proc'[j] = "failing" \/ fate'[j] = "helper" =>
                     \E k \in DOMAIN status' : status'[k].error
    BY <1>1 DEF ResultInv, FailureInv, Sound
  <1>7. ~(Sound' /\ ~statusOpen')
    BY DEF ResultInv, FailureInv, Sound, Helper
  <1>8. QED BY <1>3, <1>4, <1>5, <1>6, <1>7 DEF ResultInv, FailureInv

\* A record is written to the pipe.
LEMMA WrittenResult ==
  ASSUME Known, ResultInv, NEW i \in Stages, statusOpen, NEW error \in BOOLEAN,
         proc[i] \in {"setup", "gated", "released"}, ~error => proc[i] = "setup",
         proc' = [proc EXCEPT ![i] = IF error THEN "failing" ELSE "gated"],
         status' = Append(status, [stage |-> i, error |-> error]),
         arrived' = IF error THEN arrived ELSE arrived \cup {i},
         UNCHANGED <<call, at, result, exit, ready, statusOpen, fate>>
  PROVE  ResultInv'
  <1> DEFINE record == [stage |-> i, error |-> error]
             last == Len(status) + 1
  <1>1. /\ proc'[i] = IF error THEN "failing" ELSE "gated"
        /\ \A j \in Stages \ {i} : proc'[j] = proc[j]
    BY DEF Known, TypeOK
  <1>2. status \in Seq(Record) /\ record \in Record BY DEF Known, TypeOK, Record
  <1>3. /\ DOMAIN status = 1..Len(status) /\ Len(status) \in Nat
        /\ DOMAIN status' = 1..last
        /\ \A k \in 1..Len(status) : status'[k] = status[k]
        /\ status'[last] = record
    BY <1>2, AppendProperties
  <1>4. /\ DOMAIN status \subseteq DOMAIN status' /\ last \in DOMAIN status'
        /\ last \notin DOMAIN status
        /\ \A k \in DOMAIN status : status'[k] = status[k]
        /\ \A k \in DOMAIN status' : k # last => k \in DOMAIN status
        /\ status'[last].stage = i /\ status'[last].error = error
    BY <1>3
  <1> HIDE DEF last, record
  <1>5. fate[i] = "none" /\ (~error => i \notin arrived /\ i \notin ready)
    BY DEF ResultInv, PlaceInv, Dead, Known, BarrierInv
  <1>6. PlaceInv' BY <1>1 DEF ResultInv, PlaceInv, Dead, Sound
  <1>7. RecordInv'
    <2>1. \A k \in DOMAIN status' : Readiness(k)' => status'[k].stage \notin ready'
      BY <1>4, <1>5 DEF ResultInv, RecordInv, Readiness
    <2>2. \A k \in DOMAIN status : Readiness(k) => status[k].stage \in arrived
      BY DEF Known, BarrierInv, Readiness
    <2>3. \A j, k \in DOMAIN status' :
            Readiness(j)' /\ Readiness(k)' /\ status'[j].stage = status'[k].stage => j = k
      <3> SUFFICES ASSUME NEW j \in DOMAIN status', NEW k \in DOMAIN status',
                          Readiness(j)', Readiness(k)', status'[j].stage = status'[k].stage
                   PROVE  j = k
        OBVIOUS
      <3>1. CASE j # last /\ k # last
        BY <1>4, <3>1 DEF ResultInv, RecordInv, Readiness
      <3>2. CASE j = last /\ k # last
        BY <1>4, <1>5, <2>2, <3>2 DEF Readiness
      <3>3. CASE j # last /\ k = last
        BY <1>4, <1>5, <2>2, <3>3 DEF Readiness
      <3>4. QED BY <3>1, <3>2, <3>3
    <2>4. Sound' => \A j \in arrived' \ ready' :
            \E k \in DOMAIN status' : Readiness(k)' /\ status'[k].stage = j
      <3> SUFFICES ASSUME Sound, NEW j \in arrived' \ ready'
                   PROVE  \E k \in DOMAIN status' : Readiness(k)' /\ status'[k].stage = j
        BY DEF Sound
      <3>1. CASE j \in arrived
        BY <1>4, <3>1 DEF ResultInv, RecordInv, Readiness
      <3>2. CASE j \notin arrived
        BY <1>4, <3>2 DEF Readiness
      <3>3. QED BY <3>1, <3>2
    <2>5. QED BY <2>1, <2>3, <2>4 DEF RecordInv
  <1>8. AttributedResult'
    BY <1>1, <1>5 DEF ResultInv, FailureInv, AttributedResult, Helper
  <1>9. Sound' => \A j \in Stages : proc'[j] = "failing" \/ fate'[j] = "helper" =>
                     \E k \in DOMAIN status' : status'[k].error
    <2> SUFFICES ASSUME Sound, NEW j \in Stages, proc'[j] = "failing" \/ fate'[j] = "helper"
                 PROVE  \E k \in DOMAIN status' : status'[k].error
      BY DEF Sound
    <2>1. CASE j = i BY <1>1, <1>4, <1>5, <2>1
    <2>2. CASE j # i BY <1>1, <1>4, <2>2 DEF ResultInv, FailureInv
    <2>3. QED BY <2>1, <2>2
  <1>10. QED BY <1>6, <1>7, <1>8, <1>9 DEF ResultInv, FailureInv

\* The steps of the stages, of the kernel and of other parties.
LEMMA StageResult ==
  ASSUME Known, ResultInv, NEW i \in Stages, Kernel(i) \/ Stage(i)
  PROVE  ResultInv'
  <1>0. TypeOK BY DEF Known
  <1>1. UNCHANGED <<call, at, result, exit, ready, statusOpen>> /\ proc[i] \in Alive
    BY <1>0, StageCases
  <1>2. CASE UNCHANGED <<proc, fate, status, arrived>>
    BY <1>1, <1>2, ResultFrame DEF Sound, ResultInv, PlaceInv, FailureInv
  <1>3. CASE /\ proc[i] = "setup" /\ statusOpen
             /\ proc' = [proc EXCEPT ![i] = "gated"]
             /\ status' = Append(status, [stage |-> i, error |-> FALSE])
             /\ arrived' = arrived \cup {i} /\ UNCHANGED fate
    BY <1>1, <1>3, WrittenResult
  <1>4. CASE /\ statusOpen /\ proc[i] \in {"setup", "gated", "released"}
             /\ proc' = [proc EXCEPT ![i] = "failing"]
             /\ status' = Append(status, [stage |-> i, error |-> TRUE])
             /\ UNCHANGED <<fate, arrived>>
    BY <1>1, <1>4, WrittenResult
  <1>5. CASE /\ \E how \in Fates \ {"none"} :
                    Ends(i, how) /\ (how = "helper" => proc[i] = "failing")
             /\ UNCHANGED <<status, arrived>>
    BY <1>1, <1>5, EndsResult
  <1>6. CASE /\ proc[i] \in {"gated", "released"}
             /\ \E next \in {"released", "target"} : proc' = [proc EXCEPT ![i] = next]
             /\ UNCHANGED <<fate, status, arrived>>
    BY <1>1, <1>6, GoesOnResult
  <1>7. QED BY <1>0, <1>2, <1>3, <1>4, <1>5, <1>6, StageCases

\* A chunk of records is received: it holds every record that was outstanding, so
\* a failure among them is returned and otherwise there is none.
LEMMA ReceiveResult ==
  ASSUME Known, ResultInv, Receive, call = "commit", UNCHANGED <<fate, arrived>>
  PROVE  ResultInv'
  <1>0. TypeOK /\ Sound BY DEF Known, ResultInv, PlaceInv
  <1>1. /\ status' = <<>> /\ UNCHANGED <<statusOpen, exit, proc>>
        /\ ready' = ready \cup {status[k].stage : k \in Good}
    BY DEF Receive
  <1>2. ready' \subseteq Stages BY <1>0, ReceiveType
  <1>3. DOMAIN status' = {} BY <1>1
  <1>4. CASE FirstBad = {}
    <2>1. call' = "commit" /\ at' \in {"release", "drain"} /\ result' = result
      BY <1>4 DEF Receive, Continue
    <2>2. \A k \in DOMAIN status : ~Bad(k) BY <1>0, <1>4, FirstBadExists
    <2>3. \A k \in DOMAIN status : k \in Good
      <3>1. DOMAIN status = 1..Len(status) /\ Len(status) \in Nat
        BY <1>0, LenProperties DEF TypeOK
      <3>2. \A k \in DOMAIN status : \A j \in 1..k : j \in DOMAIN status BY <3>1
      <3>3. QED BY <2>2, <3>2 DEF Good
    <2>4. arrived' \subseteq ready'
      <3> SUFFICES ASSUME NEW i \in arrived, i \notin ready PROVE i \in ready'
        BY <1>1
      <3>1. PICK k \in DOMAIN status : Readiness(k) /\ status[k].stage = i
        BY <1>0 DEF ResultInv, RecordInv
      <3>2. QED BY <1>1, <2>3, <3>1
    <2>5. \A i \in Stages : proc[i] # "failing" /\ fate[i] # "helper"
      BY <1>0, <2>2 DEF ResultInv, FailureInv, Bad
    <2>6. PlaceInv' BY <1>0, <1>1, <2>1 DEF ResultInv, PlaceInv, Sound, Dead
    <2>7. RecordInv' BY <1>3, <2>4 DEF RecordInv
    <2>8. ~statusOpen => /\ ready' = Stages
                         /\ \A i \in Stages : proc'[i] \notin Helper /\ fate'[i] # "helper"
      BY <1>0, <1>1, <1>2 DEF ResultInv, FailureInv
    <2>9. AttributedResult'
      BY <1>1, <2>1 DEF ResultInv, FailureInv, AttributedResult
    <2>10. QED BY <1>1, <2>1, <2>5, <2>6, <2>7, <2>8, <2>9 DEF ResultInv, FailureInv
  <1>5. CASE FirstBad # {}
    <2>1. \E k \in FirstBad : status[k].error
      BY <1>0, <1>5, FirstBadIsError DEF ResultInv
    <2>2. call' = "idle" /\ at' = "none" /\ result' = "error"
      BY <1>5, <2>1 DEF Receive, Return
    <2>3. ~Sound' BY <2>2 DEF Sound
    <2>4. PlaceInv' BY <1>0, <1>1, <2>2 DEF ResultInv, PlaceInv, Dead, Sound
    <2>5. RecordInv' BY <1>3, <2>3 DEF RecordInv
    <2>6. AttributedResult' BY <2>2 DEF AttributedResult
    <2>7. QED BY <2>2, <2>3, <2>4, <2>5, <2>6 DEF ResultInv, FailureInv
  <1>6. QED BY <1>4, <1>5

\* With nothing in the pipe nothing has failed, and a stage that is not ready has
\* not arrived.
LEMMA NothingOutstanding ==
  ASSUME Known, ResultInv, Sound, status = <<>>
  PROVE  /\ \A i \in Stages : proc[i] # "failing" /\ fate[i] # "helper"
         /\ \A i \in Stages : i \notin ready => i \notin arrived
  <1>1. DOMAIN status = {} OBVIOUS
  <1>2. QED BY <1>1 DEF ResultInv, RecordInv, FailureInv

\* The status pipe ends: every stage runs its target or is gone.
LEMMA ReceiveEndResult ==
  ASSUME Known, ResultInv, ReceiveEnd, call = "commit", UNCHANGED <<fate, arrived>>
  PROVE  ResultInv'
  <1>0. TypeOK /\ Sound BY DEF Known, ResultInv, PlaceInv
  <1>1. /\ UNCHANGED <<status, ready, exit, proc>> /\ status = <<>>
        /\ statusOpen' = FALSE /\ call' = "idle" /\ at' = "none"
        /\ result' = IF ready = Stages THEN "ok" ELSE "lost"
        /\ \A i \in Stages : proc[i] \notin Helper
    BY DEF ReceiveEnd, Return, StatusEnded
  <1>2. /\ \A i \in Stages : proc[i] # "failing" /\ fate[i] # "helper"
        /\ \A i \in Stages : i \notin ready => i \notin arrived
    BY <1>0, <1>1, NothingOutstanding
  <1>3. PlaceInv' BY <1>0, <1>1 DEF ResultInv, PlaceInv, Dead, Sound
  <1>4. RecordInv' BY <1>0, <1>1 DEF ResultInv, RecordInv, Readiness
  <1>5. CASE ready = Stages
    BY <1>1, <1>2, <1>3, <1>4, <1>5 DEF ResultInv, FailureInv, AttributedResult
  <1>6. CASE ready # Stages
    <2>1. PICK i \in Stages : i \notin ready
      BY <1>0, <1>6 DEF TypeOK
    <2>2. proc[i] # "target" BY <1>6 DEF Known, BarrierInv
    <2>3. proc[i] # "absent" BY <1>0 DEF ResultInv, PlaceInv, Sound
    <2>4. fate[i] # "none"
      BY <1>0, <1>1, <2>2, <2>3 DEF ResultInv, PlaceInv, TypeOK, Dead, Alive
    <2>5. AttributedResult'
      BY <1>1, <1>2, <1>6, <2>1, <2>4 DEF AttributedResult
    <2>6. ~Sound' BY <1>1, <1>6 DEF Sound
    <2>7. QED BY <1>1, <1>3, <1>4, <2>5, <2>6 DEF ResultInv, FailureInv
  <1>7. QED BY <1>5, <1>6

\* The coordinator's steps inside commit.
LEMMA CommitResult ==
  ASSUME Known, ResultInv, Drain \/ PollLaunch \/ Reread \/ AwaitLaunch \/ Release
  PROVE  ResultInv'
  <1> USE DEF commitFrame, pipeVars, recordVars, kernelVars
  <1>0. TypeOK BY DEF Known
  <1>1. call = "commit" /\ UNCHANGED <<fate, arrived>>
    BY DEF Drain, PollLaunch, Reread, AwaitLaunch, Release
  <1>2. Sound BY <1>1 DEF ResultInv, PlaceInv
  <1>3. CASE Receive BY <1>1, <1>3, ReceiveResult
  <1>4. CASE ReceiveEnd BY <1>1, <1>4, ReceiveEndResult
  <1> DEFINE Same == UNCHANGED <<status, statusOpen, ready, exit, proc>>
  <1>5. CASE Same /\ \E where \in {"poll", "drain"} : Continue(where)
    <2>1. call' = "commit" /\ at' # "reread" /\ result' = result
      BY <1>1, <1>5 DEF Continue
    <2>2. Sound' BY <1>2, <2>1 DEF Sound
    <2>3. QED BY <1>1, <1>2, <1>5, <2>1, <2>2, ResultFrame
  <1>6. CASE Same /\ Return("error")
    <2>1. call' = "idle" /\ at' = "none" /\ result' = "error" BY <1>6 DEF Return
    <2>2. ~Sound' BY <2>1 DEF Sound
    <2>3. QED BY <1>1, <1>2, <1>6, <2>1, <2>2, ResultFrame
  <1>7. CASE Same /\ ~statusOpen /\ Return(IF ready = Stages THEN "ok" ELSE "lost")
    <2>1. /\ ready = Stages
          /\ \A i \in Stages : proc[i] \notin Helper /\ fate[i] # "helper"
      BY <1>2, <1>7 DEF ResultInv, FailureInv
    <2>2. call' = "idle" /\ at' = "none" /\ result' = "ok" BY <1>7, <2>1 DEF Return
    <2>3. AttributedResult' BY <1>1, <1>7, <2>1, <2>2 DEF AttributedResult
    <2>4. Sound' BY <2>2 DEF Sound
    <2>5. QED BY <1>1, <1>2, <1>7, <2>2, <2>3, <2>4, ResultFrame
  <1>8. CASE Same /\ at = "reread" /\ status = <<>> /\ Return("lost")
    <2>1. PICK i \in Stages : exit[i] # "none" /\ i \notin ready
      BY <1>1, <1>8 DEF ResultInv, FailureInv
    <2>2. fate[i] # "none" BY <2>1 DEF Known, GroupInv
    <2>3. fate[i] # "helper" /\ i \notin arrived
      BY <1>2, <1>8, <2>1, NothingOutstanding
    <2>4. call' = "idle" /\ at' = "none" /\ result' = "lost" BY <1>8 DEF Return
    <2>5. AttributedResult' BY <1>1, <2>2, <2>3, <2>4 DEF AttributedResult
    <2>6. ~Sound' BY <2>4 DEF Sound
    <2>7. QED BY <1>1, <1>2, <1>8, <2>4, <2>5, <2>6, ResultFrame
  <1>9. CASE PollLaunch
    <2>1. /\ \A i \in Stages : exit'[i] = SeenExit(i)
          /\ \A i \in Stages : proc'[i] = proc[i] \/ (proc[i] = "zombie" /\ proc'[i] = "reaped")
          /\ UNCHANGED <<status, statusOpen, ready>>
      BY <1>9 DEF PollLaunch, Poll
    <2>2. \A i \in Stages : exit[i] # "none" => exit'[i] # "none"
      BY <2>1 DEF SeenExit
    <2>3. CASE Return("stopped")
      <3>1. call' = "idle" /\ at' = "none" /\ result' = "stopped" BY <2>3 DEF Return
      <3>2. Sound' BY <3>1 DEF Sound
      <3>3. QED BY <1>1, <1>2, <2>1, <2>2, <3>1, <3>2, ResultFrame
    <2>4. CASE Continue("await")
      <3>1. call' = "commit" /\ at' # "reread" /\ result' = result
        BY <1>1, <2>4 DEF Continue
      <3>2. Sound' BY <1>2, <3>1 DEF Sound
      <3>3. QED BY <1>1, <1>2, <2>1, <2>2, <3>1, <3>2, ResultFrame
    <2>5. CASE Continue("reread") /\ \E i \in Spawned : SeenExit(i) # "none" /\ i \notin ready
      <3>1. call' = "commit" /\ result' = result
        BY <1>1, <2>5 DEF Continue
      <3>2. Sound' BY <1>2, <3>1 DEF Sound
      <3>3. \E i \in Stages : exit'[i] # "none" /\ i \notin ready
        BY <2>1, <2>5 DEF Spawned
      <3>4. QED BY <1>1, <1>2, <2>1, <2>2, <3>1, <3>2, <3>3, ResultFrame
    <2>6. QED BY <1>9, <2>3, <2>4, <2>5 DEF PollLaunch
  <1>10. CASE Drain BY <1>3, <1>4, <1>5, <1>7, <1>10 DEF Drain
  <1>11. CASE Reread BY <1>3, <1>4, <1>8, <1>11 DEF Reread
  <1>12. CASE AwaitLaunch BY <1>3, <1>4, <1>5, <1>12 DEF AwaitLaunch
  <1>13. CASE Release BY <1>5, <1>6, <1>13 DEF Release
  <1>14. QED BY <1>9, <1>10, <1>11, <1>12, <1>13

\* The coordinator's steps inside wait and cancel.
LEMMA WaitResult ==
  ASSUME Known, ResultInv,
         \/ PollWait \/ Freeze \/ AwaitWait \/ PollCancel \/ CancelSignals
         \/ PollCancelled \/ AwaitCancelled \/ Escalate
  PROVE  ResultInv'
  <1> USE DEF waitFrame, pipeVars, recordVars, kernelVars
  <1>1. UNCHANGED <<status, arrived, ready, fate>>
    BY DEF PollWait, Freeze, AwaitWait, PollCancel, CancelSignals, PollCancelled,
           AwaitCancelled, Escalate
  <1>2. \A i \in Stages : proc'[i] = proc[i] \/ (proc[i] = "zombie" /\ proc'[i] = "reaped")
    BY DEF PollWait, Freeze, AwaitWait, PollCancel, CancelSignals, PollCancelled,
           AwaitCancelled, Escalate, Poll
  <1>3. \A i \in Stages : exit[i] # "none" => exit'[i] # "none"
    BY DEF PollWait, Freeze, AwaitWait, PollCancel, CancelSignals, PollCancelled,
           AwaitCancelled, Escalate, Poll, SeenExit
  <1>4. CASE PollWait \/ Freeze \/ AwaitWait
    <2>1. call = "wait" /\ statusOpen' = statusOpen
      BY <1>4 DEF PollWait, Freeze, AwaitWait
    <2>2. \/ call' = "wait" /\ result' = result
          \/ call' = "idle" /\ result' \in {"finished", "stopped"}
      BY <1>4, <2>1 DEF PollWait, Freeze, AwaitWait, Return, Continue
    <2>3. Sound BY <2>1 DEF ResultInv, PlaceInv
    <2>4. Sound' BY <2>2, <2>3 DEF Sound
    <2>5. QED BY <1>1, <1>2, <1>3, <2>1, <2>2, <2>3, <2>4, ResultFrame
  <1>5. CASE PollCancel \/ CancelSignals \/ PollCancelled \/ AwaitCancelled \/ Escalate
    <2>1. call' \in {"cancel", "done"} /\ result' = result
      BY <1>5 DEF PollCancel, CancelSignals, PollCancelled, AwaitCancelled, Escalate,
                  Continue
    <2>2. ~Sound' BY <2>1 DEF Sound
    <2>3. QED BY <1>1, <1>2, <1>3, <2>1, <2>2, ResultFrame
  <1>6. QED BY <1>4, <1>5

\* The caller's steps.
LEMMA CallerResult ==
  ASSUME Known, ResultInv, Caller \/ \E i \in Stages : Spawn(i)
  PROVE  ResultInv'
  <1> USE DEF pipeVars, recordVars, kernelVars
  <1>0. TypeOK BY DEF Known
  <1>1. ASSUME NEW i \in Stages, Spawn(i) PROVE ResultInv'
    <2>1. proc[i] = "absent" BY <1>1 DEF Spawn, Spawned, Stages
    <2>2. proc'[i] = "setup" /\ \A j \in Stages \ {i} : proc'[j] = proc[j]
      BY <1>0, <1>1 DEF Spawn, TypeOK
    <2>3. /\ UNCHANGED <<fate, exit, status, statusOpen, ready, arrived, at, result>>
          /\ call = "spawn" /\ call' \in {"spawn", "idle"}
          /\ (call' = "idle" => i = N)
      BY <1>1 DEF Spawn
    <2>4. result = "none" /\ Sound /\ Sound'
      BY <2>3 DEF ResultInv, PlaceInv, Sound
    <2>5. call' = "idle" => \A j \in Stages : proc'[j] # "absent"
      <3>1. Spawned = 1..(i - 1) BY <1>1 DEF Spawn
      <3>2. i = N => \A j \in Stages \ {i} : j \in Spawned
        BY <3>1, StageCount DEF Stages
      <3>3. QED BY <2>2, <2>3, <3>2 DEF Spawned
    <2>6. PlaceInv'
      BY <2>1, <2>2, <2>3, <2>4, <2>5 DEF ResultInv, PlaceInv, Dead
    <2>7. RecordInv' BY <2>3, <2>4 DEF ResultInv, RecordInv, Readiness
    <2>8. statusOpen
      <3>1. ~statusOpen => \A j \in Stages : j \in ready
        BY <2>4 DEF ResultInv, FailureInv
      <3>2. i \notin ready BY <2>1 DEF ResultInv, PlaceInv, Known, BarrierInv
      <3>3. QED BY <3>1, <3>2
    <2>9. AttributedResult' BY <2>3, <2>4 DEF AttributedResult
    <2>10. QED BY <2>2, <2>3, <2>4, <2>6, <2>7, <2>8, <2>9 DEF ResultInv, FailureInv
  <1>2. CASE SpawnFails \/ Commit \/ Suspend \/ Resume \/ Wait \/ Cancel \/ DropCall
    <2>1. UNCHANGED <<status, statusOpen, arrived, ready, fate, proc, exit>>
      BY <1>2 DEF SpawnFails, Commit, Suspend, Resume, Wait, Cancel, DropCall
    <2>2. CASE SpawnFails \/ Cancel
      <3>1. call' = "cancel" /\ result' = result BY <2>2 DEF SpawnFails, Cancel
      <3>2. ~Sound' BY <3>1 DEF Sound
      <3>3. QED BY <2>1, <3>1, <3>2, ResultFrame
    <2>3. CASE Commit \/ Suspend \/ Wait \/ Resume
      <3>1. /\ call = "idle" /\ Sound /\ call' \in {"commit", "wait", "idle"}
            /\ ~(call' = "commit" /\ at' = "reread") /\ result' \in {result, "none"}
        BY <2>3 DEF Commit, Suspend, Wait, Resume, Usable, Sound
      <3>2. Sound' BY <3>1 DEF Sound
      <3>3. QED BY <2>1, <3>1, <3>2, ResultFrame
    <2>4. CASE DropCall
      <3>1. /\ call \in {"commit", "wait"} /\ call' = "idle" /\ at' = "none"
            /\ result' = "none"
        BY <2>4 DEF DropCall, Return
      <3>2. Sound /\ Sound' BY <3>1 DEF Sound, ResultInv, PlaceInv
      <3>3. QED BY <2>1, <3>1, <3>2, ResultFrame
    <2>5. QED BY <1>2, <2>2, <2>3, <2>4
  <1>3. CASE Reap \/ Drop
    <2>1. /\ UNCHANGED <<status, arrived, ready, fate, result>>
          /\ call' \in {"done", "dropped"}
      BY <1>3 DEF Reap, Drop
    <2>2. ~Sound' BY <2>1 DEF Sound
    <2>3. \A i \in Stages : exit[i] # "none" => exit'[i] # "none"
      BY <1>3 DEF Reap, Drop, SeenExit
    <2>4. \A i \in Stages : proc'[i] = proc[i] \/ (proc[i] = "zombie" /\ proc'[i] = "reaped")
      <3>1. CASE Reap BY <1>0, <3>1 DEF Reap, GiveUpGroup, TypeOK
      <3>2. CASE Drop BY <3>2 DEF Drop
      <3>3. QED BY <1>3, <3>1, <3>2
    <2>5. QED BY <2>1, <2>2, <2>3, <2>4, ResultFrame
  <1>4. QED BY <1>1, <1>2, <1>3 DEF Caller

\* Every step of a job keeps the invariant.
LEMMA ResultStep == Known /\ ResultInv /\ [Next]_vars => ResultInv'
  <1> SUFFICES ASSUME Known, ResultInv, [Next]_vars PROVE ResultInv' OBVIOUS
  <1>1. CASE UNCHANGED vars
    BY <1>1, ResultFrame
       DEF vars, kernelVars, pipeVars, recordVars, callVars, Sound, ResultInv, PlaceInv,
           FailureInv
  <1>2. CASE Next
    BY <1>2, StageResult, CommitResult, WaitResult, CallerResult DEF Next, Progress
  <1>3. QED BY <1>1, <1>2

\* In a pipeline of any length a launch error is attributed to its cause: "exited
\* before readiness" is said only of a stage that wrote no record, success only
\* when no stage failed to execute, and the protocol error never.
THEOREM ErrorsAttributed == Spec => []AttributedResult
  <1>1. Init => ResultInv
    <2>1. DOMAIN <<>> = {} OBVIOUS
    <2>2. QED BY <2>1 DEF Init, ResultInv, PlaceInv, RecordInv, FailureInv, AttributedResult,
                          Sound, Dead
  <1>2. ResultInv => AttributedResult BY DEF ResultInv, FailureInv
  <1>3. QED BY <1>1, <1>2, KnownAlways, ResultStep, PTL DEF Spec
=============================================================================
