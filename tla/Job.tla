--------------------------------- MODULE Job ---------------------------------
(***************************************************************************)
(* One owned process group of the shell: crates/rill-system/src/job.rs     *)
(* (the coordinator), helper.rs (the launch helper every stage starts as)  *)
(* and, marked external in the map, the kernel's share: signals, stops,    *)
(* zombies and the two launch pipes.                                       *)
(*                                                                         *)
(* Stage 1 is the group leader.  A stage is spawned as a helper that sets  *)
(* itself up, writes a record to the status pipe, reads one byte from the  *)
(* gate pipe and becomes the target program.  The coordinator's calls are  *)
(* asynchronous: each action below is the code from one suspension point   *)
(* to the next, and the caller may drop a call that is suspended.          *)
(***************************************************************************)
EXTENDS Integers, Sequences

CONSTANTS
  N,            \* number of stages in the plan
  MaxExternal   \* bound on signals sent to stages by other parties

ASSUME StageCount == N \in Nat \ {0}
ASSUME ExternalBound == MaxExternal \in Nat

Stages == 1..N
Leader == 1

VARIABLES
  \* the kernel's view of the stages
  proc,         \* what each stage's process is doing
  fate,         \* how it ended
  halted,       \* stopped by job control
  event,        \* the stop or continue report not yet collected by a wait
  pend,         \* termination signals sent and not yet acted on
  wake,         \* SIGCHLD noted by Job::events and not yet received
  gate,         \* bytes in the gate pipe
  status,       \* records in the status pipe
  \* the fields of Job
  exit,         \* children[i].1, the observed termination
  stopped,      \* children[i].2, the observed stop
  group,        \* whether the job still holds its process group
  gateOpen,     \* whether the job holds the gate's write end
  written,      \* gate_written
  statusOpen,   \* whether the job holds the status pipe's read end
  ready,        \* stages whose readiness record has been received
  failed,       \* stages whose error record has been received
  sent,         \* cleanup_signals
  \* the call in progress
  call, at, escalated,
  result,       \* what the last finished call returned
  \* history and bounds
  arrived,      \* stages that wrote their readiness record
  external      \* signals sent by other parties so far

kernelVars == <<proc, fate, halted, event, pend, wake>>
pipeVars == <<gate, status, gateOpen, statusOpen>>
recordVars == <<written, ready, failed>>
callVars == <<call, at, escalated, result>>
vars == <<kernelVars, pipeVars, exit, stopped, group, recordVars, sent,
          callVars, arrived, external>>

Helper == {"setup", "failing", "gated", "released"}
Alive == Helper \cup {"target"}
Fates == {"none", "helper", "exit", "pipe", "term", "kill", "foreign"}

Record == [stage : Stages, error : BOOLEAN]

Spawned == {i \in Stages : proc[i] # "absent"}

TypeOK ==
  /\ proc \in [Stages -> Alive \cup {"absent", "zombie", "reaped"}]
  /\ fate \in [Stages -> Fates]
  /\ halted \in [Stages -> BOOLEAN]
  /\ event \in [Stages -> {"none", "stopped", "continued"}]
  /\ pend \in [Stages -> SUBSET {"term", "kill"}]
  /\ wake \in BOOLEAN
  /\ gate \in Nat
  /\ status \in Seq(Record)
  /\ exit \in [Stages -> Fates]
  /\ stopped \in [Stages -> BOOLEAN]
  /\ group \in BOOLEAN
  /\ gateOpen \in BOOLEAN
  /\ written \in 0..N
  /\ statusOpen \in BOOLEAN
  /\ ready \subseteq Stages
  /\ failed \subseteq Stages
  /\ sent \subseteq Stages \X {"term", "kill"}
  /\ call \in {"spawn", "idle", "commit", "wait", "cancel", "done", "dropped"}
  /\ at \in {"none", "drain", "poll", "reread", "await", "release", "signal"}
  /\ escalated \in BOOLEAN
  /\ result \in {"none", "ok", "error", "protocol", "lost", "stopped", "finished"}
  /\ arrived \subseteq Stages
  /\ external \in 0..MaxExternal

Init ==
  /\ proc = [i \in Stages |-> "absent"]
  /\ fate = [i \in Stages |-> "none"]
  /\ halted = [i \in Stages |-> FALSE]
  /\ event = [i \in Stages |-> "none"]
  /\ pend = [i \in Stages |-> {}]
  /\ wake = FALSE
  /\ gate = 0 /\ gateOpen = TRUE /\ written = 0
  /\ status = <<>> /\ statusOpen = TRUE
  /\ exit = [i \in Stages |-> "none"]
  /\ stopped = [i \in Stages |-> FALSE]
  /\ group = FALSE
  /\ ready = {} /\ failed = {} /\ sent = {}
  /\ call = "spawn" /\ at = "none" /\ escalated = FALSE /\ result = "none"
  /\ arrived = {} /\ external = 0

-----------------------------------------------------------------------------
(* The kernel: processes end, stop, continue and are reported.             *)

\* The process of stage i ends; its parent is notified.
Ends(i, how) ==
  /\ proc' = [proc EXCEPT ![i] = "zombie"]
  /\ fate' = [fate EXCEPT ![i] = how]
  /\ halted' = [halted EXCEPT ![i] = FALSE]
  /\ pend' = [pend EXCEPT ![i] = {}]
  /\ event' = [event EXCEPT ![i] = "none"]
  /\ wake' = TRUE

\* The signals job.rs sends to the whole group, acting on S, the members that
\* are still alive; each stop or continue replaces an uncollected report.
Stopping(S) ==
  LET T == {i \in S : ~halted[i]} IN
  /\ halted' = [i \in Stages |-> halted[i] \/ i \in T]
  /\ event' = [i \in Stages |-> IF i \in T THEN "stopped" ELSE event[i]]
  /\ wake' = (wake \/ T # {})

Continuing(S) ==
  LET T == {i \in S : halted[i]} IN
  /\ halted' = [i \in Stages |-> halted[i] /\ i \notin T]
  /\ event' = [i \in Stages |-> IF i \in T THEN "continued" ELSE event[i]]
  /\ wake' = (wake \/ T # {})

Terminating(S, signal) ==
  pend' = [i \in Stages |-> IF i \in S THEN pend[i] \cup {signal} ELSE pend[i]]

\* The members a group signal reaches: none once the group is given up.
Members == {i \in Stages : group /\ proc[i] \in Alive}

\* A pending termination signal takes effect.  Only SIGKILL acts on a stopped
\* process, and only a target has a handler that may survive SIGTERM.
Deliver(i) ==
  /\ proc[i] \in Alive
  /\ \/ "kill" \in pend[i] /\ Ends(i, "kill")
     \/ "term" \in pend[i] /\ ~halted[i] /\ Ends(i, "term")
     \/ /\ "term" \in pend[i] /\ ~halted[i] /\ proc[i] = "target"
        /\ pend' = [pend EXCEPT ![i] = @ \ {"term"}]
        /\ UNCHANGED <<proc, fate, halted, event, wake>>
  /\ UNCHANGED <<pipeVars, exit, stopped, group, recordVars, sent, callVars,
                 arrived, external>>

\* Somebody else stops, continues or kills a stage: the terminal, the user or
\* the program itself.
External(i) ==
  /\ external < MaxExternal
  /\ external' = external + 1
  /\ proc[i] \in Alive
  /\ \/ Stopping({i}) /\ UNCHANGED <<proc, fate, pend>>
     \/ Continuing({i}) /\ UNCHANGED <<proc, fate, pend>>
     \/ Ends(i, "foreign")
  /\ UNCHANGED <<pipeVars, exit, stopped, group, recordVars, sent, callVars,
                 arrived>>

-----------------------------------------------------------------------------
(* helper.rs: what a stage does before and after it becomes its target.    *)

Steps(i) == proc[i] \in Alive /\ ~halted[i]

\* A record written to the status pipe; without a reader SIGPIPE, restored by
\* prepare_exec, ends the helper.
Report(i, error, next) ==
  \/ /\ statusOpen
     /\ status' = Append(status, [stage |-> i, error |-> error])
     /\ proc' = [proc EXCEPT ![i] = next]
     /\ UNCHANGED <<fate, halted, event, pend, wake>>
  \/ /\ ~statusOpen
     /\ Ends(i, "pipe")
     /\ UNCHANGED status

helperFrame == <<gateOpen, statusOpen, exit, stopped, group, recordVars, sent,
                 callVars, external>>

\* Redirects are applied and the readiness record is written.
HelperReady(i) ==
  /\ Steps(i) /\ proc[i] = "setup"
  /\ Report(i, FALSE, "gated")
  /\ arrived' = IF statusOpen THEN arrived \cup {i} ELSE arrived
  /\ UNCHANGED <<gate, helperFrame>>

\* Setup fails, the gate closes without a byte, or no candidate can be executed.
HelperFails(i) ==
  /\ Steps(i)
  /\ \/ proc[i] = "setup"
     \/ proc[i] = "gated" /\ gate = 0 /\ ~gateOpen
     \/ proc[i] = "released"
  /\ Report(i, TRUE, "failing")
  /\ UNCHANGED <<gate, helperFrame, arrived>>

\* Mistaken variant: the helper does not wait for its byte.
HelperReleasedUngated(i) ==
  /\ Steps(i) /\ proc[i] = "gated"
  /\ proc' = [proc EXCEPT ![i] = "released"]
  /\ UNCHANGED <<fate, halted, event, pend, wake, gate, status, helperFrame, arrived>>

\* One byte of the gate releases one helper.
HelperReleased(i) ==
  /\ Steps(i) /\ proc[i] = "gated" /\ gate > 0
  /\ gate' = gate - 1
  /\ proc' = [proc EXCEPT ![i] = "released"]
  /\ UNCHANGED <<fate, halted, event, pend, wake, status, helperFrame, arrived>>

\* exec succeeds: the close-on-exec ends of both pipes disappear.
HelperExecs(i) ==
  /\ Steps(i) /\ proc[i] = "released"
  /\ proc' = [proc EXCEPT ![i] = "target"]
  /\ UNCHANGED <<fate, halted, event, pend, wake, gate, status, helperFrame,
                 arrived>>

\* A failed helper exits 127; a target exits when it likes.
HelperExits(i) ==
  /\ Steps(i) /\ proc[i] = "failing"
  /\ Ends(i, "helper")
  /\ UNCHANGED <<gate, status, helperFrame, arrived>>

TargetExits(i) ==
  /\ Steps(i) /\ proc[i] = "target"
  /\ Ends(i, "exit")
  /\ UNCHANGED <<gate, status, helperFrame, arrived>>

-----------------------------------------------------------------------------
(* job.rs: observation.                                                    *)

\* What poll leaves in children[i]: a new termination, or the last stop or
\* continue report.
SeenExit(i) ==
  IF exit[i] = "none" /\ proc[i] = "zombie" THEN fate[i] ELSE exit[i]

SeenStop(i) ==
  IF exit[i] # "none" \/ event[i] = "none" THEN stopped[i]
  ELSE event[i] = "stopped"

\* Mistaken variant: the leader is reaped like any other member.
PollReapingLeader ==
  /\ exit' = [i \in Stages |-> SeenExit(i)]
  /\ stopped' = [i \in Stages |-> SeenStop(i)]
  /\ event' = [i \in Stages |-> "none"]
  /\ proc' = [i \in Stages |-> IF proc[i] = "zombie" THEN "reaped" ELSE proc[i]]

\* poll: collect every child's state.  waitpid reaps a dead member; the leader
\* is only peeked at, so it stays a zombie and its group id stays taken.
Poll ==
  /\ exit' = [i \in Stages |-> SeenExit(i)]
  /\ stopped' = [i \in Stages |-> SeenStop(i)]
  /\ event' = [i \in Stages |-> "none"]
  /\ proc' = [i \in Stages |-> IF proc[i] = "zombie" /\ i # Leader THEN "reaped"
                               ELSE proc[i]]

\* poll's answer; AnyStopped is the mistaken variant of AllStopped.
Finished == \A i \in Spawned : SeenExit(i) # "none"
AnyStopped == ~Finished /\ \E i \in Spawned : SeenExit(i) = "none" /\ SeenStop(i)
AllStopped == ~Finished /\ \A i \in Spawned : SeenExit(i) # "none" \/ SeenStop(i)
SomeStopped == \E i \in Spawned : SeenExit(i) = "none" /\ SeenStop(i)

Live == {i \in Spawned : exit[i] = "none"}

Return(value) ==
  /\ call' = "idle" /\ at' = "none"
  /\ result' = value
  /\ UNCHANGED escalated

Continue(where) == at' = where /\ UNCHANGED <<call, escalated, result>>

-----------------------------------------------------------------------------
(* job.rs: prepare and commit.                                             *)

\* spawn_stages: the next stage joins the group of the first; the last one
\* ends prepare.
Spawn(i) ==
  /\ call = "spawn" /\ at = "none"
  /\ Spawned = 1..(i - 1)
  /\ proc' = [proc EXCEPT ![i] = "setup"]
  /\ group' = TRUE
  /\ call' = IF i = N THEN "idle" ELSE "spawn"
  /\ UNCHANGED <<fate, halted, event, pend, wake, pipeVars, exit, stopped,
                 recordVars, sent, at, escalated, result, arrived, external>>

\* A descriptor or the process cannot be made: prepare cancels what it started.
SpawnFails ==
  /\ call = "spawn" /\ at = "none"
  /\ call' = "cancel" /\ at' = "poll"
  /\ UNCHANGED <<kernelVars, pipeVars, exit, stopped, group, recordVars, sent,
                 escalated, result, arrived, external>>

\* Between calls the caller may use the job, unless commit has failed: then it
\* "must cancel the retained job".
Usable == call = "idle" /\ result \notin {"error", "protocol", "lost"}

\* The caller awaits commit; after a stop or a dropped call it may do so again.
Commit ==
  /\ Usable
  /\ call' = "commit"
  /\ at' = IF ready = Stages /\ gateOpen THEN "release" ELSE "drain"
  /\ UNCHANGED <<kernelVars, pipeVars, exit, stopped, group, recordVars, sent,
                 escalated, result, arrived, external>>

\* No process and no parent still holds the status pipe's write end.
StatusEnded == \A i \in Stages : proc[i] \notin Helper

Bad(k) ==
  \/ status[k].error
  \/ status[k].stage \in ready
  \/ \E j \in 1..(k - 1) : status[j].stage = status[k].stage

Good == {k \in DOMAIN status : \A j \in 1..k : ~Bad(j)}
FirstBad == {k \in DOMAIN status : Bad(k) /\ \A j \in 1..(k - 1) : ~Bad(j)}

\* Mistaken variant: the gate is opened on the first readiness record.
ReceiveEager ==
  /\ status # <<>>
  /\ status' = <<>>
  /\ ready' = ready \cup {status[k].stage : k \in Good}
  /\ failed' = failed \cup {status[k].stage : k \in {j \in FirstBad : status[j].error}}
  /\ IF FirstBad = {}
     THEN Continue(IF gateOpen THEN "release" ELSE "drain")
     ELSE Return(IF \E k \in FirstBad : status[k].error THEN "error" ELSE "protocol")
  /\ UNCHANGED <<statusOpen, exit, stopped, proc, event>>

\* receive_status on a chunk: readiness records up to the first bad record.
Receive ==
  /\ status # <<>>
  /\ status' = <<>>
  /\ ready' = ready \cup {status[k].stage : k \in Good}
  /\ failed' = failed \cup {status[k].stage : k \in {j \in FirstBad : status[j].error}}
  /\ IF FirstBad = {}
     THEN Continue(IF gateOpen /\ ready' = Stages THEN "release" ELSE "drain")
     ELSE Return(IF \E k \in FirstBad : status[k].error THEN "error" ELSE "protocol")
  /\ UNCHANGED <<statusOpen, exit, stopped, proc, event>>

\* receive_status at the end of the pipe: the barrier was never completed, or
\* every stage has executed its target or is gone.
ReceiveEnd ==
  /\ status = <<>> /\ StatusEnded
  /\ statusOpen' = FALSE
  /\ Return(IF ready = Stages THEN "ok" ELSE "lost")
  /\ UNCHANGED <<status, ready, failed, exit, stopped, proc, event>>

commitFrame == <<fate, halted, pend, gate, gateOpen, group, written, sent,
                 arrived, external>>

\* launch_status: records first ...
Drain ==
  /\ call = "commit" /\ at = "drain"
  /\ \/ statusOpen /\ Receive
     \/ statusOpen /\ ReceiveEnd
     \/ /\ statusOpen /\ status = <<>> /\ ~StatusEnded
        /\ Continue("poll")
        /\ UNCHANGED <<status, statusOpen, ready, failed, exit, stopped, proc, event>>
     \/ /\ ~statusOpen
        /\ Return(IF ready = Stages THEN "ok" ELSE "lost")
        /\ UNCHANGED <<status, statusOpen, ready, failed, exit, stopped, proc, event>>
  /\ UNCHANGED <<wake, commitFrame>>

\* Mistaken variant: an early exit is judged without the second look.
PollLaunchHasty ==
  /\ call = "commit" /\ at = "poll"
  /\ Poll
  /\ IF AllStopped THEN Return("stopped")
     ELSE IF \E i \in Spawned : SeenExit(i) # "none" /\ i \notin ready
          THEN Return("lost") ELSE Continue("await")
  /\ UNCHANGED <<wake, status, statusOpen, ready, failed, commitFrame>>

\* ... then the children: a stopped launch returns to its caller, a helper that
\* died before its readiness record asks for a second look at the pipe.
PollLaunch ==
  /\ call = "commit" /\ at = "poll"
  /\ Poll
  /\ IF AllStopped THEN Return("stopped")
     ELSE Continue(IF \E i \in Spawned : SeenExit(i) # "none" /\ i \notin ready
                   THEN "reread" ELSE "await")
  /\ UNCHANGED <<wake, status, statusOpen, ready, failed, commitFrame>>

\* The helper may have written its error between the first read and the poll.
Reread ==
  /\ call = "commit" /\ at = "reread"
  /\ \/ Receive
     \/ ReceiveEnd
     \/ /\ status = <<>> /\ ~StatusEnded
        /\ Return("lost")
        /\ UNCHANGED <<status, statusOpen, ready, failed, exit, stopped, proc, event>>
  /\ UNCHANGED <<wake, commitFrame>>

\* Mistaken variant: only the pipe is awaited.
AwaitLaunchDeaf ==
  /\ call = "commit" /\ at = "await"
  /\ \/ Receive /\ UNCHANGED wake
     \/ ReceiveEnd /\ UNCHANGED wake
  /\ UNCHANGED commitFrame

\* The select: a record, the end of the pipe, or a child event.
AwaitLaunch ==
  /\ call = "commit" /\ at = "await"
  /\ \/ Receive /\ UNCHANGED wake
     \/ ReceiveEnd /\ UNCHANGED wake
     \/ /\ wake /\ wake' = FALSE
        /\ Continue("drain")
        /\ UNCHANGED <<status, statusOpen, ready, failed, exit, stopped, proc, event>>
  /\ UNCHANGED commitFrame

\* Mistaken variant: the gate is kept after the write.
ReleaseKeepingGate ==
  /\ call = "commit" /\ at = "release"
  /\ gate' = gate + N /\ written' = written + N
  /\ Continue("drain")
  /\ UNCHANGED <<kernelVars, status, gateOpen, statusOpen, exit, stopped, group,
                 ready, failed, sent, arrived, external>>

\* Every stage is ready: one byte each, then the gate is closed.  Without a
\* helper left to read it the write fails.
Release ==
  /\ call = "commit" /\ at = "release"
  /\ IF \E i \in Stages : proc[i] \in Helper
     THEN /\ gate' = gate + (N - written) /\ written' = N
          /\ gateOpen' = FALSE
          /\ Continue("drain")
     ELSE /\ Return("error")
          /\ UNCHANGED <<gate, gateOpen, written>>
  /\ UNCHANGED <<kernelVars, status, statusOpen, exit, stopped, group, ready,
                 failed, sent, arrived, external>>

-----------------------------------------------------------------------------
(* job.rs: wait, signal, resume and reap.                                  *)

\* Launching::suspend and ProcessSource::suspend: stop the group, then wait.
Suspend ==
  /\ Usable
  /\ Stopping(Members)
  /\ call' = "wait" /\ at' = "poll"
  /\ UNCHANGED <<proc, fate, pend, pipeVars, exit, stopped, group, recordVars,
                 sent, escalated, result, arrived, external>>

Resume ==
  /\ Usable
  /\ Continuing(Members)
  /\ stopped' = [i \in Stages |-> FALSE]
  /\ result' = "none"
  /\ UNCHANGED <<proc, fate, pend, pipeVars, exit, group, recordVars, sent,
                 call, at, escalated, arrived, external>>

Wait ==
  /\ Usable
  /\ call' = "wait" /\ at' = "poll"
  /\ UNCHANGED <<kernelVars, pipeVars, exit, stopped, group, recordVars, sent,
                 escalated, result, arrived, external>>

waitFrame == <<fate, pend, pipeVars, group, recordVars, sent, arrived, external>>

\* One turn of wait's loop; a partly stopped pipeline is frozen as a whole.
PollWait ==
  /\ call = "wait" /\ at = "poll"
  /\ Poll
  /\ IF Finished THEN Return("finished")
     ELSE IF AllStopped THEN Return("stopped")
     ELSE Continue(IF SomeStopped THEN "signal" ELSE "await")
  /\ UNCHANGED <<halted, wake, waitFrame>>

Freeze ==
  /\ call = "wait" /\ at = "signal"
  /\ Stopping(Members)
  /\ Continue("await")
  /\ UNCHANGED <<proc, exit, stopped, waitFrame>>

\* Mistaken variant: a child event only re-arms the select.
AwaitWaitIdle ==
  /\ call = "wait" /\ at = "await"
  /\ wake /\ wake' = FALSE
  /\ UNCHANGED <<proc, halted, event, exit, stopped, callVars, waitFrame>>

AwaitWait ==
  /\ call = "wait" /\ at = "await"
  /\ wake /\ wake' = FALSE
  /\ Continue("poll")
  /\ UNCHANGED <<proc, halted, event, exit, stopped, waitFrame>>

\* The leader's zombie is collected and the group id given up.
GiveUpGroup ==
  /\ proc' = [proc EXCEPT ![Leader] = IF @ = "zombie" THEN "reaped" ELSE @]
  /\ group' = FALSE

Reap ==
  /\ call = "idle"
  /\ Live = {} /\ group
  /\ GiveUpGroup
  /\ call' = "done"
  /\ UNCHANGED <<fate, halted, event, pend, wake, pipeVars, exit, stopped,
                 recordVars, sent, at, escalated, result, arrived, external>>

\* A select around commit or wait drops the suspended call.
DropCall ==
  /\ call \in {"commit", "wait"} /\ at \in {"await", "release"}
  /\ Return("none")
  /\ UNCHANGED <<kernelVars, pipeVars, exit, stopped, group, recordVars, sent,
                 arrived, external>>

-----------------------------------------------------------------------------
(* job.rs: cancel.                                                         *)

Cancel ==
  /\ call = "idle"
  /\ call' = "cancel" /\ at' = "poll"
  /\ UNCHANGED <<kernelVars, pipeVars, exit, stopped, group, recordVars, sent,
                 escalated, result, arrived, external>>

\* The first poll decides whether anything is left to terminate.
PollCancel ==
  /\ call = "cancel" /\ at = "poll"
  /\ Poll
  /\ Continue("signal")
  /\ UNCHANGED <<fate, halted, wake, pend, pipeVars, group, recordVars, sent,
                 arrived, external>>

\* SIGTERM, recorded for every child still thought alive, SIGCONT when one was
\* seen stopped; then both launch pipes are closed, so gated helpers leave.
CancelSignals ==
  /\ call = "cancel" /\ at = "signal"
  /\ IF Live # {} /\ failed # Stages
     THEN /\ Terminating(Members, "term")
          /\ sent' = sent \cup (Live \X {"term"})
          /\ IF \E i \in Live : stopped[i] THEN Continuing(Members)
             ELSE UNCHANGED <<halted, event, wake>>
     ELSE UNCHANGED <<pend, sent, halted, event, wake>>
  /\ gateOpen' = FALSE /\ statusOpen' = FALSE
  /\ Continue("drain")
  /\ UNCHANGED <<proc, fate, gate, status, exit, stopped, group, recordVars,
                 arrived, external>>

\* One turn of cancel's loop: done when every child's end has been observed.
PollCancelled ==
  /\ call = "cancel" /\ at = "drain"
  /\ exit' = [i \in Stages |-> SeenExit(i)]
  /\ stopped' = [i \in Stages |-> SeenStop(i)]
  /\ event' = [i \in Stages |-> "none"]
  /\ IF Finished
     THEN /\ proc' = [i \in Stages |-> IF proc[i] = "zombie" THEN "reaped" ELSE proc[i]]
          /\ group' = FALSE
          /\ call' = "done" /\ at' = "none"
          /\ UNCHANGED <<escalated, result>>
     ELSE /\ proc' = [i \in Stages |-> IF proc[i] = "zombie" /\ i # Leader
                                       THEN "reaped" ELSE proc[i]]
          /\ UNCHANGED group
          /\ Continue("await")
  /\ UNCHANGED <<fate, halted, wake, pend, pipeVars, recordVars, sent,
                 arrived, external>>

AwaitCancelled ==
  /\ call = "cancel" /\ at = "await"
  /\ wake /\ wake' = FALSE
  /\ Continue("drain")
  /\ UNCHANGED <<proc, fate, halted, event, pend, pipeVars, exit, stopped, group,
                 recordVars, sent, arrived, external>>

\* Mistaken variants: SIGKILL is sent without a record, or SIGTERM is repeated.
EscalateUnrecorded ==
  /\ call = "cancel" /\ at = "await" /\ ~escalated
  /\ escalated' = TRUE
  /\ Terminating(Members, "kill")
  /\ at' = "drain"
  /\ UNCHANGED <<proc, fate, halted, event, wake, pipeVars, exit, stopped, group,
                 recordVars, sent, call, result, arrived, external>>

EscalateTerm ==
  /\ call = "cancel" /\ at = "await" /\ ~escalated
  /\ escalated' = TRUE
  /\ Terminating(Members, "term")
  /\ sent' = sent \cup (Live \X {"term"})
  /\ at' = "drain"
  /\ UNCHANGED <<proc, fate, halted, event, wake, pipeVars, exit, stopped, group,
                 recordVars, call, result, arrived, external>>

\* The grace period is over: SIGKILL, once.
Escalate ==
  /\ call = "cancel" /\ at = "await" /\ ~escalated
  /\ escalated' = TRUE
  /\ Terminating(Members, "kill")
  /\ sent' = sent \cup (Live \X {"kill"})
  /\ at' = "drain"
  /\ UNCHANGED <<proc, fate, halted, event, wake, pipeVars, exit, stopped, group,
                 recordVars, call, result, arrived, external>>

\* Mistaken variant: the dropped job only closes its pipes.
DropQuietly ==
  /\ \/ call = "idle"
     \/ call \in {"commit", "wait"} /\ at = "await"
  /\ call' = "dropped" /\ at' = "none"
  /\ gateOpen' = FALSE /\ statusOpen' = FALSE
  /\ UNCHANGED <<kernelVars, gate, status, exit, stopped, group, recordVars, sent,
                 escalated, result, arrived, external>>

\* The job is dropped without cancel: kill, observe and reap what is dead.
Drop ==
  /\ \/ call = "idle"
     \/ call \in {"commit", "wait"} /\ at = "await"
  /\ call' = "dropped" /\ at' = "none"
  /\ IF Live # {} THEN Terminating(Members, "kill") ELSE UNCHANGED pend
  /\ gateOpen' = FALSE /\ statusOpen' = FALSE
  /\ exit' = [i \in Stages |-> SeenExit(i)]
  /\ stopped' = [i \in Stages |-> SeenStop(i)]
  /\ event' = [i \in Stages |-> "none"]
  /\ proc' = [i \in Stages |->
                IF proc[i] = "zombie" /\ (i # Leader \/ Finished) THEN "reaped"
                ELSE proc[i]]
  /\ group' = (group /\ ~Finished)
  /\ UNCHANGED <<fate, halted, wake, gate, status, recordVars, sent, escalated,
                 result, arrived, external>>

-----------------------------------------------------------------------------
Kernel(i) == Deliver(i) \/ External(i)

Stage(i) ==
  \/ HelperReady(i) \/ HelperFails(i) \/ HelperReleased(i)
  \/ HelperExecs(i) \/ HelperExits(i) \/ TargetExits(i)

\* The coordinator's own progress inside a call.
Progress ==
  \/ Drain \/ PollLaunch \/ Reread \/ AwaitLaunch \/ Release
  \/ PollWait \/ Freeze \/ AwaitWait
  \/ PollCancel \/ CancelSignals \/ PollCancelled \/ AwaitCancelled

\* What the caller chooses to do with the job.
Caller ==
  \/ SpawnFails \/ Commit \/ Suspend \/ Resume \/ Wait \/ Reap
  \/ Cancel \/ DropCall \/ Drop

Next ==
  \/ \E i \in Stages : Spawn(i) \/ Kernel(i) \/ Stage(i)
  \/ Progress \/ Escalate \/ Caller

Spec == Init /\ [][Next]_vars

\* The event loop runs, the grace timer fires, signals are delivered and a
\* failed helper exits.  Nothing is assumed of targets, of blocked setups or of
\* whoever stops them.
Fairness ==
  /\ WF_vars(Progress) /\ WF_vars(Escalate)
  /\ \A i \in Stages : WF_vars(Deliver(i)) /\ WF_vars(HelperExits(i))

FairSpec == Spec /\ Fairness

\* No setup blocks: every helper that is not stopped goes on.
SetupsRun ==
  \A i \in Stages :
    WF_vars(HelperReady(i) \/ HelperFails(i) \/ HelperReleased(i) \/ HelperExecs(i))

LaunchSpec == FairSpec /\ SetupsRun

-----------------------------------------------------------------------------
(* Safety.                                                                 *)

\* A program of the pipeline runs only when the coordinator has received the
\* readiness record of every stage, and it has received no record that was not
\* written (the launch gate of commit and helper.rs execute).
Barrier ==
  /\ ready \subseteq arrived
  /\ (\E i \in Stages : proc[i] \in {"released", "target"}) => ready = Stages

\* The group id is signalled only while it is certainly the job's own: the job
\* holds it exactly as long as the leader is unreaped, and the leader is reaped
\* last, when every child's end has been observed (poll, observe_leader, reap).
OwnedGroup ==
  /\ group <=> proc[Leader] \notin {"absent", "reaped"}
  /\ proc[Leader] = "reaped" => \A i \in Spawned : proc[i] = "reaped" /\ exit[i] = fate[i]
  /\ call = "done" => ~group

\* A launch error is attributed to its cause whatever the order in which records,
\* exits and SIGCHLD arrive: "exited before readiness" is said only of a stage
\* that wrote no record, and success only when no stage failed to execute
\* (commit, receive_status and launch_status).
AttributedResult ==
  /\ result # "protocol"
  /\ result = "lost" =>
       \E i \in Stages \ arrived : fate[i] \notin {"none", "helper"}
  /\ result = "ok" => \A i \in Stages : proc[i] \notin Helper /\ fate[i] # "helper"

\* When a call returns "stopped", every stage that is still alive is stopped, or
\* has been continued since by somebody else (poll, wait and Launching::suspend).
StopBarrier ==
  call = "idle" /\ result = "stopped" =>
    \A i \in Stages : proc[i] \in Alive => halted[i] \/ event[i] = "continued"

\* A termination the supervisor caused is recorded as its own, so a cutoff can be
\* told from a failure (cleanup_signal and cleanup_termination).
Provenance ==
  call # "dropped" =>
    \A i \in Stages : fate[i] \in {"term", "kill"} => <<i, fate[i]>> \in sent

\* The detailed launch implements the abstract gate.
BarrierStage(i) ==
  CASE proc[i] = "absent" -> "unborn"
    [] proc[i] = "setup" -> "preparing"
    [] proc[i] \in {"gated", "released"} -> "waiting"
    [] proc[i] = "target" -> "running"
    [] OTHER -> "over"

Gate == INSTANCE LaunchBarrier
          WITH stage <- [i \in Stages |-> BarrierStage(i)], open <- (written = N)

\* Every behaviour of the launch is one of the abstract gate.
ImplementsBarrier == Gate!Spec

-----------------------------------------------------------------------------
(* Liveness.                                                               *)

\* Cancellation ends with every child reaped, even when children are stopped or
\* ignore SIGTERM (cancel's grace period and escalation), and a job dropped
\* without cancel leaves no program running (impl Drop for Job).
CleanupEnds ==
  /\ call = "cancel" ~> call = "done"
  /\ call = "dropped" ~> \A i \in Stages : proc[i] \notin Alive

\* commit and wait notice that every stage is gone (SIGCHLD is a wakeup and not
\* an event count); and when setups do not block and no stage is stopped, the
\* launch handshake ends: the barrier, the gate and the close-on-exec status
\* pipe never deadlock.
CallsReturn ==
  /\ (call \in {"commit", "wait"} /\ \A i \in Stages : proc[i] \notin Alive)
       ~> call \notin {"commit", "wait"}
  /\ SetupsRun =>
       (call = "commit" ~> (call # "commit" \/ \E i \in Stages : halted[i]))

\* docs/execution.md, "Job states and completion": a stopped producer of a script
\* "cannot wait indefinitely for an interactive foreground request".  wait freezes
\* a pipeline with one stopped stage and returns; commit must not hang on it either.
StoppedLaunchReturns ==
  \A i \in Stages :
    (call = "commit" /\ stopped[i] /\ exit[i] = "none") ~>
      (call # "commit" \/ ~halted[i])
=============================================================================
