----------------------------- MODULE Foreground -----------------------------
(***************************************************************************)
(* One terminal, and everybody who may hold it: the foreground commands of *)
(* an evaluation, the foreground operations that the callbacks of a merge  *)
(* have deferred and that wait in a queue for their turn, evaluations that *)
(* are stopped and resumed, and the shell itself                           *)
(* (rillsh/src/session/operations.rs, execution.rs, jobs.rs,               *)
(* continuation.rs and rill-system/src/terminal.rs).                       *)
(*                                                                         *)
(* A process group is one job.  The launch of a group and what a signal    *)
(* does to its members are the subject of Job; here a group is launched at *)
(* once, and a stop is a stop of everybody.                                *)
(***************************************************************************)
EXTENDS Naturals, Sequences, FiniteSets

CONSTANTS Groups,       \* process groups, at most one job each
          Evaluations,  \* evaluations, in no order
          Branches,     \* the inputs of a merge: one operation each
          Direct,       \* the kinds of operation a program awaits itself
          Callbacks,    \* and those its callbacks defer
          None,         \* no operation, no modes
          Settled,      \* Operation::Settled: answered while nobody asked
          MaxEvents,    \* stops and interrupts that come from the user
          Mixed         \* may a program use the terminal itself while
                        \* its callbacks wait for theirs?

ASSUME KindsKnown == Direct \union Callbacks \subseteq {"run", "capture", "fg", "wait"}
ASSUME EventBound == MaxEvents \in Nat
ASSUME MixedChoice == Mixed \in BOOLEAN

VARIABLES
  run,      \* per group: its processes
  table,    \* the jobs of the session, by group
  saved,    \* per group: the terminal modes kept for it
  tty,      \* the terminal: its foreground group and its modes
  ops,      \* per evaluation and branch: the deferred operation
  queue,    \* per evaluation: Operations.foreground
  pending,  \* per evaluation: the operation its own code waits in
  mode,     \* per evaluation: what its machine does
  active,   \* active_evaluations: the last is driven, the others wait for it
  parked,   \* stopped evaluations, each behind its retained callers
  doomed,   \* evaluations to be cancelled when they are reached
  leaving,  \* the session: "no", "exit" or "gone"
  events    \* stops and interrupts so far

vars == <<run, table, saved, tty, ops, queue, pending, mode, active, parked,
          doomed, leaving, events>>
program == <<ops, queue, pending, mode>>
session == <<active, parked, doomed, leaving>>

Shell == "shell"
Baseline == [owner |-> Shell, modes |-> Shell]

\* Running (execution.rs) and Operation::Control (operations.rs).  "wait" and
\* "capture" leave the terminal alone; "started" is a control's own flag and
\* the committed flag of a run.
Kinds == {"run", "capture", "fg", "wait"}
Operation == [kind: Kinds, group: Groups, started: BOOLEAN]

\* What stands for "no operation", a settled one and the shell is none of them.
ASSUME ValuesDiffer ==
  /\ None \notin Operation \union {Settled}
  /\ Settled \notin Operation
  /\ Shell \notin Groups

NewOperation(kind, g) == [kind |-> kind, group |-> g, started |-> FALSE]

OwnsGroup(op) == op.kind \in {"run", "capture"}
Interactive(op) == op.kind \in {"run", "fg"}

Gone(g) == run[g] \in {"finished", "reaped"}
Live(g) == run[g] \in {"held", "running", "stopped"}

TypeOK ==
  /\ run \in [Groups -> {"unused", "held", "running", "stopped", "finished",
                         "reaped"}]
  /\ table \subseteq Groups
  /\ saved \in [Groups -> Groups \union {Shell, None}]
  /\ tty \in [owner: Groups \union {Shell}, modes: Groups \union {Shell}]
  /\ ops \in [Evaluations -> [Branches -> Operation \union {None, Settled}]]
  /\ queue \in [Evaluations -> Seq(Branches)]
  /\ pending \in [Evaluations -> Operation \union {None}]
  /\ mode \in [Evaluations ->
                 {"new", "body", "release", "unwinding", "cleanup", "over"}]
  /\ active \in Seq(Evaluations)
  /\ parked \subseteq Seq(Evaluations)
  /\ doomed \subseteq Evaluations
  /\ leaving \in {"no", "exit", "gone"}
  /\ events \in 0..MaxEvents

Init ==
  /\ run = [g \in Groups |-> "unused"]
  /\ table = {}
  /\ saved = [g \in Groups |-> None]
  /\ tty = Baseline
  /\ ops = [e \in Evaluations |-> [b \in Branches |-> None]]
  /\ queue = [e \in Evaluations |-> <<>>]
  /\ pending = [e \in Evaluations |-> None]
  /\ mode = [e \in Evaluations |-> "new"]
  /\ active = <<>>
  /\ parked = {}
  /\ doomed = {}
  /\ leaving = "no"
  /\ events = 0

-----------------------------------------------------------------------------
(* What an evaluation holds *)

Last(s) == s[Len(s)]
Driven(e) == active # <<>> /\ e = Last(active)
Deferred(e) == {b \in Branches : ops[e][b] # None}
Unsettled(e) == {b \in Deferred(e) : ops[e][b] # Settled}
InFront(e, b) == queue[e] # <<>> /\ Head(queue[e]) = b
Members(c) == {c[i] : i \in 1..Len(c)}

\* The keys of Session.suspended: stopped evaluations and frozen callers.
Suspended ==
  {e \in Evaluations : \/ \E c \in parked : e \in Members(c)
                       \/ e \in Members(active) /\ ~Driven(e)}

\* engine.cleaning(): while it holds neither an interrupt nor a stop is taken.
Cleaning(e) == mode[e] \in {"release", "unwinding", "cleanup"}

\* The machine runs program code: no answer is awaited and nothing unwinds.
Stepping(e) ==
  Driven(e) /\ pending[e] = None /\ mode[e] \in {"body", "release", "cleanup"}

\* The operations that Operations::suspend, resume and cancel act upon.
AttachedControls(e) ==
  {b \in Unsettled(e) : ops[e][b].kind = "fg" /\ ops[e][b].started}
Attached(e) == AttachedControls(e) \union {b \in Unsettled(e) : OwnsGroup(ops[e][b])}

\* Suspended::foreground_job: a started operation hides the pending one.
ForegroundJob(e) ==
  IF AttachedControls(e) # {} THEN {ops[e][b].group : b \in AttachedControls(e)}
  ELSE IF pending[e] # None /\ pending[e].kind = "fg" THEN {pending[e].group}
  ELSE {}

\* Mistaken variant: the evaluations parked at the prompt are forgotten.
RetainedCaller(g) == \E e \in Members(active) : g \in ForegroundJob(e)
Retained(g) == \E e \in Suspended : g \in ForegroundJob(e)

\* Terminal::handoff and set_modes for a group; "s" are the modes kept, if any.
GivenBlindly(s, t, g) == [owner |-> g, modes |-> s[g]]
Given(s, t, g) ==
  [owner |-> g, modes |-> IF s[g] = None THEN t.modes ELSE s[g]]

Continued(r, S) ==
  [g \in Groups |-> IF g \in S /\ r[g] = "stopped" THEN "running" ELSE r[g]]
Stopped(r, S) ==
  [g \in Groups |-> IF g \in S /\ r[g] = "running" THEN "stopped" ELSE r[g]]
\* Job::cancel: every process is ended and reaped.
Ended(r, S) ==
  [g \in Groups |-> IF g \in S THEN "reaped" ELSE r[g]]

\* Job::reap: what has ended has no process group any more.
Reaped(r, S) ==
  [g \in Groups |-> IF g \in S /\ r[g] = "finished" THEN "reaped" ELSE r[g]]

-----------------------------------------------------------------------------
(* The program *)

Evaluate(e) ==
  /\ active = <<>> /\ leaving = "no" /\ mode[e] = "new"
  /\ active' = <<e>>
  /\ mode' = [mode EXCEPT ![e] = "body"]
  /\ UNCHANGED <<run, table, saved, tty, ops, queue, pending, parked, doomed,
                 leaving, events>>

\* start: launch, publish_launch.
Start(e, g) ==
  /\ Stepping(e) /\ run[g] = "unused"
  /\ run' = [run EXCEPT ![g] = "running"]
  /\ table' = table \union {g}
  /\ UNCHANGED <<saved, tty, program, session, events>>

\* A producer's release callback starts or ends inside some branch or
\* statement, while the operations of other branches go on.
Release(e) ==
  /\ Stepping(e) /\ mode[e] \in {"body", "release"}
  /\ mode' = [mode EXCEPT ![e] = IF @ = "body" THEN "release" ELSE "body"]
  /\ UNCHANGED <<run, table, saved, tty, ops, queue, pending, session, events>>

\* defer: a callback's operation gets a key, and an interactive one a place in
\* the queue.  A run is prepared, that is launched and held at its gate.
Defer(e, b, kind, g) ==
  /\ Stepping(e) /\ ops[e][b] = None
  /\ IF kind \in {"run", "capture"}
     THEN run[g] = "unused" /\ run' = [run EXCEPT ![g] = "held"]
     ELSE g \in table /\ ~Retained(g) /\ UNCHANGED run
  /\ ops' = [ops EXCEPT ![e][b] = NewOperation(kind, g)]
  /\ queue' = [queue EXCEPT ![e] =
                 IF kind \in {"run", "fg"} THEN Append(@, b) ELSE @]
  /\ UNCHANGED <<table, saved, tty, pending, mode, session, events>>

\* Session::control, called directly: bg and cancel are over at once.
ControlNow(e, kind, g) ==
  /\ Stepping(e) /\ g \in table /\ ~Retained(g)
  /\ run' = IF kind = "bg" THEN Continued(run, {g})
            ELSE IF Gone(g) THEN run ELSE Ended(run, {g})
  /\ UNCHANGED <<table, saved, tty, program, session, events>>

\* jobs, and exit when it refuses: every job of the table is polled, and what
\* has ended is reaped.
Snapshots(e) ==
  /\ Stepping(e)
  /\ run' = Reaped(run, table)
  /\ UNCHANGED <<table, saved, tty, program, session, events>>

\* fg and wait: the job is foregrounded, then awaited.
Control(e, kind, g) ==
  /\ Stepping(e) /\ g \in table /\ ~Retained(g)
  /\ kind = "fg" => Mixed \/ queue[e] = <<>>
  /\ pending' = [pending EXCEPT ![e] = [NewOperation(kind, g)
                                          EXCEPT !.started = TRUE]]
  /\ IF kind = "fg" /\ ~Gone(g)
     THEN tty' = Given(saved, tty, g) /\ run' = Continued(run, {g})
     ELSE UNCHANGED <<tty, run>>
  /\ UNCHANGED <<table, saved, ops, queue, mode, session, events>>

\* run, capture and glob: prepare_run, advance.
Run(e, kind, g) ==
  /\ Stepping(e) /\ run[g] = "unused"
  /\ Mixed \/ queue[e] = <<>>
  /\ run' = [run EXCEPT ![g] = "running"]
  /\ tty' = IF kind = "run" THEN [tty EXCEPT !.owner = g] ELSE tty
  /\ pending' = [pending EXCEPT ![e] = [NewOperation(kind, g)
                                          EXCEPT !.started = TRUE]]
  /\ UNCHANGED <<table, saved, ops, queue, mode, session, events>>

\* A pending control is issued again, with its checks, after a resumption.
Reissue(e) ==
  /\ Driven(e) /\ pending[e] # None /\ ~pending[e].started
  /\ LET g == pending[e].group
         given == pending[e].kind = "fg" /\ ~Gone(g)
     IN IF Retained(g)
        THEN /\ pending' = [pending EXCEPT ![e] = None]
             /\ UNCHANGED <<tty, run>>
        ELSE /\ pending' = [pending EXCEPT ![e].started = TRUE]
             /\ tty' = IF given THEN Given(saved, tty, g) ELSE tty
             /\ run' = IF given THEN Continued(run, {g}) ELSE run
  /\ UNCHANGED <<table, saved, ops, queue, mode, session, events>>

-----------------------------------------------------------------------------
(* Operations that are ready: Operations::ready, complete_operation *)

\* An interactive operation is polled in front only, but there whether or not
\* its key was asked for.
AnyTurn(e, b) == TRUE
Turn(e, b) == Interactive(ops[e][b]) => InFront(e, b)

\* The poll that starts an operation.
Advance(e, b) ==
  /\ Stepping(e) /\ b \in Unsettled(e)
  /\ LET op == ops[e][b] IN
       /\ op.kind # "wait" /\ ~op.started
       /\ Turn(e, b)
       /\ op.kind = "fg" => ~Gone(op.group)
       /\ ops' = [ops EXCEPT ![e][b].started = TRUE]
       /\ run' = IF op.kind = "fg" THEN Continued(run, {op.group})
                 ELSE [run EXCEPT ![op.group] =
                         IF @ = "held" THEN "running" ELSE @]
       /\ tty' = CASE op.kind = "fg"  -> Given(saved, tty, op.group)
                   [] op.kind = "run" -> [tty EXCEPT !.owner = op.group]
                   [] OTHER           -> tty
  /\ UNCHANGED <<table, saved, queue, pending, mode, session, events>>

Polled(e, b, asked) == Turn(e, b) /\ (asked \/ InFront(e, b))

Answerable(op) ==
  \/ op.kind = "wait" /\ (Gone(op.group) \/ run[op.group] = "stopped")
  \/ op.kind = "fg" /\ Gone(op.group)
  \/ OwnsGroup(op) /\ op.started /\ Gone(op.group)

\* "foreground job stopped"
WouldBlock(op) == op.kind # "wait" /\ op.started /\ run[op.group] = "stopped"

\* The sequence s without the members of B, in its order.
Without(s, B) ==
  LET rest[i \in 0..Len(s)] ==
        IF i = 0 THEN <<>>
        ELSE IF s[i] \in B THEN rest[i - 1] ELSE Append(rest[i - 1], s[i])
  IN rest[Len(s)]

\* Operations of the branches B leave the queue, and the terminal if one of them
\* was in front.  (StillQueued and NotRestored are mistaken variants.)
StillQueued(e, B) == queue
Dequeued(e, B) == [queue EXCEPT ![e] = Without(@, B)]
NotRestored(e, B) == tty
Restored(e, B) ==
  IF \E b \in B : InFront(e, b) THEN Baseline ELSE tty

\* The operation leaves the table and the queue.  If it was in front the
\* terminal is restored; if nobody asked for it now the result is kept.
\* A job that died of SIGINT interrupts the evaluation, unless it is cleaning.
Complete(e, b, asked, interrupted) ==
  /\ Stepping(e) /\ b \in Unsettled(e) /\ Polled(e, b, asked)
  /\ LET op == ops[e][b] IN
       /\ Answerable(op) \/ (WouldBlock(op) /\ Cleaning(e))
       /\ interrupted => /\ Interactive(op) /\ ~WouldBlock(op)
                         /\ ~Cleaning(e) /\ events < MaxEvents
       /\ run' = IF WouldBlock(op) THEN Ended(run, {op.group})
                 ELSE Reaped(run, {op.group})
  /\ ops' = [ops EXCEPT ![e][b] = IF asked \/ interrupted THEN None ELSE Settled]
  /\ queue' = Dequeued(e, {b})
  /\ tty' = Restored(e, {b})
  /\ mode' = IF interrupted THEN [mode EXCEPT ![e] = "unwinding"] ELSE mode
  /\ events' = IF interrupted THEN events + 1 ELSE events
  /\ UNCHANGED <<table, saved, pending, session>>

\* A kept result is handed out when its key is asked for.
Collect(e, b) ==
  /\ Stepping(e) /\ ops[e][b] = Settled
  /\ ops' = [ops EXCEPT ![e][b] = None]
  /\ UNCHANGED <<run, table, saved, tty, queue, pending, mode, session, events>>

\* Operations::close of the operations of the branches B: a started control
\* and every run are cancelled, and the terminal is restored if the front is
\* among them.
Closed(e, B) ==
  /\ run' = Ended(run, {ops[e][b].group : b \in B \intersect Attached(e)})
  /\ ops' = [ops EXCEPT ![e] =
               [b \in Branches |-> IF b \in B THEN None ELSE @[b]]]
  /\ queue' = Dequeued(e, B)
  /\ tty' = Restored(e, B)

\* A merge is cut off, or its scope ends.
Close(e, B) ==
  /\ Stepping(e) /\ B # {} /\ B \subseteq Deferred(e)
  /\ Closed(e, B)
  /\ UNCHANGED <<table, saved, pending, mode, session, events>>

\* Abandoned operations are closed before the first release callback runs.
Unwind(e) ==
  /\ Driven(e) /\ mode[e] = "unwinding"
  /\ Closed(e, Deferred(e))
  /\ mode' = [mode EXCEPT ![e] = "cleanup"]
  /\ UNCHANGED <<table, saved, pending, session, events>>

\* The end of control() and continue_run().  A run's restoration is for a
\* capture as well.  In cleanup a stopped run is cancelled.
Returns(e, interrupted) ==
  /\ Driven(e) /\ pending[e] # None /\ pending[e].started
  /\ LET op == pending[e]
         stopped == run[op.group] = "stopped"
     IN /\ \/ Gone(op.group)
           \/ stopped /\ (op.kind = "wait" \/ Cleaning(e))
        /\ interrupted => /\ Interactive(op) /\ ~stopped /\ ~Cleaning(e)
                          /\ events < MaxEvents
        /\ tty' = IF op.kind = "wait" THEN tty ELSE Baseline
        /\ run' = IF stopped /\ OwnsGroup(op) THEN Ended(run, {op.group})
                  ELSE Reaped(run, {op.group})
  /\ pending' = [pending EXCEPT ![e] = None]
  /\ mode' = IF interrupted THEN [mode EXCEPT ![e] = "unwinding"] ELSE mode
  /\ events' = IF interrupted THEN events + 1 ELSE events
  /\ UNCHANGED <<table, saved, ops, queue, session>>

\* An interrupt: what the evaluation waits in is ended, except a job that it
\* only waits for.
Interrupt(e) ==
  /\ Driven(e) /\ mode[e] = "body" /\ events < MaxEvents
  /\ pending[e] # None => pending[e].started
  /\ LET op == pending[e] IN
       IF op = None \/ op.kind = "wait" THEN UNCHANGED <<run, tty>>
       ELSE run' = Ended(run, {op.group}) /\ tty' = Baseline
  /\ pending' = [pending EXCEPT ![e] = None]
  /\ mode' = [mode EXCEPT ![e] = "unwinding"]
  /\ events' = events + 1
  /\ UNCHANGED <<table, saved, ops, queue, session>>

-----------------------------------------------------------------------------
(* Stops: freeze_active, park, control_evaluation, resume_owned *)

\* The groups that are stopped, and those whose modes are recorded.
Held(e) == IF pending[e] = None \/ pending[e].kind = "wait" THEN {}
           ELSE {pending[e].group}
FrozenOperations(e) == {ops[e][b].group : b \in Attached(e)}
Frozen(e) == {ops[e][b].group : b \in Attached(e)} \union Held(e)
RecordedAll(e) == Frozen(e)
Recorded(e) ==
  {ops[e][b].group :
     b \in {x \in Attached(e) : Interactive(ops[e][x]) /\ InFront(e, x)}}
  \union (IF pending[e] # None /\ Interactive(pending[e]) THEN Held(e) ELSE {})

FreezeActive(e) ==
  /\ run' = Stopped(run, Frozen(e))
  /\ saved' = [g \in Groups |-> IF g \in Recorded(e) THEN tty.modes ELSE saved[g]]
  /\ tty' = Baseline

\* A stop request, or a foreground job that has stopped, parks the evaluation
\* and the callers it was resumed by.
StopSeen(e) ==
  \/ pending[e] # None /\ pending[e].kind # "wait" /\ WouldBlock(pending[e])
  \/ /\ pending[e] = None
     /\ \E b \in Unsettled(e) : WouldBlock(ops[e][b]) /\ Polled(e, b, TRUE)

Park(e) ==
  /\ Driven(e) /\ mode[e] = "body"
  /\ pending[e] # None => pending[e].started
  /\ \/ StopSeen(e) /\ UNCHANGED events
     \/ ~StopSeen(e) /\ events < MaxEvents /\ events' = events + 1
  /\ FreezeActive(e)
  /\ pending' = IF pending[e] # None /\ ~OwnsGroup(pending[e])
                THEN [pending EXCEPT ![e].started = FALSE] ELSE pending
  /\ parked' = parked \union {active}
  /\ active' = <<>>
  /\ UNCHANGED <<table, ops, queue, mode, doomed, leaving>>

\* resume_owned: operations first, then the pending run.  "r" and "s" are the
\* groups and the modes it finds.  The session polls and reaps its jobs at
\* every prompt; a job without a process group cannot be given the terminal.
Returning(e) ==
  {ops[e][b].group :
     b \in {x \in Attached(e) : Interactive(ops[e][x]) /\ InFront(e, x)}}
Resumable(e) == \A g \in Returning(e) : run[g] # "reaped"

Resumed(e, r, s) ==
  LET holding == pending[e] # None /\ OwnsGroup(pending[e])
      given == IF Returning(e) = {} THEN Baseline
               ELSE Given(s, Baseline, CHOOSE g \in Returning(e) : TRUE)
  IN IF Resumable(e)
     THEN /\ run' = Continued(r, {ops[e][b].group : b \in Attached(e)}
                                \union (IF holding THEN Held(e) ELSE {}))
          /\ tty' = IF holding /\ Interactive(pending[e])
                    THEN Given(s, given, pending[e].group) ELSE given
     ELSE \* the operations that were resumed before the failing one
          /\ \E S \in SUBSET {ops[e][b].group : b \in Attached(e)} :
               run' = Ended(Continued(r, S), Held(e))
          /\ tty' = Baseline

\* Where an evaluation continues: a failure to resume it is raised in it, and
\* it may catch it.
Continues(e) == IF Resumable(e) THEN {"body"} ELSE {"body", "unwinding"}

\* control_evaluation and run_segment with fg.  A release callback may ask for
\* it too; Evaluations has that case.
Foregrounds(e, c) ==
  /\ Stepping(e) /\ mode[e] = "body" /\ c \in parked
  /\ LET callee == Last(c)
         s == [g \in Groups |-> IF g \in Recorded(e) THEN tty.modes ELSE saved[g]]
     IN /\ saved' = s
        /\ Resumed(callee, Stopped(run, Frozen(e)), s)
        /\ pending' = IF Resumable(callee) THEN pending
                      ELSE [pending EXCEPT ![callee] = None]
        /\ \E m \in Continues(callee) : mode' = [mode EXCEPT ![callee] = m]
  /\ active' = active \o c
  /\ parked' = parked \ {c}
  /\ UNCHANGED <<table, ops, queue, doomed, leaving, events>>

\* cancel_pending and engine.interrupt; what is stopped stays stopped.
Doom(c, r) ==
  /\ run' = Ended(r, Held(Last(c)))
  /\ pending' = [pending EXCEPT ![Last(c)] = None]
  /\ mode' = [mode EXCEPT ![Last(c)] = "unwinding"]
  /\ doomed' = doomed \union Members(c)
  /\ parked' = parked \ {c}

Cancels(e, c) ==
  /\ Stepping(e) /\ mode[e] = "body" /\ c \in parked
  /\ Doom(c, Stopped(run, Frozen(e)))
  /\ saved' = [g \in Groups |-> IF g \in Recorded(e) THEN tty.modes ELSE saved[g]]
  /\ tty' = Baseline
  /\ active' = active \o c
  /\ UNCHANGED <<table, ops, queue, leaving, events>>

\* finish_resources, then the next retained caller: a doomed one is cancelled,
\* another one resumed with the result, which may be a cancellation.
Finish(e) ==
  /\ Driven(e) /\ pending[e] = None /\ mode[e] \in {"body", "cleanup"}
  /\ LET closed == Ended(run, {ops[e][b].group : b \in Attached(e)})
         rest == SubSeq(active, 1, Len(active) - 1)
         over == [mode EXCEPT ![e] = "over"]
     IN /\ active' = rest
        /\ IF rest = <<>> \/ Last(rest) \in doomed
           THEN run' = closed /\ tty' = Baseline
           ELSE Resumed(Last(rest), closed, saved)
        /\ IF rest = <<>> THEN mode' = over
           ELSE IF Last(rest) \in doomed \/ (mode[e] = "cleanup" /\ e \notin doomed)
           THEN mode' = [over EXCEPT ![Last(rest)] = "unwinding"]
           ELSE \E m \in Continues(Last(rest)) :
                  mode' = [over EXCEPT ![Last(rest)] = m]
  /\ ops' = [ops EXCEPT ![e] = [b \in Branches |-> None]]
  /\ queue' = [queue EXCEPT ![e] = <<>>]
  /\ UNCHANGED <<table, saved, pending, parked, doomed, leaving, events>>

-----------------------------------------------------------------------------
(* The end of the session *)

\* exit refuses while jobs live or evaluations are stopped; exit_force ends
\* the jobs first.  Either way the entry is finished.
Exit(e, force) ==
  /\ Stepping(e) /\ mode[e] = "body" /\ leaving = "no"
  /\ force \/ (Suspended = {} /\ \A g \in table : ~Live(g))
  /\ run' = Ended(run, IF force THEN table ELSE {})
  /\ leaving' = "exit"
  /\ mode' = [mode EXCEPT ![e] = "unwinding"]
  /\ UNCHANGED <<table, saved, tty, ops, queue, pending, active, parked, doomed,
                 events>>

\* The prompt ends: CtrlD when nothing is left, or a failing input, which does
\* not ask.
Leave ==
  /\ active = <<>> /\ leaving = "no"
  /\ leaving' = "exit"
  /\ UNCHANGED <<run, table, saved, tty, program, active, parked, doomed, events>>

\* shutdown_evaluations: each stopped evaluation is cancelled with its callers.
ShutdownEvaluation(c) ==
  /\ active = <<>> /\ leaving = "exit" /\ c \in parked
  /\ Doom(c, run)
  /\ active' = c
  /\ UNCHANGED <<table, saved, tty, ops, queue, leaving, events>>

\* Jobs::shutdown, then the terminal is dropped.
ShutdownJobs ==
  /\ active = <<>> /\ leaving = "exit" /\ parked = {}
  /\ run' = Ended(run, table)
  /\ tty' = Baseline
  /\ leaving' = "gone"
  /\ UNCHANGED <<table, saved, program, active, parked, doomed, events>>

\* Jobs::notify at the prompt.
Notify(g) ==
  /\ active = <<>> /\ leaving = "no" /\ g \in table /\ run[g] = "finished"
  /\ run' = Reaped(run, {g})
  /\ UNCHANGED <<table, saved, tty, program, session, events>>

-----------------------------------------------------------------------------
(* The processes *)

GroupEnds(g) ==
  /\ \/ run[g] = "running" /\ UNCHANGED events
     \/ run[g] = "stopped" /\ events < MaxEvents /\ events' = events + 1
  /\ run' = [run EXCEPT ![g] = "finished"]
  /\ UNCHANGED <<table, saved, tty, program, session>>

GroupStops(g) ==
  /\ run[g] = "running" /\ events < MaxEvents
  /\ run' = [run EXCEPT ![g] = "stopped"]
  /\ events' = events + 1
  /\ UNCHANGED <<table, saved, tty, program, session>>

GroupSetsModes(g) ==
  /\ run[g] = "running" /\ tty.owner = g /\ tty.modes # g
  /\ tty' = [tty EXCEPT !.modes = g]
  /\ UNCHANGED <<run, table, saved, program, session, events>>

-----------------------------------------------------------------------------
Program(e) ==
  \/ \E g \in Groups :
       \/ Start(e, g)
       \/ \E b \in Branches, kind \in Callbacks : Defer(e, b, kind, g)
       \/ \E kind \in {"bg", "cancel"} : ControlNow(e, kind, g)
       \/ \E kind \in Direct \intersect {"fg", "wait"} : Control(e, kind, g)
       \/ \E kind \in Direct \intersect {"run", "capture"} : Run(e, kind, g)
  \/ Snapshots(e)
  \/ Release(e)
  \/ \E B \in SUBSET Branches : Close(e, B)
  \/ \E c \in parked : Foregrounds(e, c) \/ Cancels(e, c)
  \/ \E force \in BOOLEAN : Exit(e, force)

\* Steps of the coordinator that no program decides about.
Coordinator(e) ==
  \/ \E b \in Branches :
       \/ Advance(e, b)
       \/ Collect(e, b)
       \/ \E asked, interrupted \in BOOLEAN : Complete(e, b, asked, interrupted)
  \/ \E interrupted \in BOOLEAN : Returns(e, interrupted)
  \/ Reissue(e)
  \/ Unwind(e)
  \/ Finish(e)

Over == leaving = "gone" /\ UNCHANGED vars

Next ==
  \/ \E e \in Evaluations : \/ Evaluate(e) \/ Program(e) \/ Coordinator(e)
                           \/ Interrupt(e) \/ Park(e)
  \/ \E c \in parked : ShutdownEvaluation(c)
  \/ Leave
  \/ ShutdownJobs
  \/ \E g \in Groups : \/ Notify(g) \/ GroupEnds(g) \/ GroupStops(g)
                      \/ GroupSetsModes(g)
  \/ Over

Spec == Init /\ [][Next]_vars

-----------------------------------------------------------------------------
(* What must hold *)

\* A foreground operation that is running has the terminal: two of them never
\* share it, and nobody takes it from one that still runs
\* (operations.rs:154, "Foreground operations share one terminal lease").
OneHolder ==
  \A e \in Evaluations : Driven(e) =>
    /\ \A b \in Unsettled(e) :
         LET op == ops[e][b] IN
         Interactive(op) /\ op.started /\ run[op.group] = "running"
           => tty.owner = op.group
    /\ pending[e] # None /\ Interactive(pending[e]) /\ pending[e].started
         /\ run[pending[e].group] = "running" => tty.owner = pending[e].group

\* Whatever was stopped, cancelled, raised or shut down on the way: at the
\* prompt the shell has the terminal, in its own modes; otherwise it is the
\* shell's or the operation's whose turn it is (park, finish_resources).
PromptIsTheShells ==
  /\ active = <<>> => tty = Baseline
  /\ tty.owner # Shell =>
       \E e \in Evaluations : Driven(e) /\
         tty.owner \in Returning(e) \union
           (IF pending[e] # None /\ Interactive(pending[e]) THEN Held(e) ELSE {})

\* A stopped evaluation and a frozen caller have no attached group that runs,
\* unless the driven evaluation holds the same job (freeze_active, resume_owned).
Waits(e) == {ops[e][b] : b \in Unsettled(e)} \union ({pending[e]} \ {None})
Attaches(e, g) ==
  \E op \in Waits(e) : op.group = g /\ op.kind # "wait"
                        /\ (OwnsGroup(op) \/ op.started \/ op = pending[e])

SuspendedIsStill ==
  \A e \in Suspended : \A g \in Groups :
    Attaches(e, g) /\ run[g] = "running" =>
      \E d \in Evaluations : Driven(d) /\ Attaches(d, g)

\* The queue holds every interactive operation that has still to be answered,
\* once, and nothing else: a key left behind would keep the others from ever
\* being polled (defer, close, complete_operation).
QueueInStep ==
  \A e \in Evaluations :
    /\ {queue[e][i] : i \in 1..Len(queue[e])}
         = {b \in Unsettled(e) : Interactive(ops[e][b])}
    /\ \A i, j \in 1..Len(queue[e]) : queue[e][i] = queue[e][j] => i = j

\* A process that lives is a job of the session or belongs to exactly one
\* operation of an evaluation that is not over; none outlives the session.
NoOrphan ==
  LET owned == {o \in Evaluations \X Branches :
                  o[2] \in Unsettled(o[1]) /\ OwnsGroup(ops[o[1]][o[2]])}
      direct == {e \in Evaluations : pending[e] # None /\ OwnsGroup(pending[e])}
      Owners(g) == {o \in owned : ops[o[1]][o[2]].group = g}
      Awaiting(g) == {e \in direct : pending[e].group = g}
  IN /\ \A g \in Groups : Live(g) /\ g \notin table =>
            Cardinality(Owners(g)) + Cardinality(Awaiting(g)) = 1
     /\ \A e \in Evaluations : mode[e] \in {"new", "over"} =>
            Deferred(e) = {} /\ pending[e] = None
     /\ leaving = "gone" => \A g \in Groups : ~Live(g)

\* The modes kept for a job are its own or those the shell gave it, never
\* those of another job (Running::suspend, Operations::suspend).
OwnModes == \A g \in Groups : saved[g] \in {None, Shell, g}

\* The terminal belongs to whoever it should, in the modes it should have.
Lease == OneHolder /\ PromptIsTheShells /\ OwnModes

\* No operation waits for ever in the queue, and no process is lost.
NothingLost == QueueInStep /\ NoOrphan

\* While an evaluation stays stopped or frozen, its foreground job is not
\* continued or ended by commands of others.  An operation on the job that was
\* accepted before is the exception: a deferred fg of the evaluation that runs,
\* or one that the evaluation being resumed or cancelled was stopped with
\* (control, defer: "job belongs to a suspended evaluation").
AcceptedBefore(d, g) ==
  \/ \E b \in Unsettled(d) : ops[d][b].group = g
  \/ d \in Suspended /\ pending[d] # None /\ pending[d].group = g

AttachedIsKept ==
  [][\A e \in Suspended \intersect Suspended' : \A g \in ForegroundJob(e) :
       run'[g] # run[g] /\ leaving' = "no" =>
         \/ Gone(g) \/ run'[g] = "finished"
         \/ \E d \in Evaluations :
              (Driven(d) \/ Driven(d)') /\ AcceptedBefore(d, g)]_vars
=============================================================================
