------------------------- MODULE ForegroundLeaseProofs -------------------------
(***************************************************************************)
(* Proofs about Foreground when no program uses the terminal itself while  *)
(* its callbacks wait for theirs (Mixed = FALSE): who has started with the *)
(* terminal keeps it, in modes of its own, and what a stop has frozen      *)
(* stays frozen until the evaluation is resumed.                           *)
(***************************************************************************)
EXTENDS ForegroundProofs

-----------------------------------------------------------------------------
(* The inductive invariant *)

\* Without mixed use an evaluation that waits for the terminal itself has
\* nothing in the queue.
Apart(e) == pending[e] # None /\ pending[e].kind # "wait" => queue[e] = <<>>
ApartInv == \A e \in Evaluations : Apart(e)

\* What has started keeps the terminal while it lives, stopped or not; in an
\* unwinding that has been cancelled, only if it still runs.
Holder(e) ==
  /\ \A b \in Unsettled(e) :
       /\ Interactive(ops[e][b]) /\ ops[e][b].started
       /\ \/ run[ops[e][b].group] = "running"
          \/ Live(ops[e][b].group) /\ mode[e] # "unwinding"
       => tty.owner = ops[e][b].group
  /\ pending[e] # None /\ Interactive(pending[e]) /\ pending[e].started
       /\ Live(pending[e].group) => tty.owner = pending[e].group
HolderInv == \A e \in Evaluations : Driven(e) => Holder(e)

ModesInv == OwnModes /\ tty.modes \in {Shell, tty.owner}

\* Nothing that a stopped evaluation holds runs, unless it is held by the driven one.
StillInv ==
  \A e \in Suspended : \A g \in Frozen(e) : run[g] = "running" =>
    \E d \in Evaluations : Driven(d) /\ g \in Frozen(d)

\* A job that the driven evaluation awaits is nobody's that is stopped; one that it
\* will await again does not run yet.
AwaitedInv ==
  \A d \in Evaluations : Driven(d) /\ pending[d] # None /\ pending[d].kind = "fg" =>
    IF pending[d].started THEN ~Retained(pending[d].group)
    ELSE run[pending[d].group] # "running"

LeaseInv == ApartInv /\ HolderInv /\ ModesInv /\ StillInv /\ AwaitedInv

-----------------------------------------------------------------------------
(* Who waits for the terminal, when a program does not use it itself meanwhile *)

\* Nobody is in front of an empty queue.
LEMMA NobodyInFront ==
  ASSUME TypeOK, QueueInv, NEW e \in Evaluations, queue[e] = <<>>
  PROVE  /\ \A b \in Unsettled(e) : ~Interactive(ops[e][b])
         /\ \A b : ~InFront(e, b) /\ \A g : ~Fronts(e, b, g)
         /\ Returning(e) = {} /\ AttachedControls(e) = {}
  <1>1. Members(<<>>) = {} BY DEF Members
  <1>2. \A b \in Unsettled(e) : ~Interactive(ops[e][b])
    BY <1>1 DEF QueueInv, QueueFits
  <1>3. \A b : ~InFront(e, b) /\ \A g : ~Fronts(e, b, g) BY DEF InFront, Fronts
  <1>4. Returning(e) = {} BY <1>3, ReturningFronts
  <1>5. AttachedControls(e) = {} BY <1>2 DEF AttachedControls, Interactive
  <1>6. QED BY <1>2, <1>3, <1>4, <1>5

\* One operation at most has the terminal, will have it again or is recorded.
LEMMA OneRecorded ==
  ASSUME TypeOK, QueueInv, ApartInv, NEW e \in Evaluations
  PROVE  /\ \A g, h \in Recorded(e) : g = h
         /\ \A g, h \in Returning(e) : g = h
         /\ \A b \in Unsettled(e) : Interactive(ops[e][b]) /\ ops[e][b].started =>
              Fronts(e, b, ops[e][b].group)
         /\ \A b, c : InFront(e, b) /\ InFront(e, c) => b = c
         /\ pending[e] # None /\ pending[e].kind # "wait" => Returning(e) = {}
  <1>1. \A b, c : InFront(e, b) /\ InFront(e, c) => b = c BY DEF InFront
  <1>2. \A g, h \in Returning(e) : g = h
    <2>1. SUFFICES ASSUME NEW g \in Returning(e), NEW h \in Returning(e) PROVE g = h OBVIOUS
    <2>2. PICK b : Fronts(e, b, g) BY ReturningFronts
    <2>3. PICK c : Fronts(e, c, h) BY ReturningFronts
    <2>4. b = c BY <1>1, <2>2, <2>3 DEF Fronts
    <2>5. QED BY <2>2, <2>3, <2>4 DEF Fronts
  <1>3. pending[e] # None /\ pending[e].kind # "wait" => Returning(e) = {}
    BY NobodyInFront DEF ApartInv, Apart
  <1>4. \A g, h \in Recorded(e) : g = h
    <2>1. SUFFICES ASSUME NEW g \in Recorded(e), NEW h \in Recorded(e) PROVE g = h OBVIOUS
    <2>2. CASE pending[e] # None /\ Interactive(pending[e])
      <3>1. pending[e].kind # "wait" BY <2>2 DEF Interactive
      <3>2. Returning(e) = {} BY <1>3, <2>2, <3>1
      <3>3. QED BY <2>2, <3>2, RecordedFronts, ReturningFronts
    <2>3. CASE ~(pending[e] # None /\ Interactive(pending[e]))
      <3>1. g \in Returning(e) /\ h \in Returning(e) BY <2>3, RecordedFronts, ReturningFronts
      <3>2. QED BY <1>2, <3>1
    <2>4. QED BY <2>2, <2>3
  <1>5. ASSUME NEW b, b \in Unsettled(e), Interactive(ops[e][b]), ops[e][b].started
        PROVE  Fronts(e, b, ops[e][b].group)
    BY <1>5 DEF QueueInv, QueueFits, Fronts, Interactive
  <1>6. QED BY <1>1, <1>2, <1>3, <1>4, <1>5

\* The steps that change a pending operation.
LEMMA PendingSteps ==
  ASSUME [Next]_vars
  PROVE  \/ pending' = pending
         \/ \E e \in Evaluations :
              \/ \E g \in Groups : \/ \E kind \in {"fg", "wait"} : Control(e, kind, g)
                                   \/ \E kind \in {"run", "capture"} : Run(e, kind, g)
              \/ Reissue(e) \/ Interrupt(e) \/ Park(e)
              \/ \E interrupted \in BOOLEAN : Returns(e, interrupted)
              \/ \E c \in parked : Foregrounds(e, c) \/ Cancels(e, c)
         \/ \E c \in parked : ShutdownEvaluation(c)
  <1> USE DEF program, session
  <1>1. ASSUME NEW e \in Evaluations, Program(e)
        PROVE  \/ pending' = pending
               \/ \E g \in Groups : \/ \E kind \in {"fg", "wait"} : Control(e, kind, g)
                                    \/ \E kind \in {"run", "capture"} : Run(e, kind, g)
               \/ \E c \in parked : Foregrounds(e, c) \/ Cancels(e, c)
    BY <1>1 DEF Program, Start, Defer, ControlNow, Snapshots, Release, Close, Exit
  <1>2. ASSUME NEW e \in Evaluations, Coordinator(e)
        PROVE  pending' = pending \/ Reissue(e) \/ \E interrupted \in BOOLEAN : Returns(e, interrupted)
    BY <1>2 DEF Coordinator, Advance, Collect, Complete, Unwind, Finish
  <1>3. ASSUME NEW e \in Evaluations, Evaluate(e)
        PROVE  pending' = pending
    BY <1>3 DEF Evaluate
  <1>4. ASSUME Leave \/ ShutdownJobs \/ Over \/ UNCHANGED vars
                 \/ \E g \in Groups : Notify(g) \/ GroupEnds(g) \/ GroupStops(g) \/ GroupSetsModes(g)
        PROVE  pending' = pending
    BY <1>4 DEF Leave, ShutdownJobs, Over, Notify, GroupEnds, GroupStops, GroupSetsModes, vars
  <1>5. QED BY <1>1, <1>2, <1>3, <1>4 DEF Next

\* The waiting stays apart.
LEMMA ApartStep ==
  ASSUME TypeOK, QueueInv, ApartInv, Mixed = FALSE, TypeOK', [Next]_vars
  PROVE  ApartInv'
  <1>1. ASSUME NEW d \in Evaluations, queue[d] = <<>> => queue'[d] = <<>>,
               \/ pending'[d] = None
               \/ pending[d] # None /\ pending'[d].kind = pending[d].kind
        PROVE  Apart(d)'
    BY <1>1 DEF ApartInv, Apart
  <1>2. \A B : Without(<<>>, B) = <<>>
    <2>1. TAKE B
    <2> DEFINE q == <<>>
    <2>2. q \in Seq(Branches) /\ (\A i, j \in 1..Len(q) : q[i] = q[j] => i = j) /\ Members(q) = {}
      BY DEF Members
    <2> HIDE DEF q
    <2>3. Without(q, B) \in Seq(Branches) /\ Members(Without(q, B)) = {}
      BY <2>2, WithoutProperties
    <2>4. Without(q, B) = <<>> BY <2>3, LastProperties
    <2>5. QED BY <2>4 DEF q
  <1>3. ASSUME pending' = pending
        PROVE  ApartInv'
    <2>1. ASSUME NEW e \in Evaluations, NEW b, NEW g, NEW kind, Defer(e, b, kind, g)
          PROVE  ApartInv'
      <3>1. \A d \in Evaluations \ {e} : queue'[d] = queue[d] BY <2>1 DEF Defer, TypeOK
      <3>2. pending[e] = None BY <2>1 DEF Defer, Stepping
      <3>3. Apart(e)' BY <1>3, <3>2 DEF Apart
      <3>4. QED BY <1>1, <1>3, <3>1, <3>3 DEF ApartInv
    <2>2. ASSUME NEW e \in Evaluations, NEW B, queue' = Dequeued(e, B)
          PROVE  ApartInv'
      <3>1. /\ \A d \in Evaluations \ {e} : queue'[d] = queue[d]
            /\ queue'[e] = Without(queue[e], B)
        BY <2>2 DEF Dequeued, TypeOK
      <3>2. QED BY <1>1, <1>2, <1>3, <3>1 DEF ApartInv
    <2>3. ASSUME NEW e \in Evaluations, Finish(e)
          PROVE  ApartInv'
      <3>1. \A d \in Evaluations : queue'[d] = queue[d] \/ queue'[d] = <<>>
        BY <2>3 DEF Finish, TypeOK
      <3>2. QED BY <1>1, <1>3, <3>1 DEF ApartInv
    <2>4. CASE queue' = queue BY <1>1, <1>3, <2>4 DEF ApartInv
    <2>5. ASSUME NEW e \in Evaluations, NEW b \in Branches,
                 Advance(e, b) \/ Collect(e, b) \/ \E asked, interrupted : Complete(e, b, asked, interrupted)
          PROVE  ApartInv'
      <3>1. queue' = queue \/ queue' = Dequeued(e, {b}) BY <2>5 DEF Advance, Collect, Complete
      <3>2. QED BY <2>2, <2>4, <3>1
    <2>6. ASSUME NEW e \in Evaluations, NEW B, Closed(e, B)
          PROVE  ApartInv'
      BY <2>2, <2>6 DEF Closed
    <2>7. QED BY <2>1, <2>3, <2>4, <2>5, <2>6, OperationSteps
  <1>4. ASSUME NEW e \in Evaluations, queue' = queue,
               \A d \in Evaluations \ {e} : pending'[d] = pending[d], Apart(e)'
        PROVE  ApartInv'
    BY <1>1, <1>4 DEF ApartInv
  <1>5. ASSUME NEW e \in Evaluations, NEW g \in Groups, NEW kind,
               (kind \in {"fg", "wait"} /\ Control(e, kind, g))
                 \/ (kind \in {"run", "capture"} /\ Run(e, kind, g))
        PROVE  ApartInv'
    <2>1. /\ queue' = queue /\ \A d \in Evaluations \ {e} : pending'[d] = pending[d]
          /\ pending'[e] = [NewOperation(kind, g) EXCEPT !.started = TRUE]
          /\ kind = "wait" \/ queue[e] = <<>>
      BY <1>5 DEF Control, Run, TypeOK
    <2>2. [NewOperation(kind, g) EXCEPT !.started = TRUE].kind = kind BY DEF NewOperation
    <2>3. QED BY <1>4, <2>1, <2>2 DEF Apart
  <1>6. ASSUME NEW e \in Evaluations, Reissue(e) \/ Park(e)
        PROVE  ApartInv'
    <2>1. /\ queue' = queue /\ \A d \in Evaluations \ {e} : pending'[d] = pending[d]
          /\ \/ pending'[e] \in {pending[e], None}
             \/ /\ pending[e] # None
                /\ \E x \in BOOLEAN : pending'[e] = [pending[e] EXCEPT !.started = x]
      <3>1. CASE Reissue(e)
        <4>1. queue' = queue /\ pending[e] # None BY <3>1 DEF Reissue
        <4>2. \/ pending' = [pending EXCEPT ![e] = None]
              \/ pending' = [pending EXCEPT ![e].started = TRUE]
          BY <3>1 DEF Reissue
        <4>3. DOMAIN pending = Evaluations BY <1>1 DEF TypeOK
        <4>4. QED BY <4>1, <4>2, <4>3
      <3>2. CASE Park(e)
        <4>1. queue' = queue BY <3>2 DEF Park
        <4>2. \/ pending' = pending
              \/ pending[e] # None /\ pending' = [pending EXCEPT ![e].started = FALSE]
          BY <3>2 DEF Park
        <4>3. DOMAIN pending = Evaluations BY <1>1 DEF TypeOK
        <4>4. QED BY <4>1, <4>2, <4>3
      <3>3. QED BY <1>6, <3>1, <3>2
    <2>2. \A x \in BOOLEAN : pending[e] # None => [pending[e] EXCEPT !.started = x].kind = pending[e].kind
      BY UnsettledTypes, OperationFields
    <2>3. QED BY <1>1, <1>4, <2>1, <2>2
  <1>7. ASSUME NEW e \in Evaluations, Interrupt(e) \/ \E interrupted : Returns(e, interrupted)
        PROVE  ApartInv'
    BY <1>4, <1>7 DEF Interrupt, Returns, Apart, TypeOK
  <1>8. ASSUME NEW c \in parked, (\E e \in Evaluations : Foregrounds(e, c) \/ Cancels(e, c))
                                 \/ ShutdownEvaluation(c)
        PROVE  ApartInv'
    <2>1. queue' = queue BY <1>8 DEF Foregrounds, Cancels, ShutdownEvaluation
    <2>2. \A d \in Evaluations : pending'[d] \in {pending[d], None}
      <3>1. pending' = pending \/ pending' = [pending EXCEPT ![Last(c)] = None]
        <4>1. CASE \E e \in Evaluations : Foregrounds(e, c) BY <4>1 DEF Foregrounds
        <4>2. CASE \E e \in Evaluations : Cancels(e, c) BY <4>2 DEF Cancels, Doom
        <4>3. CASE ShutdownEvaluation(c) BY <4>3 DEF ShutdownEvaluation, Doom
        <4>4. QED BY <1>8, <4>1, <4>2, <4>3
      <3>2. DOMAIN pending = Evaluations BY DEF TypeOK
      <3>3. QED BY <3>1, <3>2
    <2>3. QED BY <1>1, <2>1, <2>2 DEF ApartInv
  <1>9. QED BY <1>3, <1>5, <1>6, <1>7, <1>8, PendingSteps


-----------------------------------------------------------------------------
(* Who has the terminal *)

\* From r to q no group is started or continued.
Sinks(r, q) ==
  \A g \in Groups : (q[g] = "running" => r[g] = "running") /\ (q[g] \in Alive => r[g] \in Alive)

LEMMA SinkingEffects ==
  ASSUME NEW r, NEW S, NEW q, Sinks(r, q)
  PROVE  /\ Sinks(r, Stopped(q, S)) /\ Sinks(r, Ended(q, S)) /\ Sinks(r, Reaped(q, S))
         /\ \A g \in Groups : g \in S => Stopped(q, S)[g] # "running" /\ Ended(q, S)[g] \notin Alive
         /\ \A g \in Groups : q[g] # "running" => /\ Stopped(q, S)[g] # "running"
                                                  /\ Ended(q, S)[g] # "running"
                                                  /\ Reaped(q, S)[g] # "running"
  BY DEF Sinks, Stopped, Ended, Reaped, Alive

\* What an evaluation froze, and will attach again.
LEMMA FrozenGroups ==
  ASSUME TypeOK, NEW e \in Evaluations
  PROVE  /\ Frozen(e) \subseteq Groups
         /\ \A g : g \in Frozen(e) <=>
              \/ \E b \in Attached(e) : ops[e][b].group = g
              \/ pending[e] # None /\ pending[e].kind # "wait" /\ pending[e].group = g
         /\ \A b \in Unsettled(e) : Interactive(ops[e][b]) /\ ops[e][b].started => b \in Attached(e)
  <1>1. \A b \in Attached(e) : b \in Unsettled(e) BY DEF Attached, AttachedControls
  <1>2. \A g : g \in Frozen(e) <=>
          \/ \E b \in Attached(e) : ops[e][b].group = g
          \/ pending[e] # None /\ pending[e].kind # "wait" /\ pending[e].group = g
    BY DEF Frozen, Held
  <1>3. Frozen(e) \subseteq Groups BY <1>1, <1>2, UnsettledTypes, OperationFields
  <1>4. \A b \in Unsettled(e) : Interactive(ops[e][b]) /\ ops[e][b].started => b \in Attached(e)
    BY DEF Attached, AttachedControls, Interactive, OwnsGroup
  <1>5. QED BY <1>2, <1>3, <1>4

\* What stopped evaluations hold does not run once the driven one is stopped or over.
LEMMA Asleep ==
  ASSUME TypeOK, ChainInv, StillInv, NEW s \in Suspended, NEW g \in Frozen(s)
  PROVE  /\ active = <<>> => run[g] # "running"
         /\ \A e \in Evaluations : Driven(e) =>
              /\ Stopped(run, Frozen(e))[g] # "running"
              /\ pending[e] = None =>
                   Ended(run, {ops[e][b].group : b \in Attached(e)})[g] # "running"
  <1>1. s \in Evaluations BY DEF Suspended
  <1>2. g \in Groups BY <1>1, FrozenGroups
  <1>3. Sinks(run, run) BY DEF Sinks
  <1>4. ASSUME NEW e \in Evaluations, Driven(e)
        PROVE  /\ Stopped(run, Frozen(e))[g] # "running"
               /\ pending[e] = None =>
                    Ended(run, {ops[e][b].group : b \in Attached(e)})[g] # "running"
    <2>1. CASE run[g] = "running"
      <3>1. g \in Frozen(e) BY <1>4, <2>1, DrivenAlone DEF StillInv
      <3>2. pending[e] = None => g \in {ops[e][b].group : b \in Attached(e)}
        BY <3>1, FrozenGroups
      <3>3. Stopped(run, Frozen(e))[g] # "running" BY <1>2, <1>3, <3>1, SinkingEffects
      <3>4. ASSUME pending[e] = None
            PROVE  Ended(run, {ops[e][b].group : b \in Attached(e)})[g] # "running"
        <4> DEFINE S == {ops[e][b].group : b \in Attached(e)}
        <4>1. g \in S BY <3>2, <3>4
        <4> HIDE DEF S
        <4>2. Ended(run, S)[g] \notin Alive BY <1>2, <1>3, <4>1, SinkingEffects
        <4>3. Ended(run, S)[g] # "running" BY <4>2 DEF Alive
        <4>4. QED BY <4>3 DEF S
      <3>5. QED BY <3>3, <3>4
    <2>2. CASE run[g] # "running"
      <3>1. \A S : Stopped(run, S)[g] # "running" /\ Ended(run, S)[g] # "running"
        BY <1>2, <2>2 DEF Stopped, Ended
      <3>2. QED BY <3>1
    <2>3. QED BY <2>1, <2>2
  <1>5. active = <<>> => run[g] # "running" BY DEF StillInv, Driven
  <1>6. QED BY <1>4, <1>5

\* Every group of an operation has been launched.
LEMMA UsedGroups ==
  ASSUME TypeOK, OwnerInv, TableInv, NEW e \in Evaluations
  PROVE  /\ \A b \in Unsettled(e) : ops[e][b].group \in Groups /\ run[ops[e][b].group] # "unused"
         /\ pending[e] # None => pending[e].group \in Groups /\ run[pending[e].group] # "unused"
  <1>1. ASSUME NEW b \in Unsettled(e)
        PROVE  ops[e][b].group \in Groups /\ run[ops[e][b].group] # "unused"
    <2>1. ops[e][b].group \in Groups /\ b \in Branches BY UnsettledTypes, OperationFields
    <2>2. CASE OwnsGroup(ops[e][b])
      <3>1. Owned(e, b, ops[e][b].group) BY <2>2 DEF Owned
      <3>2. QED BY <2>1, <3>1 DEF OwnerInv
    <2>3. CASE ~OwnsGroup(ops[e][b]) BY <2>1, <2>3 DEF TableInv
    <2>4. QED BY <2>2, <2>3
  <1>2. ASSUME pending[e] # None
        PROVE  pending[e].group \in Groups /\ run[pending[e].group] # "unused"
    <2>1. pending[e].group \in Groups BY <1>2, UnsettledTypes, OperationFields
    <2>2. CASE OwnsGroup(pending[e])
      <3>1. Awaited(e, pending[e].group) BY <1>2, <2>2 DEF Awaited
      <3>2. QED BY <2>1, <3>1 DEF OwnerInv
    <2>3. CASE ~OwnsGroup(pending[e]) BY <1>2, <2>1, <2>3 DEF TableInv
    <2>4. QED BY <2>2, <2>3
  <1>3. QED BY <1>1, <1>2

\* As long as it loses operations and its groups are not revived, nor continued in
\* an unwinding, an evaluation has the terminal for what is left.
LEMMA HolderKept ==
  ASSUME TypeOK, OwnerInv, TableInv, NEW e \in Evaluations, Holder(e), tty'.owner = tty.owner,
         \A g \in Groups : run[g] # "unused" =>
           /\ run'[g] \in Alive => run[g] \in Alive
           /\ mode[e] = "unwinding" /\ run'[g] = "running" => run[g] = "running",
         \A b \in Unsettled(e)' : Interactive(ops'[e][b]) /\ ops'[e][b].started =>
           b \in Unsettled(e) /\ ops'[e][b] = ops[e][b],
         pending'[e] \in {pending[e], None} \/ ~Interactive(pending'[e]),
         mode[e] = "unwinding" => mode'[e] = "unwinding"
  PROVE  Holder(e)'
  <1>1. ASSUME NEW b \in Unsettled(e)', Interactive(ops'[e][b]), ops'[e][b].started,
               \/ run'[ops'[e][b].group] = "running"
               \/ run'[ops'[e][b].group] \in Alive /\ mode'[e] # "unwinding"
        PROVE  tty'.owner = ops'[e][b].group
    <2>1. b \in Unsettled(e) /\ ops'[e][b] = ops[e][b] BY <1>1
    <2>2. ops[e][b].group \in Groups /\ run[ops[e][b].group] # "unused" BY <2>1, UsedGroups
    <2>3. \/ run[ops[e][b].group] = "running"
          \/ Live(ops[e][b].group) /\ mode[e] # "unwinding"
      BY <1>1, <2>1, <2>2 DEF Live, Alive
    <2>4. QED BY <1>1, <2>1, <2>3 DEF Holder
  <1>2. ASSUME pending'[e] # None, Interactive(pending'[e]), pending'[e].started,
               run'[pending'[e].group] \in Alive
        PROVE  tty'.owner = pending'[e].group
    <2>1. pending'[e] = pending[e] BY <1>2
    <2>2. Live(pending[e].group) BY <1>2, <2>1, UsedGroups DEF Live, Alive
    <2>3. QED BY <1>2, <2>1, <2>2 DEF Holder
  <1>3. QED BY <1>1, <1>2 DEF Holder, Live, Alive

\* What it waits for itself, with nothing in the queue, has the terminal.
LEMMA HolderDirect ==
  ASSUME TypeOK, QueueInv, NEW e \in Evaluations, queue[e] = <<>>, ops'[e] = ops[e],
         pending'[e] # None /\ Interactive(pending'[e]) /\ pending'[e].started
           /\ run'[pending'[e].group] \in Alive => tty'.owner = pending'[e].group
  PROVE  Holder(e)'
  <1>1. Unsettled(e)' = Unsettled(e) BY DEF Unsettled, Deferred
  <1>2. \A b \in Unsettled(e) : ~Interactive(ops[e][b]) BY NobodyInFront
  <1>3. QED BY <1>1, <1>2 DEF Holder, Live, Alive

\* When the operation in front leaves, no other has started.
LEMMA HolderDequeued ==
  ASSUME TypeOK, QueueInv, OwnerInv, TableInv, ApartInv, NEW e \in Evaluations, Holder(e), NEW B,
         tty' = Restored(e, B), pending'[e] = pending[e],
         \A g \in Groups : run[g] # "unused" =>
           /\ run'[g] \in Alive => run[g] \in Alive
           /\ mode[e] = "unwinding" /\ run'[g] = "running" => run[g] = "running",
         \A b \in Unsettled(e)' : b \notin B /\ b \in Unsettled(e) /\ ops'[e][b] = ops[e][b],
         mode[e] = "unwinding" => mode'[e] = "unwinding"
  PROVE  Holder(e)'
  <1>1. CASE \E b \in B : InFront(e, b)
    <2>1. PICK f \in B : InFront(e, f) BY <1>1
    <2>2. \A b \in Unsettled(e)' : ~(Interactive(ops'[e][b]) /\ ops'[e][b].started)
      BY <2>1 DEF QueueInv, QueueFits, InFront
    <2>3. pending[e] = None \/ ~Interactive(pending[e])
      BY <2>1 DEF ApartInv, Apart, InFront, Interactive
    <2>4. QED BY <2>2, <2>3 DEF Holder
  <1>2. CASE ~\E b \in B : InFront(e, b)
    <2>1. tty' = tty BY <1>2 DEF Restored
    <2>2. QED BY <2>1, HolderKept
  <1>3. QED BY <1>1, <1>2

\* An evaluation that is cancelled has nothing that runs.
LEMMA HolderDoomed ==
  ASSUME TypeOK, NEW d \in Evaluations, ops'[d] = ops[d], pending'[d] = None,
         mode'[d] = "unwinding", \A g \in Frozen(d) : run'[g] # "running"
  PROVE  Holder(d)'
  <1>1. Unsettled(d)' = Unsettled(d) BY DEF Unsettled, Deferred
  <1>2. ASSUME NEW b \in Unsettled(d), Interactive(ops[d][b]), ops[d][b].started
        PROVE  run'[ops[d][b].group] # "running"
    BY <1>2, FrozenGroups
  <1>3. QED BY <1>1, <1>2 DEF Holder

\* An evaluation that is resumed gets the terminal for the operation in front, for
\* its run, or cannot be resumed because the job has no process any more.
LEMMA HolderResumed ==
  ASSUME TypeOK, QueueInv, ApartInv, RestInv, NEW d \in Evaluations, NEW r, NEW s,
         Fades(run, r), Resumed(d, r, s), ops'[d] = ops[d],
         pending'[d] = pending[d] \/ pending'[d] = None,
         pending[d] # None => OwnsGroup(pending[d]) \/ ~pending[d].started,
         ~Resumable(d) => pending'[d] = None
  PROVE  Holder(d)'
  <1> DEFINE given == IF Returning(d) = {} THEN Baseline
                      ELSE Given(s, Baseline, CHOOSE g \in Returning(d) : TRUE)
  <1>1. Unsettled(d)' = Unsettled(d) BY DEF Unsettled, Deferred
  <1>2. ASSUME NEW b \in Unsettled(d), Interactive(ops[d][b]), ops[d][b].started,
               run'[ops[d][b].group] \in Alive
        PROVE  tty'.owner = ops[d][b].group
    <2> DEFINE g == ops[d][b].group
    <2>1. g \in Returning(d) /\ \A h \in Returning(d) : h = g
      BY <1>2, OneRecorded, ReturningFronts
    <2>2. ~(pending[d] # None /\ OwnsGroup(pending[d]) /\ Interactive(pending[d]))
      BY <2>1, OneRecorded DEF OwnsGroup
    <2>3. g \in Groups BY <1>2, UnsettledTypes, OperationFields
    <2>4. CASE Resumable(d)
      <3>1. tty' = given BY <2>2, <2>4 DEF Resumed
      <3>2. PICK h \in Returning(d) : given = Given(s, Baseline, h) BY <2>1
      <3>3. QED BY <2>1, <3>1, <3>2 DEF Given
    <2>5. CASE ~Resumable(d)
      <3>1. run[g] = "reaped" BY <2>1, <2>5 DEF Resumable
      <3>2. r[g] \notin Alive BY <2>3, <3>1 DEF Fades, Alive
      <3>3. PICK S : run' = Ended(Continued(r, S), Held(d)) BY <2>5 DEF Resumed
      <3>4. run'[g] \notin Alive BY <2>3, <3>2, <3>3 DEF Ended, Continued, Alive
      <3>5. QED BY <1>2, <3>4
    <2>6. QED BY <2>4, <2>5
  <1>3. ASSUME pending'[d] # None, Interactive(pending'[d]), pending'[d].started
        PROVE  tty'.owner = pending'[d].group
    <2>1. pending'[d] = pending[d] /\ OwnsGroup(pending[d]) /\ Resumable(d) BY <1>3
    <2>2. tty' = Given(s, given, pending[d].group) BY <1>3, <2>1 DEF Resumed
    <2>3. QED BY <2>1, <2>2 DEF Given
  <1>4. QED BY <1>1, <1>2, <1>3 DEF Holder, Live, Alive


\* The steps of a program that leave the other evaluations alone leave its
\* terminal to what has it, or nobody waits for it.
LEMMA ProgramHolder ==
  ASSUME TypeOK, ChainInv, QueueInv, OwnerInv, TableInv, ApartInv, Mixed = FALSE,
         NEW e \in Evaluations, Holder(e), Program(e),
         ~\E c \in parked : Foregrounds(e, c) \/ Cancels(e, c)
  PROVE  Holder(e)'
  <1>1. Stepping(e) /\ pending[e] = None /\ mode[e] # "unwinding"
    BY DEF Program, Start, Release, Defer, ControlNow, Snapshots, Control, Run, Close, Exit, Stepping
  <1>2. Fades(run, run) BY DEF Fades
  <1>3. ASSUME tty' = tty, pending'[e] = None \/ ~Interactive(pending'[e]),
               \A g \in Groups : run[g] # "unused" /\ run'[g] \in Alive => run[g] \in Alive,
               \A b \in Unsettled(e)' : Interactive(ops'[e][b]) /\ ops'[e][b].started =>
                 b \in Unsettled(e) /\ ops'[e][b] = ops[e][b]
        PROVE  Holder(e)'
    BY <1>1, <1>3, HolderKept
  <1>4. ops' = ops => \A b \in Unsettled(e)' : b \in Unsettled(e) /\ ops'[e][b] = ops[e][b]
    BY DEF Unsettled, Deferred
  <1>5. ASSUME Fades(run, run')
        PROVE  \A g \in Groups : run[g] # "unused" /\ run'[g] \in Alive => run[g] \in Alive
    BY <1>5 DEF Fades
  <1>6. ASSUME NEW g \in Groups, run[g] = "unused", NEW x, run' = [run EXCEPT ![g] = x]
        PROVE  \A h \in Groups : run[h] # "unused" /\ run'[h] \in Alive => run[h] \in Alive
    BY <1>6 DEF TypeOK
  <1>7. ASSUME NEW g \in Groups, Start(e, g)
        PROVE  Holder(e)'
    BY <1>1, <1>3, <1>4, <1>6, <1>7 DEF Start, program
  <1>8. ASSUME NEW g \in Groups, NEW b \in Branches, NEW kind \in Callbacks, Defer(e, b, kind, g)
        PROVE  Holder(e)'
    <2>1. kind \in Kinds BY KindsKnown DEF Kinds
    <2>2. NewOperation(kind, g) \in Operation /\ ~NewOperation(kind, g).started
      BY <2>1, OperationFields
    <2>3. /\ ops'[e][b] = NewOperation(kind, g)
          /\ \A c \in Branches \ {b} : ops'[e][c] = ops[e][c]
      BY <1>8 DEF Defer, TypeOK
    <2>4. \A c \in Unsettled(e)' : Interactive(ops'[e][c]) /\ ops'[e][c].started =>
            c \in Unsettled(e) /\ ops'[e][c] = ops[e][c]
      BY <2>2, <2>3 DEF Unsettled, Deferred
    <2>5. \A h \in Groups : run[h] # "unused" /\ run'[h] \in Alive => run[h] \in Alive
      BY <1>6, <1>8 DEF Defer
    <2>6. tty' = tty /\ pending'[e] = None BY <1>1, <1>8 DEF Defer
    <2>7. QED BY <1>3, <2>4, <2>5, <2>6
  <1>9. ASSUME NEW g \in Groups, NEW kind \in {"bg", "cancel"}, ControlNow(e, kind, g)
        PROVE  Holder(e)'
    <2>1. Fades(run, run') BY <1>2, <1>9, FadingEffects DEF ControlNow
    <2>2. tty' = tty /\ ops' = ops /\ pending' = pending BY <1>9 DEF ControlNow, program
    <2>3. QED BY <1>1, <1>3, <1>4, <1>5, <2>1, <2>2
  <1>10. ASSUME NEW g \in Groups, NEW kind \in {"fg", "wait"}, Control(e, kind, g)
         PROVE  Holder(e)'
    <2>1. /\ ops' = ops /\ pending'[e] = [NewOperation(kind, g) EXCEPT !.started = TRUE]
          /\ kind = "fg" => queue[e] = <<>>
          /\ IF kind = "fg" /\ ~Gone(g)
             THEN tty' = Given(saved, tty, g) /\ run' = Continued(run, {g})
             ELSE UNCHANGED <<tty, run>>
      BY <1>10 DEF Control, TypeOK
    <2>2. pending'[e].kind = kind /\ pending'[e].group = g
      BY <2>1 DEF NewOperation
    <2>3. CASE kind = "fg"
      <3>1. ASSUME run'[g] \in Alive
            PROVE  tty'.owner = g
        <4>1. CASE Gone(g)
          <5>1. run' = run BY <2>1, <2>3, <4>1
          <5>2. QED BY <3>1, <4>1, <5>1 DEF Gone, Alive
        <4>2. CASE ~Gone(g) BY <2>1, <2>3, <4>2 DEF Given
        <4>3. QED BY <4>1, <4>2
      <3>2. QED BY <2>1, <2>2, <2>3, <3>1, HolderDirect
    <2>4. CASE kind = "wait"
      <3>1. tty' = tty /\ run' = run BY <2>1, <2>4
      <3>2. ~Interactive(pending'[e]) BY <2>2, <2>4 DEF Interactive
      <3>3. Fades(run, run') BY <1>2, <3>1
      <3>4. QED BY <1>3, <1>4, <1>5, <2>1, <3>1, <3>2, <3>3
    <2>5. QED BY <2>3, <2>4
  <1>11. ASSUME NEW g \in Groups, NEW kind \in {"run", "capture"}, Run(e, kind, g)
         PROVE  Holder(e)'
    <2>1. /\ ops' = ops /\ pending'[e] = [NewOperation(kind, g) EXCEPT !.started = TRUE]
          /\ queue[e] = <<>>
          /\ tty' = IF kind = "run" THEN [tty EXCEPT !.owner = g] ELSE tty
      BY <1>11 DEF Run, TypeOK
    <2>2. pending'[e].kind = kind /\ pending'[e].group = g
      BY <2>1 DEF NewOperation
    <2>3. Interactive(pending'[e]) => tty'.owner = g BY <2>1, <2>2 DEF Interactive, TypeOK
    <2>4. QED BY <2>1, <2>2, <2>3, HolderDirect
  <1>12. CASE Snapshots(e)
    <2>1. Fades(run, run') BY <1>2, <1>12, FadingEffects DEF Snapshots
    <2>2. tty' = tty /\ ops' = ops /\ pending' = pending BY <1>12 DEF Snapshots, program
    <2>3. QED BY <1>1, <1>3, <1>4, <1>5, <2>1, <2>2
  <1>13. CASE Release(e)
    <2>1. Fades(run, run') BY <1>2, <1>13 DEF Release
    <2>2. tty' = tty /\ ops' = ops /\ pending' = pending BY <1>13 DEF Release
    <2>3. QED BY <1>1, <1>3, <1>4, <1>5, <2>1, <2>2
  <1>14. ASSUME NEW B, Close(e, B)
         PROVE  Holder(e)'
    <2>1. /\ tty' = Restored(e, B) /\ pending' = pending /\ B \subseteq Deferred(e)
          /\ \A b \in B : ops'[e][b] = None
          /\ \A b \in Branches \ B : ops'[e][b] = ops[e][b]
      BY <1>14 DEF Close, Closed, TypeOK, Deferred
    <2>2. \A b \in Unsettled(e)' : b \notin B /\ b \in Unsettled(e) /\ ops'[e][b] = ops[e][b]
      BY <2>1 DEF Unsettled, Deferred
    <2>3. Fades(run, run') BY <1>14, ClosedKeeps DEF Close
    <2>4. QED BY <1>1, <1>5, <2>1, <2>2, <2>3, HolderDequeued
  <1>15. ASSUME NEW force, Exit(e, force)
         PROVE  Holder(e)'
    <2>1. Fades(run, run') BY <1>2, <1>15, FadingEffects DEF Exit
    <2>2. tty' = tty /\ ops' = ops /\ pending' = pending BY <1>15 DEF Exit
    <2>3. QED BY <1>1, <1>3, <1>4, <1>5, <2>1, <2>2
  <1>16. QED
    BY <1>7, <1>8, <1>9, <1>10, <1>11, <1>12, <1>13, <1>14, <1>15 DEF Program

\* Nor does the coordinator take it, until the evaluation is over.
LEMMA CoordinatorHolder ==
  ASSUME TypeOK, ChainInv, RestInv, QueueInv, OwnerInv, TableInv, ApartInv,
         NEW e \in Evaluations, Holder(e), (Coordinator(e) /\ ~Finish(e)) \/ Interrupt(e)
  PROVE  Holder(e)'
  <1>1. Fades(run, run) /\ Sinks(run, run) BY DEF Fades, Sinks
  <1>2. ASSUME Fades(run, run')
        PROVE  \A g \in Groups : run[g] # "unused" /\ run'[g] \in Alive => run[g] \in Alive
    BY <1>2 DEF Fades
  <1>3. ASSUME NEW b \in Branches, Advance(e, b)
        PROVE  Holder(e)'
    <2> DEFINE op == ops[e][b]
    <2>1. /\ pending' = pending /\ pending[e] = None /\ mode[e] # "unwinding" /\ b \in Unsettled(e)
          /\ ops'[e][b] = [op EXCEPT !.started = TRUE]
          /\ \A c \in Branches \ {b} : ops'[e][c] = ops[e][c]
      BY <1>3 DEF Advance, Stepping, TypeOK
    <2>2. op \in Operation BY <2>1, UnsettledTypes
    <2>3. ops'[e][b].kind = op.kind /\ ops'[e][b].group = op.group
      BY <2>1, <2>2, OperationFields
    <2>4. \A c \in Unsettled(e)' : c # b => c \in Unsettled(e) /\ ops'[e][c] = ops[e][c]
      BY <2>1 DEF Unsettled, Deferred
    <2>5. CASE Interactive(op)
      <3>1. InFront(e, b) BY <1>3, <2>5 DEF Advance, Turn
      <3>2. \A c \in Unsettled(e)' : Interactive(ops'[e][c]) /\ ops'[e][c].started => c = b
        BY <2>4, <3>1 DEF QueueInv, QueueFits, InFront
      <3>3. tty'.owner = op.group
        BY <1>3, <2>5 DEF Advance, Given, Interactive, TypeOK
      <3>4. QED BY <2>1, <2>3, <3>2, <3>3 DEF Holder
    <2>6. CASE ~Interactive(op)
      <3>1. tty' = tty
        <4>1. op.kind = "capture"
          BY <1>3, <2>2, <2>6, OperationFields DEF Advance, Interactive, Kinds
        <4>2. QED BY <1>3, <4>1 DEF Advance
      <3>2. \A c \in Unsettled(e)' : Interactive(ops'[e][c]) /\ ops'[e][c].started =>
              c \in Unsettled(e) /\ ops'[e][c] = ops[e][c]
        BY <2>3, <2>4, <2>6 DEF Interactive
      <3>3. \A g \in Groups : run[g] # "unused" /\ run'[g] \in Alive => run[g] \in Alive
        BY <1>3, <2>6 DEF Advance, Interactive, Alive, TypeOK
      <3>4. QED BY <2>1, <3>1, <3>2, <3>3, HolderKept
    <2>7. QED BY <2>5, <2>6
  <1>4. ASSUME NEW b \in Branches, Collect(e, b)
        PROVE  Holder(e)'
    <2>1. /\ tty' = tty /\ run' = run /\ pending' = pending /\ mode' = mode /\ ops[e][b] = Settled
          /\ ops'[e][b] = None /\ \A c \in Branches \ {b} : ops'[e][c] = ops[e][c]
      BY <1>4 DEF Collect, TypeOK
    <2>2. \A c \in Unsettled(e)' : c \in Unsettled(e) /\ ops'[e][c] = ops[e][c]
      BY <2>1 DEF Unsettled, Deferred
    <2>3. QED BY <2>1, <2>2, HolderKept
  <1>5. ASSUME NEW b \in Branches, NEW asked \in BOOLEAN, NEW interrupted \in BOOLEAN,
               Complete(e, b, asked, interrupted)
        PROVE  Holder(e)'
    <2>1. /\ tty' = Restored(e, {b}) /\ pending' = pending /\ mode[e] # "unwinding"
          /\ ops'[e][b] \in {None, Settled}
          /\ \A c \in Branches \ {b} : ops'[e][c] = ops[e][c]
      BY <1>5 DEF Complete, Stepping, TypeOK
    <2>2. \A c \in Unsettled(e)' : c \notin {b} /\ c \in Unsettled(e) /\ ops'[e][c] = ops[e][c]
      BY <2>1 DEF Unsettled, Deferred
    <2>3. Fades(run, run') BY <1>1, <1>5, FadingEffects DEF Complete
    <2>4. QED BY <1>2, <2>1, <2>2, <2>3, HolderDequeued
  <1>6. CASE Unwind(e)
    <2>1. \A b \in Branches : ops'[e][b] = None
      BY <1>6 DEF Unwind, Closed, TypeOK, Deferred
    <2>2. Unsettled(e)' = {} BY <2>1 DEF Unsettled, Deferred
    <2>3. pending' = pending /\ tty' = Restored(e, Deferred(e)) /\ mode[e] = "unwinding"
      BY <1>6 DEF Unwind, Closed
    <2>4. Fades(run, run') BY <1>6, ClosedKeeps DEF Unwind
    <2>5. ASSUME pending[e] # None, Interactive(pending[e]), pending[e].started,
                 run'[pending[e].group] \in Alive
          PROVE  tty'.owner = pending[e].group
      <3>1. \A b : ~InFront(e, b) BY <2>5, NobodyInFront DEF ApartInv, Apart, Interactive
      <3>2. tty' = tty BY <2>3, <3>1 DEF Restored
      <3>3. Live(pending[e].group) BY <1>2, <2>4, <2>5, UsedGroups DEF Live, Alive
      <3>4. QED BY <2>5, <3>2, <3>3 DEF Holder
    <2>6. QED BY <2>2, <2>3, <2>5 DEF Holder, Live, Alive
  <1>7. ASSUME NEW interrupted \in BOOLEAN, Returns(e, interrupted)
        PROVE  Holder(e)'
    <2>1. /\ pending[e] # None /\ pending'[e] = None /\ ops' = ops
          /\ mode[e] = "unwinding" => mode'[e] = "unwinding"
      BY <1>7 DEF Returns, TypeOK
    <2>2. Sinks(run, run') BY <1>1, <1>7, SinkingEffects DEF Returns
    <2>3. CASE pending[e].kind = "wait"
      <3>1. tty' = tty BY <1>7, <2>3 DEF Returns
      <3>2. \A b \in Unsettled(e)' : b \in Unsettled(e) /\ ops'[e][b] = ops[e][b]
        BY <2>1 DEF Unsettled, Deferred
      <3>3. \A g \in Groups : /\ run'[g] \in Alive => run[g] \in Alive
                              /\ run'[g] = "running" => run[g] = "running"
        BY <2>2 DEF Sinks
      <3>4. QED BY <2>1, <3>1, <3>2, <3>3, HolderKept
    <2>4. CASE pending[e].kind # "wait"
      <3>1. queue[e] = <<>> BY <2>1, <2>4 DEF ApartInv, Apart
      <3>2. QED BY <2>1, <3>1, HolderDirect
    <2>5. QED BY <2>3, <2>4
  <1>8. CASE Interrupt(e)
    <2>1. pending'[e] = None /\ ops' = ops /\ mode[e] = "body"
      BY <1>8 DEF Interrupt, TypeOK
    <2>2. CASE pending[e] = None \/ pending[e].kind = "wait"
      <3>1. tty' = tty /\ run' = run BY <1>8, <2>2 DEF Interrupt
      <3>2. \A b \in Unsettled(e)' : b \in Unsettled(e) /\ ops'[e][b] = ops[e][b]
        BY <2>1 DEF Unsettled, Deferred
      <3>3. QED BY <2>1, <3>1, <3>2, HolderKept
    <2>3. CASE ~(pending[e] = None \/ pending[e].kind = "wait")
      <3>1. queue[e] = <<>> BY <2>3 DEF ApartInv, Apart
      <3>2. QED BY <2>1, <3>1, HolderDirect
    <2>4. QED BY <2>2, <2>3
  <1>9. CASE Reissue(e)
    <2> DEFINE g == pending[e].group
               given == pending[e].kind = "fg" /\ ~Gone(g)
    <2>1. /\ pending[e] # None /\ ~pending[e].started /\ ops' = ops /\ mode' = mode
          /\ \/ pending'[e] = None /\ tty' = tty /\ run' = run
             \/ /\ pending'[e] = [pending[e] EXCEPT !.started = TRUE]
                /\ tty' = IF given THEN Given(saved, tty, g) ELSE tty
                /\ run' = IF given THEN Continued(run, {g}) ELSE run
      BY <1>9 DEF Reissue, TypeOK
    <2>2. pending[e] \in Operation BY <2>1, UnsettledTypes
    <2>3. ~OwnsGroup(pending[e]) BY <2>1 DEF RestInv, Begins
    <2>4. [pending[e] EXCEPT !.started = TRUE].kind = pending[e].kind
            /\ [pending[e] EXCEPT !.started = TRUE].group = g
      BY <2>2, OperationFields
    <2>5. CASE pending[e].kind = "fg"
      <3>1. queue[e] = <<>> BY <2>1, <2>5 DEF ApartInv, Apart
      <3>2. ASSUME pending'[e] # None, run'[g] \in Alive
            PROVE  tty'.owner = g
        <4>1. CASE Gone(g)
          <5>1. run' = run BY <2>1, <4>1
          <5>2. QED BY <3>2, <4>1, <5>1 DEF Gone, Alive
        <4>2. CASE ~Gone(g) BY <2>1, <2>5, <3>2, <4>2 DEF Given
        <4>3. QED BY <4>1, <4>2
      <3>3. QED BY <2>1, <2>4, <3>1, <3>2, HolderDirect
    <2>6. CASE pending[e].kind # "fg"
      <3>1. tty' = tty /\ run' = run BY <2>1, <2>6
      <3>2. pending'[e] = None \/ ~Interactive(pending'[e])
        BY <2>1, <2>3, <2>4, <2>6 DEF Interactive, OwnsGroup
      <3>3. \A b \in Unsettled(e)' : b \in Unsettled(e) /\ ops'[e][b] = ops[e][b]
        BY <2>1 DEF Unsettled, Deferred
      <3>4. QED BY <2>1, <3>1, <3>2, <3>3, HolderKept
    <2>7. QED BY <2>5, <2>6
  <1>10. QED BY <1>3, <1>4, <1>5, <1>6, <1>7, <1>8, <1>9 DEF Coordinator

\* Whoever is driven after a step has the terminal for what it has started.
LEMMA HolderStep ==
  ASSUME TypeOK, ChainInv, RestInv, QueueInv, OwnerInv, TableInv, ApartInv, HolderInv, StillInv,
         Mixed = FALSE, [Next]_vars
  PROVE  HolderInv'
  <1>1. \A d \in Evaluations : Driven(d) => Holder(d) BY DEF HolderInv
  <1>2. ASSUME NEW e \in Evaluations, Local(e), Holder(e)'
        PROVE  HolderInv'
    <2>1. \A d \in Evaluations : Driven(d)' => d = e BY <1>2, DrivenAlone DEF Local, Driven
    <2>2. QED BY <1>2, <2>1 DEF HolderInv
  <1>3. ASSUME NEW e \in Evaluations, Program(e),
               ~\E c \in parked : Foregrounds(e, c) \/ Cancels(e, c)
        PROVE  HolderInv'
    <2>1. Local(e) BY <1>3, ProgramIsLocal
    <2>2. Holder(e) BY <1>1, <2>1 DEF Local
    <2>3. QED BY <1>2, <1>3, <2>1, <2>2, ProgramHolder
  <1>4. ASSUME NEW e \in Evaluations, (Coordinator(e) /\ ~Finish(e)) \/ Interrupt(e)
        PROVE  HolderInv'
    <2>1. Local(e) BY <1>4, CoordinatorIsLocal
    <2>2. Holder(e) BY <1>1, <2>1 DEF Local
    <2>3. QED BY <1>2, <1>4, <2>1, <2>2, CoordinatorHolder
  <1>5. ASSUME NEW e \in Evaluations, Evaluate(e)
        PROVE  HolderInv'
    <2>1. active' = <<e>> /\ ops' = ops /\ pending' = pending /\ mode[e] = "new"
      BY <1>5 DEF Evaluate
    <2>2. \A d \in Evaluations : Driven(d)' => d = e
      <3>1. Len(<<e>>) = 1 /\ <<e>>[1] = e OBVIOUS
      <3>2. QED BY <2>1, <3>1 DEF Driven, Last
    <2>3. Deferred(e) = {} /\ pending[e] = None BY <2>1 DEF RestInv, Idles
    <2>4. Unsettled(e)' = {} BY <2>1, <2>3 DEF Unsettled, Deferred
    <2>5. Holder(e)' BY <2>1, <2>3, <2>4 DEF Holder
    <2>6. QED BY <2>2, <2>5 DEF HolderInv
  <1>6. ASSUME active' = <<>>
        PROVE  HolderInv'
    BY <1>6 DEF HolderInv, Driven
  <1>7. ASSUME NEW e \in Evaluations, NEW c \in parked, Foregrounds(e, c)
        PROVE  HolderInv'
    <2> DEFINE d == Last(c)
               s == [g \in Groups |-> IF g \in Recorded(e) THEN tty.modes ELSE saved[g]]
    <2>1. /\ active' = active \o c /\ parked' = parked \ {c} /\ ops' = ops
          /\ Resumed(d, Stopped(run, Frozen(e)), s)
          /\ pending' = IF Resumable(d) THEN pending ELSE [pending EXCEPT ![d] = None]
      BY <1>7 DEF Foregrounds
    <2>2. d \in Suspended /\ \A x : Driven(x)' <=> x = d BY <2>1, JoinedChains
    <2>3. d \in Evaluations BY <2>2 DEF Suspended
    <2>4. Fades(run, Stopped(run, Frozen(e)))
      <3>1. Fades(run, run) BY DEF Fades
      <3>2. QED BY <3>1, FadingEffects
    <2>5. pending[d] # None => OwnsGroup(pending[d]) \/ ~pending[d].started
      BY <2>2 DEF RestInv, Rests
    <2>6. /\ pending'[d] = pending[d] \/ pending'[d] = None
          /\ ~Resumable(d) => pending'[d] = None
      BY <2>1, <2>3 DEF TypeOK
    <2> HIDE DEF d, s
    <2>7. Holder(d)' BY <2>1, <2>3, <2>4, <2>5, <2>6, HolderResumed
    <2>8. QED BY <2>2, <2>7 DEF HolderInv
  <1>8. ASSUME NEW c \in parked, NEW r, Doom(c, r), active' = active \o c, ops' = ops,
               \A g \in Frozen(Last(c)) : g \in Groups => r[g] # "running"
        PROVE  HolderInv'
    <2> DEFINE d == Last(c)
    <2>1. parked' = parked \ {c} BY <1>8 DEF Doom
    <2>2. d \in Suspended /\ \A x : Driven(x)' <=> x = d BY <1>8, <2>1, JoinedChains
    <2>3. d \in Evaluations BY <2>2 DEF Suspended
    <2>4. pending'[d] = None /\ mode'[d] = "unwinding" BY <1>8, <2>3 DEF Doom, TypeOK
    <2>5. \A g \in Frozen(d) : run'[g] # "running"
      <3>1. Frozen(d) \subseteq Groups BY <2>3, FrozenGroups
      <3>2. \A g \in Groups : r[g] # "running" => run'[g] # "running" BY <1>8 DEF Doom, Ended
      <3>3. QED BY <1>8, <3>1, <3>2
    <2>6. Holder(d)' BY <1>8, <2>3, <2>4, <2>5, HolderDoomed
    <2>7. QED BY <2>2, <2>6 DEF HolderInv
  <1>9. ASSUME NEW e \in Evaluations, NEW c \in parked, Cancels(e, c)
        PROVE  HolderInv'
    <2>1. /\ Doom(c, Stopped(run, Frozen(e))) /\ active' = active \o c /\ ops' = ops /\ Driven(e)
      BY <1>9 DEF Cancels, Stepping
    <2>2. Last(c) \in Suspended BY <2>1, JoinedChains DEF Doom
    <2>3. \A g \in Frozen(Last(c)) : Stopped(run, Frozen(e))[g] # "running"
      BY <2>1, <2>2, Asleep
    <2>4. QED BY <1>8, <2>1, <2>3
  <1>10. ASSUME NEW c \in parked, ShutdownEvaluation(c)
         PROVE  HolderInv'
    <2>1. Doom(c, run) /\ active = <<>> /\ active' = c /\ ops' = ops
      BY <1>10 DEF ShutdownEvaluation
    <2>2. c \in Seq(Evaluations) BY DEF TypeOK
    <2>3. <<>> \o c = c BY <2>2
    <2>4. active' = active \o c BY <2>1, <2>3
    <2>5. Last(c) \in Suspended BY <2>1, <2>4, JoinedChains DEF Doom
    <2>6. \A g \in Frozen(Last(c)) : run[g] # "running" BY <2>1, <2>5, Asleep
    <2>7. QED BY <1>8, <2>1, <2>4, <2>6
  <1>11. ASSUME NEW e \in Evaluations, Finish(e)
         PROVE  HolderInv'
    <2> DEFINE rest == SubSeq(active, 1, Len(active) - 1)
               closed == Ended(run, {ops[e][b].group : b \in Attached(e)})
    <2>1. /\ Driven(e) /\ pending[e] = None /\ active' = rest /\ parked' = parked
          /\ ops' = [ops EXCEPT ![e] = [b \in Branches |-> None]] /\ pending' = pending
      BY <1>11, FinishEffects
    <2>2. CASE rest = <<>> BY <1>6, <2>1, <2>2
    <2>3. CASE rest # <<>>
      <3>0. Last(rest) \in Suspended BY <2>1, <2>3, ShortenedChain
      <3>2. PICK d \in Evaluations : d = Last(rest) BY <3>0 DEF Suspended
      <3>1. /\ d \in Suspended /\ d # e /\ pending[d] = None
            /\ \A x : Driven(x)' <=> x = d
        BY <2>1, <2>3, <3>2, ShortenedChain
      <3>3. ops'[d] = ops[d] /\ pending'[d] = None BY <2>1, <3>1, <3>2 DEF TypeOK
      <3>4. CASE d \in doomed
        <4>1. run' = closed BY <1>11, <2>3, <3>2, <3>4 DEF Finish
        <4>2. mode'[d] = "unwinding" BY <1>11, <2>3, <3>2, <3>4 DEF Finish, TypeOK
        <4>3. \A g \in Frozen(d) : run'[g] # "running" BY <2>1, <3>1, <4>1, Asleep
        <4>4. Holder(d)' BY <3>2, <3>3, <4>2, <4>3, HolderDoomed
        <4>5. QED BY <3>1, <4>4 DEF HolderInv
      <3>5. CASE d \notin doomed
        <4>1. Resumed(d, closed, saved) BY <1>11, <2>3, <3>2, <3>5 DEF Finish
        <4>2. Fades(run, closed)
          <5>1. Fades(run, run) BY DEF Fades
          <5>2. QED BY <5>1, FadingEffects
        <4> HIDE DEF closed
        <4>3. Holder(d)' BY <3>1, <3>2, <3>3, <4>1, <4>2, HolderResumed
        <4>4. QED BY <3>1, <4>3 DEF HolderInv
      <3>6. QED BY <3>4, <3>5
    <2>4. QED BY <2>2, <2>3
  <1>12. ASSUME NEW e \in Evaluations, Park(e)
         PROVE  HolderInv'
    BY <1>6, <1>12 DEF Park
  <1>13. CASE Leave \/ ShutdownJobs \/ \E g \in Groups : Notify(g)
    BY <1>6, <1>13 DEF Leave, ShutdownJobs, Notify, session
  <1>14. ASSUME NEW g \in Groups, GroupEnds(g) \/ GroupStops(g) \/ GroupSetsModes(g)
         PROVE  HolderInv'
    <2>1. UNCHANGED <<active, ops, pending, mode>> /\ tty'.owner = tty.owner
      BY <1>14 DEF GroupEnds, GroupStops, GroupSetsModes, program, session, TypeOK
    <2>2. \A h \in Groups : /\ run'[h] \in Alive => run[h] \in Alive
                            /\ run'[h] = "running" => run[h] = "running"
      BY <1>14 DEF GroupEnds, GroupStops, GroupSetsModes, TypeOK, Alive
    <2>3. ASSUME NEW d \in Evaluations, Driven(d)'
          PROVE  Holder(d)'
      <3>1. Holder(d) BY <1>1, <2>1, <2>3 DEF Driven
      <3>2. \A b \in Unsettled(d)' : b \in Unsettled(d) /\ ops'[d][b] = ops[d][b]
        BY <2>1 DEF Unsettled, Deferred
      <3>3. QED BY <2>1, <2>2, <3>1, <3>2, HolderKept
    <2>4. QED BY <2>3 DEF HolderInv
  <1>15. CASE UNCHANGED vars
    <2>1. UNCHANGED <<active, ops, pending, mode, tty, run>> BY <1>15 DEF vars
    <2>2. QED BY <1>1, <2>1 DEF HolderInv, Holder, Driven, Last, Unsettled, Deferred, Live
  <1>16. QED
    BY <1>3, <1>4, <1>5, <1>7, <1>9, <1>10, <1>11, <1>12, <1>13, <1>14, <1>15 DEF Next, Over

-----------------------------------------------------------------------------
(* The modes *)

Own(s) == \A g \in Groups : s[g] \in {None, Shell, g}

\* Whoever is given the terminal has it in the modes of the shell or in its own.
LEMMA GivenModes ==
  ASSUME NEW s, Own(s), NEW g \in Groups, NEW t, t.modes \in {Shell, g}
  PROVE  Given(s, t, g).modes \in {Shell, Given(s, t, g).owner}
  BY DEF Own, Given

\* Nobody has the terminal before the program is given it ...
LEMMA NobodyRecorded ==
  ASSUME TypeOK, ChainInv, QueueInv, TerminalInv, ModesInv, NEW e \in Evaluations, Driven(e),
         queue[e] = <<>>, pending[e] = None \/ ~pending[e].started
  PROVE  tty = Baseline
  <1>1. Returning(e) = {} BY NobodyInFront
  <1>2. tty.owner = Shell
    <2>1. CASE pending[e] = None
      <3>1. \A g : g \notin Recorded(e) BY <1>1, <2>1, RecordedFronts, ReturningFronts
      <3>2. QED BY <3>1, DrivenAlone DEF TerminalInv
    <2>2. CASE pending[e] # None BY <1>1, <2>2 DEF TerminalInv
    <2>3. QED BY <2>1, <2>2
  <1>3. tty.modes = Shell BY <1>2 DEF ModesInv
  <1>4. QED BY <1>2, <1>3 DEF Baseline, TypeOK

\* ... and its modes are recorded for who has it.
LEMMA RecordedModes ==
  ASSUME TypeOK, ChainInv, QueueInv, TerminalInv, ModesInv, ApartInv, NEW e \in Evaluations, Driven(e)
  PROVE  /\ tty.owner # Shell => \A g \in Recorded(e) : g = tty.owner
         /\ Own([g \in Groups |-> IF g \in Recorded(e) THEN tty.modes ELSE saved[g]])
  <1>1. tty.owner # Shell => \A g \in Recorded(e) : g = tty.owner
    BY DrivenAlone, OneRecorded DEF TerminalInv
  <1>2. \A g \in Recorded(e) : tty.modes \in {Shell, g} BY <1>1 DEF ModesInv
  <1>3. Own(saved) BY DEF ModesInv, OwnModes, Own
  <1>4. QED BY <1>1, <1>2, <1>3 DEF Own

\* A resumption finds the terminal with the shell.
LEMMA ResumedModes ==
  ASSUME TypeOK, QueueInv, ApartInv, NEW d \in Evaluations, NEW r, NEW s, Own(s), Resumed(d, r, s)
  PROVE  tty'.modes \in {Shell, tty'.owner}
  <1> DEFINE given == IF Returning(d) = {} THEN Baseline
                      ELSE Given(s, Baseline, CHOOSE g \in Returning(d) : TRUE)
             holding == pending[d] # None /\ OwnsGroup(pending[d])
  <1>1. Baseline.modes \in {Shell, Baseline.owner} /\ Baseline.modes = Shell BY DEF Baseline
  <1>2. given.modes \in {Shell, given.owner}
    <2>1. CASE Returning(d) = {} BY <1>1, <2>1
    <2>2. CASE Returning(d) # {}
      <3>1. PICK g \in Returning(d) : given = Given(s, Baseline, g) BY <2>2
      <3>2. g \in Groups
        BY <3>1, UnsettledTypes, OperationFields DEF Returning, Attached, AttachedControls
      <3>3. QED BY <1>1, <3>1, <3>2, GivenModes
    <2>3. QED BY <2>1, <2>2
  <1>3. CASE Resumable(d) /\ holding /\ Interactive(pending[d])
    <2>1. Returning(d) = {} BY <1>3, OneRecorded DEF Interactive
    <2>2. tty' = Given(s, Baseline, pending[d].group) BY <1>3, <2>1 DEF Resumed
    <2>3. pending[d].group \in Groups BY <1>3, UnsettledTypes, OperationFields
    <2>4. QED BY <1>1, <2>2, <2>3, GivenModes
  <1>4. CASE Resumable(d) /\ ~(holding /\ Interactive(pending[d]))
    <2>1. tty' = given BY <1>4 DEF Resumed
    <2> HIDE DEF given
    <2>2. QED BY <1>2, <2>1
  <1>5. CASE ~Resumable(d)
    <2>1. tty' = Baseline BY <1>5 DEF Resumed
    <2>2. QED BY <1>1, <2>1
  <1>6. QED BY <1>3, <1>4, <1>5

\* The modes kept for a job are its own or the shell's, and those of the terminal
\* are the shell's or of who has it.
LEMMA ModesStep ==
  ASSUME TypeOK, ChainInv, QueueInv, TerminalInv, ApartInv, ModesInv, Mixed = FALSE, [Next]_vars
  PROVE  ModesInv'
  <1>1. Own(saved) /\ tty.modes \in {Shell, tty.owner} /\ (ModesInv' <=> Own(saved') /\ tty'.modes \in {Shell, tty'.owner})
    BY DEF ModesInv, OwnModes, Own
  <1>2. ASSUME saved' = saved, tty' = tty \/ tty' = Baseline
        PROVE  ModesInv'
    BY <1>1, <1>2 DEF Baseline
  <1>3. ASSUME NEW g \in Groups, saved' = saved, tty.modes \in {Shell, g}, tty' = Given(saved, tty, g)
        PROVE  ModesInv'
    BY <1>1, <1>3, GivenModes
  <1>4. ASSUME NEW e \in Evaluations, NEW g \in Groups, NEW kind, Control(e, kind, g)
        PROVE  ModesInv'
    <2>1. CASE tty' = tty BY <1>2, <1>4, <2>1 DEF Control
    <2>2. CASE tty' # tty
      <3>1. /\ Driven(e) /\ queue[e] = <<>> /\ pending[e] = None /\ saved' = saved
            /\ tty' = Given(saved, tty, g)
        BY <1>4, <2>2 DEF Control, Stepping
      <3>2. tty.modes = Shell BY <3>1, NobodyRecorded DEF Baseline
      <3>3. QED BY <1>3, <3>1, <3>2
    <2>3. QED BY <2>1, <2>2
  <1>5. ASSUME NEW e \in Evaluations, NEW g \in Groups, NEW kind, Run(e, kind, g)
        PROVE  ModesInv'
    <2>1. /\ Driven(e) /\ queue[e] = <<>> /\ pending[e] = None /\ saved' = saved
          /\ tty' = tty \/ tty' = [tty EXCEPT !.owner = g]
      BY <1>5 DEF Run, Stepping
    <2>2. tty = Baseline BY <2>1, NobodyRecorded
    <2>3. tty'.modes = Shell BY <2>1, <2>2 DEF Baseline
    <2>4. QED BY <1>1, <2>1, <2>3
  <1>6. ASSUME NEW e \in Evaluations, Reissue(e)
        PROVE  ModesInv'
    <2>1. CASE tty' = tty BY <1>2, <1>6, <2>1 DEF Reissue
    <2>2. CASE tty' # tty
      <3>1. /\ Driven(e) /\ pending[e] # None /\ ~pending[e].started /\ saved' = saved
            /\ pending[e].kind = "fg" /\ tty' = Given(saved, tty, pending[e].group)
        BY <1>6, <2>2 DEF Reissue
      <3>2. queue[e] = <<>> BY <3>1 DEF ApartInv, Apart
      <3>3. tty.modes = Shell BY <3>1, <3>2, NobodyRecorded DEF Baseline
      <3>4. pending[e].group \in Groups BY <3>1, UnsettledTypes, OperationFields
      <3>5. QED BY <1>3, <3>1, <3>3, <3>4
    <2>3. QED BY <2>1, <2>2
  <1>7. ASSUME NEW e \in Evaluations, NEW b \in Branches, Advance(e, b)
        PROVE  ModesInv'
    <2> DEFINE op == ops[e][b]
    <2>1. CASE tty' = tty BY <1>2, <1>7, <2>1 DEF Advance
    <2>2. CASE tty' # tty
      <3>1. /\ Driven(e) /\ pending[e] = None /\ saved' = saved /\ b \in Unsettled(e)
            /\ Turn(e, b) /\ op.kind \in {"fg", "run"}
            /\ tty' = Given(saved, tty, op.group) \/ tty' = [tty EXCEPT !.owner = op.group]
        BY <1>7, <2>2 DEF Advance, Stepping
      <3>2. op.group \in Groups BY <3>1, UnsettledTypes, OperationFields
      <3>3. tty.modes \in {Shell, op.group}
        <4>1. CASE tty.owner = Shell BY <1>1, <4>1
        <4>2. CASE tty.owner # Shell
          <5>1. tty.owner \in Recorded(e) BY <3>1, <4>2, DrivenAlone DEF TerminalInv
          <5>2. PICK a : Fronts(e, a, tty.owner) BY <3>1, <5>1, RecordedFronts
          <5>3. a = b BY <3>1, <5>2 DEF Fronts, Turn, Interactive, InFront
          <5>4. tty.owner = op.group BY <5>2, <5>3 DEF Fronts
          <5>5. QED BY <1>1, <5>4
        <4>3. QED BY <4>1, <4>2
      <3>4. CASE tty' = Given(saved, tty, op.group) BY <1>3, <3>1, <3>2, <3>3, <3>4
      <3>5. CASE tty' = [tty EXCEPT !.owner = op.group]
        <4>1. tty'.modes = tty.modes /\ tty'.owner = op.group BY <3>5 DEF TypeOK
        <4>2. QED BY <1>1, <3>1, <3>3, <4>1
      <3>6. QED BY <3>1, <3>4, <3>5
    <2>3. QED BY <2>1, <2>2
  <1>8. ASSUME NEW e \in Evaluations, Park(e) \/ \E c \in parked : Cancels(e, c)
        PROVE  ModesInv'
    <2>1. /\ Driven(e) /\ tty' = Baseline
          /\ saved' = [g \in Groups |-> IF g \in Recorded(e) THEN tty.modes ELSE saved[g]]
      BY <1>8 DEF Park, FreezeActive, Cancels, Stepping
    <2>2. Own(saved') BY <2>1, RecordedModes
    <2>3. QED BY <1>1, <2>1, <2>2 DEF Baseline
  <1>9. ASSUME NEW e \in Evaluations, NEW c \in parked, Foregrounds(e, c)
        PROVE  ModesInv'
    <2> DEFINE s == [g \in Groups |-> IF g \in Recorded(e) THEN tty.modes ELSE saved[g]]
    <2>1. /\ Driven(e) /\ saved' = s /\ Resumed(Last(c), Stopped(run, Frozen(e)), s)
          /\ active' = active \o c /\ parked' = parked \ {c}
      BY <1>9 DEF Foregrounds, Stepping
    <2>2. Own(s) BY <2>1, RecordedModes
    <2> HIDE DEF s
    <2>3. Last(c) \in Evaluations BY <2>1, JoinedChains DEF Suspended
    <2>4. QED BY <1>1, <2>1, <2>2, <2>3, ResumedModes
  <1>10. ASSUME NEW e \in Evaluations, Finish(e)
         PROVE  ModesInv'
    <2> DEFINE rest == SubSeq(active, 1, Len(active) - 1)
    <2>1. saved' = saved BY <1>10 DEF Finish
    <2>2. CASE tty' = Baseline BY <1>2, <2>1, <2>2
    <2>3. CASE tty' # Baseline
      <3>1. rest # <<>> /\ \E r : Resumed(Last(rest), r, saved)
        BY <1>10, <2>3 DEF Finish
      <3>2. Last(rest) \in Evaluations BY <1>10, <3>1, FinishEffects, ShortenedChain DEF Suspended
      <3>3. QED BY <1>1, <2>1, <3>1, <3>2, ResumedModes
    <2>4. QED BY <2>2, <2>3
  <1>11. ASSUME NEW e \in Evaluations, Program(e),
                ~\E g \in Groups : \E kind : Control(e, kind, g) \/ Run(e, kind, g),
                ~\E c \in parked : Foregrounds(e, c) \/ Cancels(e, c)
         PROVE  ModesInv'
    <2>1. saved' = saved /\ (tty' = tty \/ tty' = Baseline)
      BY <1>11 DEF Program, Start, Defer, ControlNow, Snapshots, Release, Close, Closed, Restored, Exit
    <2>2. QED BY <1>2, <2>1
  <1>12. ASSUME NEW e \in Evaluations, Coordinator(e) \/ Interrupt(e),
                ~Finish(e), ~Reissue(e), ~\E b \in Branches : Advance(e, b)
         PROVE  ModesInv'
    <2>1. saved' = saved /\ (tty' = tty \/ tty' = Baseline)
      BY <1>12 DEF Coordinator, Interrupt, Collect, Complete, Returns, Unwind, Closed, Restored
    <2>2. QED BY <1>2, <2>1
  <1>13. ASSUME \/ \E e \in Evaluations : Evaluate(e)
                \/ \E c \in parked : ShutdownEvaluation(c)
                \/ Leave \/ ShutdownJobs \/ UNCHANGED vars
                \/ \E g \in Groups : Notify(g) \/ GroupEnds(g) \/ GroupStops(g)
         PROVE  ModesInv'
    <2>1. saved' = saved /\ (tty' = tty \/ tty' = Baseline)
      BY <1>13 DEF Evaluate, ShutdownEvaluation, Leave, ShutdownJobs, Notify, GroupEnds, GroupStops, vars
    <2>2. QED BY <1>2, <2>1
  <1>14. ASSUME NEW g \in Groups, GroupSetsModes(g)
         PROVE  ModesInv'
    <2>1. saved' = saved /\ tty'.modes = g /\ tty'.owner = g
      BY <1>14 DEF GroupSetsModes, TypeOK
    <2>2. QED BY <1>1, <2>1
  <1>15. QED
    BY <1>4, <1>5, <1>6, <1>7, <1>8, <1>9, <1>10, <1>11, <1>12, <1>13, <1>14 DEF Next, Over

-----------------------------------------------------------------------------
(* Evaluations that are stopped *)

\* A job that a stopped evaluation holds is retained.
LEMMA FrozenIsRetained ==
  ASSUME TypeOK, QueueInv, OwnerInv, ApartInv, NEW s \in Suspended, NEW g \in Frozen(s), g \in table
  PROVE  Retained(g)
  <1>1. s \in Evaluations BY DEF Suspended
  <1>2. g \in Groups /\ None \notin Operation BY <1>1, FrozenGroups, UnsettledTypes
  <1>3. ASSUME NEW b \in Attached(s), ops[s][b].group = g
        PROVE  g \in ForegroundJob(s)
    <2>1. b \in Branches BY <1>1, <1>3, UnsettledTypes DEF Attached, AttachedControls
    <2>2. ~Owned(s, b, g) BY <1>1, <1>2, <2>1 DEF OwnerInv
    <2>3. b \in AttachedControls(s) BY <1>3, <2>2 DEF Attached, Owned
    <2>4. QED BY <1>3, <2>3 DEF ForegroundJob
  <1>4. ASSUME pending[s] # None, pending[s].kind # "wait", pending[s].group = g
        PROVE  g \in ForegroundJob(s)
    <2>1. AttachedControls(s) = {} BY <1>1, <1>4, NobodyInFront DEF ApartInv, Apart
    <2>2. ~Awaited(s, g) BY <1>1, <1>2 DEF OwnerInv
    <2>3. pending[s].kind \in Kinds BY <1>1, <1>4, UnsettledTypes, OperationFields
    <2>4. pending[s].kind = "fg" BY <1>4, <2>2, <2>3 DEF Awaited, OwnsGroup, Kinds
    <2>5. QED BY <1>4, <2>1, <2>4 DEF ForegroundJob
  <1>5. g \in ForegroundJob(s) BY <1>1, <1>3, <1>4, FrozenGroups
  <1>6. QED BY <1>5 DEF Retained

\* What a stopped evaluation holds changes with its operations only.
LEMMA FrozenSame ==
  ASSUME NEW s, ops'[s] = ops[s], pending'[s] = pending[s]
  PROVE  /\ Frozen(s)' = Frozen(s) /\ ForegroundJob(s)' = ForegroundJob(s)
         /\ Attached(s)' = Attached(s)
  <1>1. Unsettled(s)' = Unsettled(s) BY DEF Unsettled, Deferred
  <1>2. AttachedControls(s)' = AttachedControls(s) /\ Attached(s)' = Attached(s)
    BY <1>1 DEF Attached, AttachedControls
  <1>3. QED BY <1>2 DEF Frozen, Held, ForegroundJob

\* While the driven evaluation works, those that are stopped keep what they hold ...
LEMMA LocalFrozen ==
  ASSUME TypeOK, ChainInv, TypeOK', ChainInv', NEW e \in Evaluations, Local(e)
  PROVE  /\ Suspended' = Suspended
         /\ \A s \in Suspended : Frozen(s)' = Frozen(s) /\ ForegroundJob(s)' = ForegroundJob(s)
         /\ \A g : Retained(g)' <=> Retained(g)
         /\ \A d \in Evaluations : Driven(d)' <=> d = e
  <1>1. Suspended' = Suspended /\ e \notin Suspended BY SuspendedAfter
  <1>2. \A s \in Suspended : s \in Evaluations \ {e} BY <1>1 DEF Suspended
  <1>3. \A s \in Suspended : Frozen(s)' = Frozen(s) /\ ForegroundJob(s)' = ForegroundJob(s)
    BY <1>2, FrozenSame DEF Local
  <1>4. \A g : Retained(g)' <=> Retained(g) BY <1>1, <1>3 DEF Retained
  <1>5. \A d \in Evaluations : Driven(d)' <=> d = e BY DrivenAlone DEF Local, Driven
  <1>6. QED BY <1>1, <1>3, <1>4, <1>5

\* ... and if it continues one of their groups, or lets one run, it holds it itself.
LEMMA StillLocal ==
  ASSUME TypeOK, ChainInv, TypeOK', ChainInv', StillInv, NEW e \in Evaluations, Local(e),
         \A g \in Groups : (\E s \in Suspended : g \in Frozen(s)) /\ run'[g] = "running" =>
           g \in Frozen(e)' \/ (run[g] = "running" /\ g \notin Frozen(e))
  PROVE  StillInv'
  <1>1. SUFFICES ASSUME NEW s \in Suspended', NEW g \in Frozen(s)', run'[g] = "running"
                 PROVE  g \in Frozen(e)'
    BY LocalFrozen DEF StillInv
  <1>2. s \in Suspended /\ g \in Frozen(s) BY <1>1, LocalFrozen
  <1>3. g \in Groups BY <1>2, FrozenGroups DEF Suspended
  <1>4. CASE run[g] = "running" /\ g \notin Frozen(e)
    <2>1. \A d \in Evaluations : Driven(d) => d = e BY DrivenAlone DEF Local
    <2>2. FALSE BY <1>2, <1>4, <2>1 DEF StillInv
    <2>3. QED BY <2>2
  <1>5. QED BY <1>1, <1>2, <1>3, <1>4

\* Operations that are closed, or leave with a group that does not run, are all that
\* the driven evaluation loses.
LEMMA FrozenGrows ==
  ASSUME TypeOK, NEW e \in Evaluations, NEW g, g \in Frozen(e),
         \A b \in Attached(e) : ops[e][b].group = g =>
            /\ b \in Unsettled(e)' /\ ops'[e][b].kind = ops[e][b].kind
            /\ ops'[e][b].group = g /\ (ops[e][b].started => ops'[e][b].started),
         pending[e] # None /\ pending[e].kind # "wait" /\ pending[e].group = g =>
            pending'[e] # None /\ pending'[e].kind # "wait" /\ pending'[e].group = g
  PROVE  g \in Frozen(e)'
  <1>1. CASE \E b \in Attached(e) : ops[e][b].group = g
    <2>1. PICK b \in Attached(e) : ops[e][b].group = g BY <1>1
    <2>2. /\ b \in Unsettled(e)' /\ ops'[e][b].kind = ops[e][b].kind
          /\ ops'[e][b].group = g /\ (ops[e][b].started => ops'[e][b].started)
      BY <2>1
    <2>3. \/ ops[e][b].kind = "fg" /\ ops[e][b].started
          \/ ops[e][b].kind \in {"run", "capture"}
      BY <2>1 DEF Attached, AttachedControls, OwnsGroup
    <2>4. b \in Attached(e)' BY <2>2, <2>3 DEF Attached, AttachedControls, OwnsGroup
    <2>5. QED BY <2>2, <2>4 DEF Frozen
  <1>2. CASE ~\E b \in Attached(e) : ops[e][b].group = g
    <2>1. pending[e] # None /\ pending[e].kind # "wait" /\ pending[e].group = g
      BY <1>2 DEF Frozen, Held
    <2>2. QED BY <2>1 DEF Frozen, Held
  <1>3. QED BY <1>1, <1>2

\* A program continues no group of an evaluation that is stopped.
LEMMA ProgramStill ==
  ASSUME TypeOK, ChainInv, RestInv, QueueInv, OwnerInv, TableInv, ApartInv, StillInv,
         TypeOK', ChainInv', NEW e \in Evaluations, Program(e),
         ~\E c \in parked : Foregrounds(e, c) \/ Cancels(e, c)
  PROVE  StillInv'
  <1>1. Local(e) BY ProgramIsLocal
  <1>2. \A s \in Suspended : \A g \in Frozen(s) :
          g \in Groups /\ run[g] # "unused" /\ (g \in table => Retained(g))
    <2>1. TAKE s \in Suspended
    <2>2. s \in Evaluations BY DEF Suspended
    <2>3. TAKE g \in Frozen(s)
    <2>4. run[g] # "unused"
      <3>1. \A b \in Attached(s) : b \in Unsettled(s) BY DEF Attached, AttachedControls
      <3>2. QED BY <2>2, <2>3, <3>1, FrozenGroups, UsedGroups
    <2>5. QED BY <2>2, <2>3, <2>4, FrozenGroups, FrozenIsRetained
  <1>3. ASSUME \A s \in Suspended : \A g \in Frozen(s) : run'[g] = "running" => run[g] = "running",
               \A g \in Groups : g \in Frozen(e) /\ run'[g] = "running" => g \in Frozen(e)'
        PROVE  StillInv'
    BY <1>1, <1>3, StillLocal
  <1>4. ASSUME ops' = ops, pending[e] = None
        PROVE  \A g \in Groups : g \in Frozen(e) => g \in Frozen(e)'
    <2>1. Unsettled(e)' = Unsettled(e) BY <1>4 DEF Unsettled, Deferred
    <2>2. \A b \in Attached(e) : b \in Unsettled(e) BY DEF Attached, AttachedControls
    <2>3. QED BY <1>4, <2>1, <2>2, FrozenGrows
  <1>5. ASSUME NEW g \in Groups, run[g] = "unused", NEW x, run' = [run EXCEPT ![g] = x]
        PROVE  \A s \in Suspended : \A h \in Frozen(s) : run'[h] = "running" => run[h] = "running"
    BY <1>2, <1>5 DEF TypeOK
  <1>6. ASSUME NEW g \in table, ~Retained(g), run' = Continued(run, {g})
        PROVE  \A s \in Suspended : \A h \in Frozen(s) : run'[h] = "running" => run[h] = "running"
    BY <1>2, <1>6 DEF Continued
  <1>7. ASSUME Sinks(run, run')
        PROVE  \A s \in Suspended : \A h \in Frozen(s) : run'[h] = "running" => run[h] = "running"
    BY <1>2, <1>7 DEF Sinks
  <1>8. Sinks(run, run) BY DEF Sinks
  <1>9. pending[e] = None
    BY DEF Program, Start, Release, Defer, ControlNow, Snapshots, Control, Run, Close, Exit, Stepping
  <1>10. ASSUME NEW g \in Groups, Start(e, g)
         PROVE  StillInv'
    BY <1>3, <1>4, <1>5, <1>9, <1>10 DEF Start, program
  <1>11. ASSUME NEW g \in Groups, NEW b \in Branches, NEW kind \in Callbacks, Defer(e, b, kind, g)
         PROVE  StillInv'
    <2>1. /\ \A c \in Branches \ {b} : ops'[e][c] = ops[e][c]
          /\ ops[e][b] = None /\ pending' = pending
      BY <1>11 DEF Defer, TypeOK
    <2>2. \A c \in Attached(e) : c \in Unsettled(e)' /\ ops'[e][c] = ops[e][c]
      BY <2>1 DEF Attached, AttachedControls, Unsettled, Deferred
    <2>3. \A h \in Groups : h \in Frozen(e) => h \in Frozen(e)'
      BY <1>9, <2>2, FrozenGrows
    <2>4. \A s \in Suspended : \A h \in Frozen(s) : run'[h] = "running" => run[h] = "running"
      BY <1>5, <1>11 DEF Defer
    <2>5. QED BY <1>3, <2>3, <2>4
  <1>12. ASSUME NEW g \in Groups, NEW kind \in {"bg", "cancel"}, ControlNow(e, kind, g)
         PROVE  StillInv'
    <2>1. ops' = ops BY <1>12 DEF ControlNow, program
    <2>2. CASE kind = "bg"
      <3>1. g \in table /\ ~Retained(g) /\ run' = Continued(run, {g})
        BY <1>12, <2>2 DEF ControlNow
      <3>2. QED BY <1>3, <1>4, <1>6, <1>9, <2>1, <3>1
    <2>3. CASE kind # "bg"
      <3>1. Sinks(run, run') BY <1>8, <1>12, <2>3, SinkingEffects DEF ControlNow
      <3>2. QED BY <1>3, <1>4, <1>7, <1>9, <2>1, <3>1
    <2>4. QED BY <2>2, <2>3
  <1>13. ASSUME NEW g \in Groups, NEW kind, Control(e, kind, g)
         PROVE  StillInv'
    <2>1. ops' = ops /\ g \in table /\ ~Retained(g) /\ (run' = run \/ run' = Continued(run, {g}))
      BY <1>13 DEF Control
    <2>2. CASE run' = run BY <1>3, <1>4, <1>9, <2>1, <2>2
    <2>3. CASE run' = Continued(run, {g}) BY <1>3, <1>4, <1>6, <1>9, <2>1, <2>3
    <2>4. QED BY <2>1, <2>2, <2>3
  <1>14. ASSUME NEW g \in Groups, NEW kind, Run(e, kind, g)
         PROVE  StillInv'
    BY <1>3, <1>4, <1>5, <1>9, <1>14 DEF Run
  <1>15. ASSUME NEW B, Close(e, B)
         PROVE  StillInv'
    <2>1. /\ \A b \in Branches \ B : ops'[e][b] = ops[e][b]
          /\ run' = Ended(run, {ops[e][b].group : b \in B \intersect Attached(e)})
      BY <1>15 DEF Close, Closed, TypeOK
    <2>2. Sinks(run, run') BY <1>8, <2>1, SinkingEffects
    <2>3. ASSUME NEW g \in Groups, g \in Frozen(e), run'[g] = "running"
          PROVE  g \in Frozen(e)'
      <3>1. ASSUME NEW b \in Attached(e), ops[e][b].group = g
            PROVE  b \in Unsettled(e)' /\ ops'[e][b] = ops[e][b]
        <4>1. b \notin B BY <2>1, <2>3, <3>1 DEF Ended
        <4>2. b \in Unsettled(e) BY <3>1 DEF Attached, AttachedControls
        <4>3. QED BY <2>1, <4>1, <4>2 DEF Unsettled, Deferred
      <3>2. QED BY <1>9, <2>3, <3>1, FrozenGrows
    <2>4. QED BY <1>3, <1>7, <2>2, <2>3
  <1>16. CASE Snapshots(e) \/ Release(e) \/ \E force : Exit(e, force)
    <2>1. Sinks(run, run') BY <1>8, <1>16, SinkingEffects DEF Snapshots, Release, Exit
    <2>2. ops' = ops BY <1>16 DEF Snapshots, Release, Exit, program
    <2>3. QED BY <1>3, <1>4, <1>7, <1>9, <2>1, <2>2
  <1>17. QED
    BY <1>10, <1>11, <1>12, <1>13, <1>14, <1>15, <1>16 DEF Program

\* Nor does the coordinator, without a turn of the driven evaluation on the same job.
LEMMA CoordinatorStill ==
  ASSUME TypeOK, ChainInv, RestInv, QueueInv, OwnerInv, TableInv, StillInv, AwaitedInv,
         TypeOK', ChainInv', NEW e \in Evaluations, (Coordinator(e) /\ ~Finish(e)) \/ Interrupt(e)
  PROVE  StillInv'
  <1>1. Local(e) /\ Driven(e) BY CoordinatorIsLocal DEF Local
  <1>2. \A s \in Suspended : \A g \in Frozen(s) : g \in Groups BY FrozenGroups DEF Suspended
  <1>3. ASSUME Sinks(run, run'),
               \A g \in Groups : g \in Frozen(e) /\ run'[g] = "running" => g \in Frozen(e)'
        PROVE  StillInv'
    BY <1>1, <1>3, StillLocal DEF Sinks
  <1>4. Sinks(run, run) BY DEF Sinks
  <1>5. \A b \in Attached(e) : b \in Unsettled(e) BY DEF Attached, AttachedControls
  <1>6. ASSUME NEW b \in Branches, Advance(e, b)
        PROVE  StillInv'
    <2> DEFINE op == ops[e][b]
    <2>1. /\ pending' = pending /\ pending[e] = None /\ b \in Unsettled(e) /\ op.kind # "wait"
          /\ ops'[e][b] = [op EXCEPT !.started = TRUE]
          /\ \A c \in Branches \ {b} : ops'[e][c] = ops[e][c]
          /\ run' = IF op.kind = "fg" THEN Continued(run, {op.group})
                    ELSE [run EXCEPT ![op.group] = IF @ = "held" THEN "running" ELSE @]
      BY <1>6 DEF Advance, Stepping, TypeOK
    <2>2. op \in Operation /\ None \notin Operation /\ Settled \notin Operation BY <2>1, UnsettledTypes
    <2>3. /\ ops'[e][b] \in Operation /\ ops'[e][b].started
          /\ ops'[e][b].kind = op.kind /\ ops'[e][b].group = op.group
      <3>1. /\ [op EXCEPT !.started = TRUE] \in Operation /\ [op EXCEPT !.started = TRUE].started
            /\ [op EXCEPT !.started = TRUE].kind = op.kind
            /\ [op EXCEPT !.started = TRUE].group = op.group
        BY <2>2, OperationFields
      <3>2. QED BY <2>1, <3>1
    <2>4. b \in Unsettled(e)' BY <2>2, <2>3 DEF Unsettled, Deferred
    <2>5. \A g \in Groups : g \in Frozen(e) => g \in Frozen(e)'
      <3>1. \A c \in Attached(e) : c # b => c \in Unsettled(e)' /\ ops'[e][c] = ops[e][c]
        BY <1>5, <2>1 DEF Unsettled, Deferred
      <3>2. QED BY <2>1, <2>3, <2>4, <3>1, FrozenGrows
    <2>6. op.group \in Frozen(e)'
      <3>1. op.kind \in {"run", "capture", "fg"} BY <2>1, <2>2, OperationFields DEF Kinds
      <3>2. b \in Attached(e)' BY <2>3, <2>4, <3>1 DEF Attached, AttachedControls, OwnsGroup
      <3>3. QED BY <2>3, <3>2 DEF Frozen
    <2>7. \A g \in Groups : g # op.group => run'[g] = run[g] BY <2>1 DEF Continued, TypeOK
    <2>8. \A g \in Groups : run'[g] = "running" =>
            g \in Frozen(e)' \/ (run[g] = "running" /\ g \notin Frozen(e))
      BY <2>5, <2>6, <2>7
    <2>9. QED BY <1>1, <2>8, StillLocal
  <1>7. ASSUME NEW b \in Branches, Collect(e, b)
        PROVE  StillInv'
    <2>1. /\ run' = run /\ pending' = pending /\ ops[e][b] = Settled
          /\ \A c \in Branches \ {b} : ops'[e][c] = ops[e][c]
      BY <1>7 DEF Collect, TypeOK
    <2>2. \A c \in Attached(e) : c \in Unsettled(e)' /\ ops'[e][c] = ops[e][c]
      BY <1>5, <2>1 DEF Unsettled, Deferred
    <2>3. QED BY <1>3, <1>4, <2>1, <2>2, FrozenGrows
  <1>8. ASSUME NEW b \in Branches, NEW asked \in BOOLEAN, NEW interrupted \in BOOLEAN,
               Complete(e, b, asked, interrupted)
        PROVE  StillInv'
    <2> DEFINE op == ops[e][b]
    <2>1. /\ pending' = pending /\ b \in Unsettled(e)
          /\ Answerable(op) \/ WouldBlock(op)
          /\ run' = IF WouldBlock(op) THEN Ended(run, {op.group}) ELSE Reaped(run, {op.group})
          /\ \A c \in Branches \ {b} : ops'[e][c] = ops[e][c]
      BY <1>8 DEF Complete, TypeOK
    <2>2. op \in Operation /\ op.group \in Groups BY <2>1, UnsettledTypes, OperationFields
    <2>3. Sinks(run, run') BY <1>4, <2>1, SinkingEffects
    <2>4. b \in Attached(e) => run'[op.group] # "running"
      <3>1. CASE WouldBlock(op) BY <2>1, <2>2, <3>1 DEF Ended
      <3>2. CASE ~WouldBlock(op) /\ b \in Attached(e)
        <4>1. Gone(op.group)
          BY <2>1, <3>2 DEF Attached, AttachedControls, OwnsGroup, Answerable
        <4>2. QED BY <2>1, <2>2, <3>2, <4>1 DEF Reaped, Gone
      <3>3. QED BY <3>1, <3>2
    <2>5. ASSUME NEW g \in Groups, g \in Frozen(e), run'[g] = "running"
          PROVE  g \in Frozen(e)'
      <3>1. \A c \in Attached(e) : ops[e][c].group = g =>
              c \in Unsettled(e)' /\ ops'[e][c] = ops[e][c]
        BY <1>5, <2>1, <2>4, <2>5 DEF Unsettled, Deferred
      <3>2. QED BY <2>1, <2>5, <3>1, FrozenGrows
    <2>6. QED BY <1>3, <2>3, <2>5
  <1>9. CASE Unwind(e)
    <2>1. /\ run' = Ended(run, {ops[e][b].group : b \in Deferred(e) \intersect Attached(e)})
          /\ pending' = pending
      BY <1>9 DEF Unwind, Closed
    <2>2. Sinks(run, run') BY <1>4, <2>1, SinkingEffects
    <2>3. ASSUME NEW g \in Groups, g \in Frozen(e), run'[g] = "running"
          PROVE  g \in Frozen(e)'
      <3>1. \A b \in Attached(e) : ops[e][b].group # g
        BY <1>5, <2>1, <2>3 DEF Ended, Unsettled
      <3>2. QED BY <2>1, <2>3, <3>1, FrozenGrows
    <2>4. QED BY <1>3, <2>2, <2>3
  <1>10. ASSUME ops' = ops, Sinks(run, run'), pending[e] # None,
                pending[e].kind = "wait" \/ run'[pending[e].group] # "running"
         PROVE  StillInv'
    <2>1. ASSUME NEW g \in Groups, g \in Frozen(e), run'[g] = "running"
          PROVE  g \in Frozen(e)'
      <3>1. \A c \in Attached(e) : c \in Unsettled(e)' /\ ops'[e][c] = ops[e][c]
        BY <1>5, <1>10 DEF Unsettled, Deferred
      <3>2. pending[e].kind = "wait" \/ pending[e].group # g BY <1>10, <2>1
      <3>3. QED BY <2>1, <3>1, <3>2, FrozenGrows
    <2>2. QED BY <1>3, <1>10, <2>1
  <1>11. ASSUME NEW interrupted \in BOOLEAN, Returns(e, interrupted)
         PROVE  StillInv'
    <2> DEFINE op == pending[e]
               stopped == run[op.group] = "stopped"
    <2>1. /\ op # None /\ ops' = ops
          /\ Gone(op.group) \/ stopped
          /\ run' = IF stopped /\ OwnsGroup(op) THEN Ended(run, {op.group})
                    ELSE Reaped(run, {op.group})
      BY <1>11 DEF Returns
    <2>2. op.group \in Groups BY <2>1, UnsettledTypes, OperationFields
    <2>3. run'[op.group] # "running" BY <2>1, <2>2 DEF Ended, Reaped, Gone
    <2>4. Sinks(run, run') BY <1>4, <2>1, SinkingEffects
    <2>5. QED BY <1>10, <2>1, <2>3, <2>4
  <1>12. CASE Interrupt(e)
    <2>1. ops' = ops BY <1>12 DEF Interrupt
    <2>2. CASE pending[e] = None
      <3>1. run' = run BY <1>12, <2>2 DEF Interrupt
      <3>2. \A c \in Attached(e) : c \in Unsettled(e)' /\ ops'[e][c] = ops[e][c]
        BY <1>5, <2>1 DEF Unsettled, Deferred
      <3>3. QED BY <1>3, <1>4, <2>2, <3>1, <3>2, FrozenGrows
    <2>3. CASE pending[e] # None /\ pending[e].kind = "wait"
      <3>1. run' = run BY <1>12, <2>3 DEF Interrupt
      <3>2. QED BY <1>4, <1>10, <2>1, <2>3, <3>1
    <2>4. CASE pending[e] # None /\ pending[e].kind # "wait"
      <3>1. run' = Ended(run, {pending[e].group}) BY <1>12, <2>4 DEF Interrupt
      <3>2. pending[e].group \in Groups BY <2>4, UnsettledTypes, OperationFields
      <3>3. Sinks(run, run') /\ run'[pending[e].group] # "running"
        <4>1. Sinks(run, run') BY <1>4, <3>1, SinkingEffects
        <4>2. run'[pending[e].group] # "running" BY <3>1, <3>2 DEF Ended
        <4>3. QED BY <4>1, <4>2
      <3>4. QED BY <1>10, <2>1, <2>4, <3>3
    <2>5. QED BY <2>2, <2>3, <2>4
  <1>13. CASE Reissue(e)
    <2> DEFINE op == pending[e]
               g == pending[e].group
               given == op.kind = "fg" /\ ~Gone(g)
    <2>1. /\ op # None /\ ~op.started /\ ops' = ops
          /\ \/ pending'[e] = None /\ run' = run
             \/ /\ pending'[e] = [op EXCEPT !.started = TRUE]
                /\ run' = IF given THEN Continued(run, {g}) ELSE run
      BY <1>13 DEF Reissue, TypeOK
    <2>2. op \in Operation /\ g \in Groups BY <2>1, UnsettledTypes, OperationFields
    <2>3. ~OwnsGroup(op) BY <2>1 DEF RestInv, Begins
    <2>4. op.kind \in {"fg", "wait"} BY <2>2, <2>3, OperationFields DEF OwnsGroup, Kinds
    <2>5. CASE pending'[e] = None
      <3>0. [op EXCEPT !.started = TRUE] # None
        <4>1. [op EXCEPT !.started = TRUE] \in Operation BY <2>2, OperationFields
        <4>2. QED BY <4>1, ValuesDiffer
      <3>1. run' = run BY <2>1, <2>5, <3>0
      <3>2. op.kind = "wait" \/ run'[g] # "running"
        BY <1>1, <2>1, <2>4, <3>1 DEF AwaitedInv
      <3>3. QED BY <1>4, <1>10, <2>1, <3>1, <3>2
    <2>6. CASE pending'[e] # None
      <3>1. /\ pending'[e].kind = op.kind /\ pending'[e].group = g
            /\ run' = IF given THEN Continued(run, {g}) ELSE run
        <4>1. /\ pending'[e] = [op EXCEPT !.started = TRUE]
              /\ run' = IF given THEN Continued(run, {g}) ELSE run
          BY <2>1, <2>6
        <4>2. [op EXCEPT !.started = TRUE].kind = op.kind /\ [op EXCEPT !.started = TRUE].group = op.group
          BY <2>2, OperationFields
        <4>3. QED BY <4>1, <4>2
      <3>2. \A h \in Groups : h \in Frozen(e) => h \in Frozen(e)'
        <4>1. \A c \in Attached(e) : c \in Unsettled(e)' /\ ops'[e][c] = ops[e][c]
          BY <1>5, <2>1 DEF Unsettled, Deferred
        <4>2. QED BY <2>6, <3>1, <4>1, FrozenGrows
      <3>3. \A h \in Groups : run'[h] = "running" => run[h] = "running" \/ (given /\ h = g)
        BY <3>1 DEF Continued
      <3>4. given => g \in Frozen(e)' BY <2>6, <3>1 DEF Frozen, Held
      <3>5. QED BY <1>1, <3>2, <3>3, <3>4, StillLocal
    <2>7. QED BY <2>5, <2>6
  <1>14. QED BY <1>6, <1>7, <1>8, <1>9, <1>11, <1>12, <1>13 DEF Coordinator

\* A resumption continues only what the resumed evaluation attaches again.
LEMMA ResumedStill ==
  ASSUME TypeOK, NEW d \in Evaluations, NEW r, NEW s, Resumed(d, r, s), ops'[d] = ops[d],
         pending'[d] = pending[d] \/ ~Resumable(d)
  PROVE  /\ \A g \in Groups : run'[g] = "running" => r[g] = "running" \/ g \in Frozen(d)'
         /\ \A g \in Groups : run'[g] = "running" => r[g] = "running" \/ g \in Frozen(d)
  <1> DEFINE A == {ops[d][b].group : b \in Attached(d)}
  <1>1. Attached(d)' = Attached(d)
    <2>1. Unsettled(d)' = Unsettled(d) BY DEF Unsettled, Deferred
    <2>2. QED BY <2>1 DEF Attached, AttachedControls
  <1>2. A \subseteq Frozen(d)' /\ A \subseteq Frozen(d) BY <1>1 DEF Frozen
  <1>3. CASE Resumable(d)
    <2> DEFINE T == A \union
                 (IF pending[d] # None /\ OwnsGroup(pending[d]) THEN Held(d) ELSE {})
    <2>1. run' = Continued(r, T) BY <1>3 DEF Resumed
    <2>2. pending'[d] = pending[d] BY <1>3
    <2>3. Held(d)' = Held(d) BY <2>2 DEF Held
    <2>4. T \subseteq Frozen(d)' /\ T \subseteq Frozen(d)
      BY <1>2, <2>3 DEF Frozen
    <2> HIDE DEF T
    <2>5. QED BY <2>1, <2>4 DEF Continued
  <1>4. CASE ~Resumable(d)
    <2>1. PICK S : S \subseteq A /\ run' = Ended(Continued(r, S), Held(d)) BY <1>4 DEF Resumed
    <2> HIDE DEF A
    <2>2. \A g \in Groups : run'[g] = "running" => r[g] = "running" \/ g \in S
      BY <2>1 DEF Ended, Continued
    <2>3. QED BY <1>2, <2>1, <2>2
  <1>5. QED BY <1>3, <1>4

\* What a stopped evaluation holds does not run, or the driven one holds it as well.
LEMMA StillStep ==
  ASSUME TypeOK, ChainInv, RestInv, QueueInv, OwnerInv, TableInv, ApartInv, StillInv, AwaitedInv,
         TypeOK', ChainInv', [Next]_vars
  PROVE  StillInv'
  <1>1. Sinks(run, run) BY DEF Sinks
  <1>2. ASSUME NEW e \in Evaluations, Program(e),
               ~\E c \in parked : Foregrounds(e, c) \/ Cancels(e, c)
        PROVE  StillInv'
    BY <1>2, ProgramStill
  <1>3. ASSUME NEW e \in Evaluations, (Coordinator(e) /\ ~Finish(e)) \/ Interrupt(e)
        PROVE  StillInv'
    BY <1>3, CoordinatorStill
  <1>4. ASSUME NEW e \in Evaluations, Evaluate(e)
        PROVE  StillInv'
    <2>1. active = <<>> /\ ops' = ops /\ pending' = pending /\ run' = run BY <1>4 DEF Evaluate
    <2>2. Suspended' = Suspended BY <1>4, SuspendedAfter
    <2>3. \A s \in Suspended : Frozen(s)' = Frozen(s) BY <2>1, FrozenSame
    <2>4. QED BY <2>1, <2>2, <2>3, Asleep DEF StillInv
  <1>5. ASSUME Quiet, Sinks(run, run')
        PROVE  StillInv'
    <2>1. Suspended' = Suspended BY <1>5, SuspendedAfter
    <2>2. \A s \in Evaluations : Frozen(s)' = Frozen(s) BY <1>5, FrozenSame DEF Quiet
    <2>3. \A d \in Evaluations : Driven(d)' <=> Driven(d) BY <1>5 DEF Quiet, Driven, Last
    <2>4. SUFFICES ASSUME NEW s \in Suspended', NEW g \in Frozen(s)', run'[g] = "running"
                   PROVE  \E d \in Evaluations : Driven(d)' /\ g \in Frozen(d)'
      BY DEF StillInv
    <2>5. s \in Suspended /\ s \in Evaluations BY <2>1, <2>4 DEF Suspended
    <2>6. g \in Frozen(s) /\ g \in Groups BY <2>2, <2>4, <2>5, FrozenGroups
    <2>7. run[g] = "running" BY <1>5, <2>4, <2>6 DEF Sinks
    <2>8. PICK d \in Evaluations : Driven(d) /\ g \in Frozen(d) BY <2>5, <2>6, <2>7 DEF StillInv
    <2>9. QED BY <2>2, <2>3, <2>8
  <1>6. ASSUME NEW e \in Evaluations, Park(e)
        PROVE  StillInv'
    <2>1. /\ Driven(e) /\ run' = Stopped(run, Frozen(e)) /\ ops' = ops
          /\ \/ pending' = pending
             \/ pending[e] # None /\ pending' = [pending EXCEPT ![e].started = FALSE]
      BY <1>6 DEF Park, FreezeActive
    <2>2. Suspended' = Suspended \union {e} BY <1>6, SuspendedAfter
    <2>3. \A s \in Suspended : s \in Evaluations BY DEF Suspended
    <2>4. \A s \in Evaluations : Frozen(s)' = Frozen(s)
      <3>1. TAKE s \in Evaluations
      <3>2. Unsettled(s)' = Unsettled(s) BY <2>1 DEF Unsettled, Deferred
      <3>3. Attached(s)' = Attached(s) BY <2>1, <3>2 DEF Attached, AttachedControls
      <3>4. CASE pending'[s] = pending[s] BY <2>1, <3>3, <3>4 DEF Frozen, Held
      <3>5. CASE pending'[s] # pending[s]
        <4>1. pending[s] # None /\ pending'[s] = [pending[s] EXCEPT !.started = FALSE]
          BY <2>1, <3>5 DEF TypeOK
        <4>2. pending[s] \in Operation BY <4>1, UnsettledTypes
        <4>3. /\ [pending[s] EXCEPT !.started = FALSE] \in Operation
              /\ [pending[s] EXCEPT !.started = FALSE].kind = pending[s].kind
              /\ [pending[s] EXCEPT !.started = FALSE].group = pending[s].group
          BY <4>2, OperationFields
        <4>4. pending'[s] # None /\ pending'[s].kind = pending[s].kind /\ pending'[s].group = pending[s].group
          BY <4>1, <4>3, ValuesDiffer
        <4>5. QED BY <2>1, <3>3, <4>1, <4>4 DEF Frozen, Held
      <3>6. QED BY <3>4, <3>5
    <2>5. ASSUME NEW s \in Suspended', NEW g \in Frozen(s)'
          PROVE  run'[g] # "running"
      <3>1. g \in Groups /\ g \in Frozen(s) BY <2>2, <2>3, <2>4, <2>5, FrozenGroups
      <3>2. CASE s \in Suspended BY <2>1, <3>1, <3>2, Asleep
      <3>3. CASE s = e BY <2>1, <3>1, <3>3 DEF Stopped
      <3>4. QED BY <2>2, <2>5, <3>2, <3>3
    <2>6. QED BY <2>5 DEF StillInv
  \* Somebody else is driven, and nobody who is not runs.
  <1>7. ASSUME NEW d \in Evaluations, Driven(d)', NEW r,
               \A s \in Suspended' : \A g \in Frozen(s)' : g \in Groups /\ r[g] # "running",
               \A g \in Groups : run'[g] = "running" => r[g] = "running" \/ g \in Frozen(d)'
        PROVE  StillInv'
    BY <1>7 DEF StillInv
  <1>8. ASSUME NEW e \in Evaluations, NEW c \in parked, Foregrounds(e, c) \/ Cancels(e, c)
        PROVE  StillInv'
    <2> DEFINE r == Stopped(run, Frozen(e))
    <2>1. Driven(e) /\ pending[e] = None /\ ops' = ops /\ active' = active \o c /\ parked' = parked \ {c}
      BY <1>8 DEF Foregrounds, Cancels, Stepping, Doom
    <2>2. Last(c) \in Suspended /\ \A x : Driven(x)' <=> x = Last(c) BY <2>1, JoinedChains
    <2>3. Last(c) \in Evaluations BY <2>2 DEF Suspended
    <2>4. PICK d \in Evaluations : d = Last(c) BY <2>3
    <2>5. Suspended' = (Suspended \ {d}) \union {e}
      <3>1. Revived(c) BY <1>8, RevivedSteps
      <3>2. {x \in Evaluations : Driven(x)} = {e} BY <2>1, DrivenAlone
      <3>3. QED BY <2>4, <3>1, <3>2, SuspendedAfter
    <2>6. \A s \in Evaluations \ {d} : pending'[s] = pending[s]
      BY <1>8, <2>4 DEF Foregrounds, Cancels, Doom, TypeOK
    <2>7. e # d BY <2>1, <2>2, <2>4, SuspendedMembers
    <2>8. ASSUME NEW s \in Suspended', NEW g \in Frozen(s)'
          PROVE  g \in Groups /\ r[g] # "running"
      <3>1. s \in Evaluations \ {d} BY <2>5, <2>7, <2>8 DEF Suspended
      <3>2. g \in Frozen(s) BY <2>1, <2>6, <2>8, <3>1, FrozenSame
      <3>3. g \in Groups BY <3>1, <3>2, FrozenGroups
      <3>4. CASE s \in Suspended BY <2>1, <3>2, <3>3, <3>4, Asleep
      <3>5. CASE s = e BY <3>2, <3>3, <3>5 DEF Stopped
      <3>6. QED BY <2>5, <2>8, <3>3, <3>4, <3>5
    <2>9. \A g \in Groups : run'[g] = "running" => r[g] = "running" \/ g \in Frozen(d)'
      <3>1. CASE Foregrounds(e, c)
        <4> DEFINE s == [g \in Groups |-> IF g \in Recorded(e) THEN tty.modes ELSE saved[g]]
        <4>1. Resumed(d, r, s) /\ (pending'[d] = pending[d] \/ ~Resumable(d))
          BY <2>4, <3>1 DEF Foregrounds
        <4> HIDE DEF r, s
        <4>2. QED BY <2>1, <4>1, ResumedStill
      <3>2. CASE Cancels(e, c) BY <3>2 DEF Cancels, Doom, Ended
      <3>3. QED BY <1>8, <3>1, <3>2
    <2> HIDE DEF r
    <2>10. QED BY <1>7, <2>2, <2>4, <2>8, <2>9
  <1>9. ASSUME NEW c \in parked, ShutdownEvaluation(c)
        PROVE  StillInv'
    <2>1. active = <<>> /\ ops' = ops /\ active' = c /\ parked' = parked \ {c}
      BY <1>9 DEF ShutdownEvaluation, Doom
    <2>2. Revived(c) BY <1>9, RevivedSteps
    <2>3. Suspended' = Suspended \ {Last(c)}
      <3>1. {x \in Evaluations : Driven(x)} = {} BY <2>1 DEF Driven
      <3>2. QED BY <2>2, <3>1, SuspendedAfter
    <2>4. \A s \in Evaluations : s # Last(c) => pending'[s] = pending[s]
      BY <1>9 DEF ShutdownEvaluation, Doom, TypeOK
    <2>5. ASSUME NEW s \in Suspended', NEW g \in Frozen(s)'
          PROVE  run'[g] # "running"
      <3>1. s \in Suspended /\ s \in Evaluations /\ s # Last(c) BY <2>3, <2>5 DEF Suspended
      <3>2. g \in Frozen(s) /\ g \in Groups BY <2>1, <2>4, <2>5, <3>1, FrozenSame, FrozenGroups
      <3>3. run[g] # "running" BY <2>1, <3>1, <3>2, Asleep
      <3>4. QED BY <1>9, <3>2, <3>3 DEF ShutdownEvaluation, Doom, Ended
    <2>6. QED BY <2>5 DEF StillInv
  <1>10. ASSUME NEW e \in Evaluations, Finish(e)
         PROVE  StillInv'
    <2> DEFINE rest == SubSeq(active, 1, Len(active) - 1)
               A == {ops[e][b].group : b \in Attached(e)}
               closed == Ended(run, A)
    <2>1. /\ Driven(e) /\ pending[e] = None /\ active' = rest /\ parked' = parked
          /\ ops' = [ops EXCEPT ![e] = [b \in Branches |-> None]] /\ pending' = pending
      BY <1>10, FinishEffects
    <2>2. Suspended' = {x \in Suspended : ~Driven(x)'} /\ e \notin Suspended BY <1>10, SuspendedAfter
    <2>3. ASSUME NEW s \in Suspended', NEW g \in Frozen(s)'
          PROVE  g \in Groups /\ closed[g] # "running"
      <3>1. s \in Suspended /\ s \in Evaluations /\ s # e BY <2>2, <2>3 DEF Suspended
      <3>2. ops'[s] = ops[s] /\ pending'[s] = pending[s] BY <2>1, <3>1 DEF TypeOK
      <3>3. g \in Frozen(s) /\ g \in Groups BY <2>3, <3>1, <3>2, FrozenSame, FrozenGroups
      <3>4. QED BY <2>1, <3>1, <3>3, Asleep
    <2>4. CASE run' = closed BY <2>3, <2>4 DEF StillInv
    <2>5. CASE run' # closed
      <3>1. rest # <<>> /\ Resumed(Last(rest), closed, saved)
        BY <1>10, <2>5 DEF Finish
      <3>2. Last(rest) \in Suspended /\ Last(rest) # e /\ \A x : Driven(x)' <=> x = Last(rest)
        BY <2>1, <3>1, ShortenedChain
      <3>3. PICK d \in Evaluations : d = Last(rest) BY <3>2 DEF Suspended
      <3>4. ops'[d] = ops[d] /\ pending'[d] = pending[d] BY <2>1, <3>2, <3>3 DEF TypeOK
      <3> HIDE DEF closed
      <3>5. Resumed(d, closed, saved) BY <3>1, <3>3
      <3>6. \A g \in Groups : run'[g] = "running" => closed[g] = "running" \/ g \in Frozen(d)'
        BY <3>4, <3>5, ResumedStill
      <3>7. Driven(d)' BY <3>2, <3>3
      <3>8. PICK r : r = closed OBVIOUS
      <3>9. QED BY <1>7, <2>3, <3>6, <3>7, <3>8
    <2>6. QED BY <2>4, <2>5
  <1>11. CASE \/ Leave \/ ShutdownJobs \/ UNCHANGED vars
              \/ \E g \in Groups : Notify(g) \/ GroupEnds(g) \/ GroupStops(g) \/ GroupSetsModes(g)
    <2>1. Quiet
      BY <1>11 DEF Leave, ShutdownJobs, Notify, GroupEnds, GroupStops, GroupSetsModes, vars,
                   program, session, Quiet
    <2>2. Sinks(run, run')
      <3>1. CASE Leave \/ ShutdownJobs \/ UNCHANGED vars \/ \E g \in Groups : Notify(g) \/ GroupSetsModes(g)
        BY <1>1, <3>1, SinkingEffects DEF Leave, ShutdownJobs, Notify, GroupSetsModes, vars
      <3>2. CASE \E g \in Groups : GroupEnds(g) \/ GroupStops(g)
        BY <3>2 DEF GroupEnds, GroupStops, Sinks, Alive, TypeOK
      <3>3. QED BY <1>11, <3>1, <3>2
    <2>3. QED BY <1>5, <2>1, <2>2
  <1>12. QED
    BY <1>2, <1>3, <1>4, <1>6, <1>8, <1>9, <1>10, <1>11 DEF Next, Over

\* A job that the driven evaluation waits for is held by nobody who is stopped, and
\* it stays stopped until it is continued for the evaluation again.
LEMMA AwaitedStep ==
  ASSUME TypeOK, ChainInv, RestInv, QueueInv, OwnerInv, TableInv, ApartInv, StillInv, AwaitedInv,
         TypeOK', ChainInv', [Next]_vars
  PROVE  AwaitedInv'
  <1>1. ASSUME NEW e \in Evaluations, \A d \in Evaluations : Driven(d)' => d = e,
               pending'[e] # None /\ pending'[e].kind = "fg" =>
                 IF pending'[e].started THEN ~Retained(pending[e].group)'
                 ELSE run'[pending'[e].group] # "running"
        PROVE  AwaitedInv'
    BY <1>1 DEF AwaitedInv
  <1>2. ASSUME active' = <<>>
        PROVE  AwaitedInv'
    BY <1>2 DEF AwaitedInv, Driven
  <1>3. ASSUME NEW e \in Evaluations, Local(e),
               pending'[e] # None /\ pending'[e].kind = "fg" =>
                 IF pending'[e].started THEN ~Retained(pending'[e].group)
                 ELSE pending'[e] = pending[e] /\ (run'[pending[e].group] = "running" => run[pending[e].group] = "running")
        PROVE  AwaitedInv'
    <2>1. ASSUME pending'[e] # None, pending'[e].kind = "fg"
          PROVE  IF pending'[e].started THEN ~Retained(pending[e].group)'
                 ELSE run'[pending'[e].group] # "running"
      <3>1. CASE pending'[e].started
        <4>1. PICK g : g = pending'[e].group OBVIOUS
        <4>2. ~Retained(g)' BY <1>3, <2>1, <3>1, <4>1, LocalFrozen
        <4>3. \A s : s \in Suspended' => g \notin ForegroundJob(s)' BY <4>2 DEF Retained
        <4>4. ~\E s \in Suspended' : pending'[e].group \in ForegroundJob(s)' BY <4>1, <4>3
        <4>5. QED BY <3>1, <4>4 DEF Retained
      <3>2. CASE ~pending'[e].started BY <1>3, <2>1, <3>2 DEF AwaitedInv, Local
      <3>3. QED BY <3>1, <3>2
    <2>2. \A d \in Evaluations : Driven(d)' => d = e BY <1>3, LocalFrozen
    <2>3. QED BY <1>1, <2>1, <2>2
  <1>4. ASSUME NEW e \in Evaluations, Program(e),
               ~\E c \in parked : Foregrounds(e, c) \/ Cancels(e, c)
        PROVE  AwaitedInv'
    <2>1. Local(e) BY <1>4, ProgramIsLocal
    <2>2. CASE pending'[e] = None BY <1>3, <2>1, <2>2
    <2>3. ASSUME NEW g \in Groups, NEW kind \in {"fg", "wait"}, Control(e, kind, g)
          PROVE  AwaitedInv'
      <3>1. pending'[e] = [NewOperation(kind, g) EXCEPT !.started = TRUE] /\ ~Retained(g)
        BY <2>3 DEF Control, TypeOK
      <3>2. pending'[e].started /\ pending'[e].group = g BY <3>1 DEF NewOperation
      <3>3. QED BY <1>3, <2>1, <3>1, <3>2
    <2>4. ASSUME NEW g \in Groups, NEW kind \in {"run", "capture"}, Run(e, kind, g)
          PROVE  AwaitedInv'
      <3>1. pending'[e] = [NewOperation(kind, g) EXCEPT !.started = TRUE]
        BY <2>4 DEF Run, TypeOK
      <3>2. pending'[e].kind = kind BY <3>1 DEF NewOperation
      <3>3. QED BY <1>3, <2>1, <3>2
    <2>5. CASE ~\E g \in Groups : \/ \E kind \in {"fg", "wait"} : Control(e, kind, g)
                                  \/ \E kind \in {"run", "capture"} : Run(e, kind, g)
      <3>1. pending[e] = None /\ pending' = pending
        BY <1>4, <2>5 DEF Program, Start, Release, Defer, ControlNow, Snapshots, Close, Exit, Stepping, program
      <3>2. QED BY <2>2, <3>1
    <2>6. QED BY <2>3, <2>4, <2>5
  <1>5. ASSUME NEW e \in Evaluations, (Coordinator(e) /\ ~Finish(e)) \/ Interrupt(e)
        PROVE  AwaitedInv'
    <2>1. Local(e) BY <1>5, CoordinatorIsLocal
    <2>2. CASE pending'[e] = None BY <1>3, <2>1, <2>2
    <2>3. CASE Reissue(e)
      <3>1. /\ pending[e] # None
            /\ \/ pending'[e] = None
               \/ /\ pending'[e] = [pending[e] EXCEPT !.started = TRUE]
                  /\ ~Retained(pending[e].group)
        BY <2>3 DEF Reissue, TypeOK
      <3>2. /\ [pending[e] EXCEPT !.started = TRUE].started
            /\ [pending[e] EXCEPT !.started = TRUE].group = pending[e].group
        BY <3>1, UnsettledTypes, OperationFields
      <3>3. CASE pending'[e] # None BY <1>3, <2>1, <3>1, <3>2, <3>3
      <3>4. QED BY <2>2, <3>3
    <2>4. CASE Unwind(e)
      <3>1. pending' = pending /\ \E S : run' = Ended(run, S) BY <2>4 DEF Unwind, Closed
      <3>2. \A g \in Groups : run'[g] = "running" => run[g] = "running" BY <3>1 DEF Ended
      <3>3. pending[e] # None => pending[e].group \in Groups BY UnsettledTypes, OperationFields
      <3>4. Driven(e) BY <2>1 DEF Local
      <3>5. QED BY <1>3, <2>1, <3>1, <3>2, <3>3, <3>4 DEF AwaitedInv
    <2>5. CASE ~Reissue(e) /\ ~Unwind(e)
      <3>1. pending'[e] = None
        BY <1>5, <2>5 DEF Coordinator, Advance, Collect, Complete, Returns, Interrupt, Stepping, TypeOK
      <3>2. QED BY <2>2, <3>1
    <2>6. QED BY <2>3, <2>4, <2>5
  <1>6. ASSUME NEW e \in Evaluations, Evaluate(e)
        PROVE  AwaitedInv'
    <2>1. active' = <<e>> /\ pending' = pending /\ mode[e] = "new" BY <1>6 DEF Evaluate
    <2>2. \A d \in Evaluations : Driven(d)' => d = e
      <3>1. Len(<<e>>) = 1 /\ <<e>>[1] = e OBVIOUS
      <3>2. QED BY <2>1, <3>1 DEF Driven, Last
    <2>3. pending[e] = None BY <2>1 DEF RestInv, Idles
    <2>4. QED BY <1>1, <2>1, <2>2, <2>3
  <1>7. ASSUME Quiet, Sinks(run, run')
        PROVE  AwaitedInv'
    <2>1. Suspended' = Suspended BY <1>7, SuspendedAfter
    <2>2. \A s : ForegroundJob(s)' = ForegroundJob(s) BY <1>7, FrozenSame DEF Quiet
    <2>3. \A d \in Evaluations : Driven(d)' <=> Driven(d) BY <1>7 DEF Quiet, Driven, Last
    <2>4. pending' = pending BY <1>7 DEF Quiet
    <2>5. ASSUME NEW d \in Evaluations, Driven(d)', pending'[d] # None, pending'[d].kind = "fg"
          PROVE  IF pending'[d].started THEN ~Retained(pending[d].group)'
                 ELSE run'[pending'[d].group] # "running"
      <3>1. Driven(d) /\ pending[d] # None /\ pending[d].kind = "fg" BY <2>3, <2>4, <2>5
      <3>2. pending[d].group \in Groups BY <3>1, UnsettledTypes, OperationFields
      <3>3. ~Retained(pending[d].group) => ~\E s \in Suspended' : pending'[d].group \in ForegroundJob(s)'
        BY <2>1, <2>2, <2>4 DEF Retained
      <3>4. run'[pending[d].group] = "running" => run[pending[d].group] = "running"
        BY <1>7, <3>2 DEF Sinks
      <3>5. QED BY <2>4, <3>1, <3>3, <3>4 DEF AwaitedInv, Retained
    <2>6. QED BY <2>5 DEF AwaitedInv
  <1>8. ASSUME NEW e \in Evaluations, NEW c \in parked, Foregrounds(e, c)
        PROVE  AwaitedInv'
    <2> DEFINE r == Stopped(run, Frozen(e))
               s == [g \in Groups |-> IF g \in Recorded(e) THEN tty.modes ELSE saved[g]]
    <2>1. /\ Driven(e) /\ ops' = ops /\ active' = active \o c /\ parked' = parked \ {c}
          /\ Resumed(Last(c), r, s)
          /\ pending' = IF Resumable(Last(c)) THEN pending ELSE [pending EXCEPT ![Last(c)] = None]
      BY <1>8 DEF Foregrounds, Stepping
    <2>2. Last(c) \in Suspended /\ \A x : Driven(x)' <=> x = Last(c) BY <2>1, JoinedChains
    <2>3. PICK d \in Evaluations : d = Last(c) BY <2>2 DEF Suspended
    <2>4. ASSUME pending'[d] # None, pending'[d].kind = "fg"
          PROVE  ~pending'[d].started /\ run'[pending'[d].group] # "running"
      <3>1. pending' = pending /\ Resumable(d) BY <2>1, <2>3, <2>4 DEF TypeOK
      <3>2. ~OwnsGroup(pending[d]) /\ ~pending[d].started
        BY <2>2, <2>3, <2>4, <3>1 DEF RestInv, Rests, OwnsGroup
      <3>3. PICK g : g = pending[d].group OBVIOUS
      <3>4. g \in Groups /\ g \in table /\ g \in Frozen(d)
        BY <2>4, <3>1, <3>2, <3>3, UnsettledTypes, OperationFields, FrozenGroups DEF TableInv
      <3>5. r[g] # "running" BY <2>1, <2>2, <2>3, <3>4, Asleep
      <3> DEFINE A == {ops[d][b].group : b \in Attached(d)}
      <3>6. g \notin A
        <4>1. AttachedControls(d) = {} BY <2>4, <3>1, NobodyInFront DEF ApartInv, Apart
        <4>2. ASSUME NEW b \in Attached(d), ops[d][b].group = g
              PROVE  FALSE
          <5>1. b \in Branches BY <4>2, UnsettledTypes DEF Attached, AttachedControls
          <5>2. Owned(d, b, g) BY <4>1, <4>2 DEF Attached, Owned
          <5>3. QED BY <3>4, <5>1, <5>2 DEF OwnerInv
        <4>3. QED BY <4>2
      <3>7. run' = Continued(r, A \union {}) BY <2>1, <2>3, <3>1, <3>2 DEF Resumed
      <3> HIDE DEF A, r
      <3>8. run'[g] # "running" BY <3>4, <3>5, <3>6, <3>7 DEF Continued
      <3>9. QED BY <3>1, <3>2, <3>3, <3>8
    <2>5. \A x \in Evaluations : Driven(x)' => x = d BY <2>2, <2>3
    <2>6. QED BY <1>1, <2>4, <2>5
  <1>9. ASSUME NEW e \in Evaluations, Finish(e)
        PROVE  AwaitedInv'
    <2> DEFINE rest == SubSeq(active, 1, Len(active) - 1)
    <2>1. Driven(e) /\ active' = rest /\ parked' = parked /\ pending' = pending BY <1>9, FinishEffects
    <2>2. CASE rest = <<>> BY <1>2, <2>1, <2>2
    <2>3. CASE rest # <<>>
      <3>1. Last(rest) \in Suspended /\ pending[Last(rest)] = None /\ \A x : Driven(x)' <=> x = Last(rest)
        BY <2>1, <2>3, ShortenedChain
      <3>2. PICK d \in Evaluations : d = Last(rest) BY <3>1 DEF Suspended
      <3>3. pending'[d] = None /\ \A x \in Evaluations : Driven(x)' => x = d BY <2>1, <3>1, <3>2
      <3>4. QED BY <1>1, <3>3
    <2>4. QED BY <2>2, <2>3
  <1>10. ASSUME NEW c \in parked, ShutdownEvaluation(c) \/ \E e \in Evaluations : Cancels(e, c)
         PROVE  AwaitedInv'
    <2>1. Revived(c) BY <1>10, RevivedSteps
    <2>2. Last(c) \in Suspended /\ \A x : Driven(x)' <=> x = Last(c)
      BY <2>1, JoinedChains DEF Revived
    <2>3. PICK d \in Evaluations : d = Last(c) BY <2>2 DEF Suspended
    <2>4. pending'[d] = None BY <1>10, <2>3 DEF ShutdownEvaluation, Cancels, Doom, TypeOK
    <2>5. \A x \in Evaluations : Driven(x)' => x = d BY <2>2, <2>3
    <2>6. QED BY <1>1, <2>4, <2>5
  <1>11. ASSUME NEW e \in Evaluations, Park(e)
         PROVE  AwaitedInv'
    BY <1>2, <1>11 DEF Park
  <1>12. CASE \/ Leave \/ ShutdownJobs \/ UNCHANGED vars
              \/ \E g \in Groups : Notify(g) \/ GroupEnds(g) \/ GroupStops(g) \/ GroupSetsModes(g)
    <2>1. Quiet
      BY <1>12 DEF Leave, ShutdownJobs, Notify, GroupEnds, GroupStops, GroupSetsModes, vars,
                   program, session, Quiet
    <2>2. Sinks(run, run')
      <3>1. CASE Leave \/ ShutdownJobs \/ UNCHANGED vars \/ \E g \in Groups : Notify(g) \/ GroupSetsModes(g)
        <4>1. Sinks(run, run) BY DEF Sinks
        <4>2. QED
          BY <3>1, <4>1, SinkingEffects DEF Leave, ShutdownJobs, Notify, GroupSetsModes, vars
      <3>2. CASE \E g \in Groups : GroupEnds(g) \/ GroupStops(g)
        BY <3>2 DEF GroupEnds, GroupStops, Sinks, Alive, TypeOK
      <3>3. QED BY <1>12, <3>1, <3>2
    <2>3. QED BY <1>7, <2>1, <2>2
  <1>13. QED
    BY <1>4, <1>5, <1>6, <1>8, <1>9, <1>10, <1>11, <1>12 DEF Next, Over

-----------------------------------------------------------------------------
(* The theorems for programs that do not use the terminal while callbacks wait *)

LEMMA LeaseInitially ==
  ASSUME Init
  PROVE  LeaseInv
  <1>1. \A e \in Evaluations : ~Driven(e) BY DEF Init, Driven
  <1>2. Suspended = {}
    <2>1. Members(<<>>) = {} BY DEF Members
    <2>2. QED BY <2>1 DEF Init, Suspended
  <1>3. ApartInv /\ ModesInv BY DEF Init, ApartInv, Apart, ModesInv, OwnModes, Baseline
  <1>4. QED BY <1>1, <1>2, <1>3 DEF LeaseInv, HolderInv, StillInv, AwaitedInv

LEMMA LeaseAlways ==
  ASSUME Mixed = FALSE
  PROVE  Spec => [](IInv /\ LeaseInv)
  <1>1. Init => LeaseInv BY LeaseInitially
  <1>2. IInv /\ IInv' /\ LeaseInv /\ [Next]_vars => LeaseInv'
    <2>1. SUFFICES ASSUME IInv, IInv', LeaseInv, [Next]_vars PROVE LeaseInv' OBVIOUS
    <2>2. /\ TypeOK /\ ChainInv /\ RestInv /\ QueueInv /\ OwnerInv /\ TableInv /\ TerminalInv
          /\ TypeOK' /\ ChainInv'
          /\ ApartInv /\ HolderInv /\ ModesInv /\ StillInv /\ AwaitedInv
      BY <2>1 DEF IInv, LeaseInv
    <2>3. ApartInv' BY <2>1, <2>2, ApartStep
    <2>4. HolderInv' BY <2>1, <2>2, HolderStep
    <2>5. ModesInv' BY <2>1, <2>2, ModesStep
    <2>6. StillInv' BY <2>1, <2>2, StillStep
    <2>7. AwaitedInv' BY <2>1, <2>2, AwaitedStep
    <2>8. QED BY <2>3, <2>4, <2>5, <2>6, <2>7 DEF LeaseInv
  <1>3. QED BY <1>1, <1>2, Always, PTL DEF Spec

\* Unless a program uses the terminal itself while its callbacks wait for it: a
\* foreground operation that runs has the terminal, at the prompt and between two
\* of them the shell has it, and no job gets the modes of another one
\* (operations.rs, "Foreground operations share one terminal lease").
THEOREM LeaseKept ==
  ASSUME Mixed = FALSE
  PROVE  Spec => []Lease
  <1>1. IInv /\ LeaseInv => OneHolder
    BY DEF LeaseInv, HolderInv, Holder, OneHolder, Live
  <1>2. LeaseInv => OwnModes BY DEF LeaseInv, ModesInv
  <1>3. QED BY <1>1, <1>2, LeaseAlways, PromptAlways, PTL DEF Lease

\* What an evaluation attaches is what a stop of it freezes.
LEMMA AttachesFrozen ==
  ASSUME TypeOK, NEW e \in Evaluations, NEW g
  PROVE  Attaches(e, g) <=> g \in Frozen(e)
  <1>1. None \notin Operation /\ \A b \in Unsettled(e) : ops[e][b] \in Operation
    BY UnsettledTypes
  <1>2. ASSUME Attaches(e, g)
        PROVE  g \in Frozen(e)
    <2>1. PICK op \in Waits(e) : /\ op.group = g /\ op.kind # "wait"
                                 /\ OwnsGroup(op) \/ op.started \/ op = pending[e]
      BY <1>2 DEF Attaches
    <2>2. CASE pending[e] # None /\ op = pending[e] BY <2>1, <2>2 DEF Frozen, Held
    <2>3. CASE ~(pending[e] # None /\ op = pending[e])
      <3>1. PICK b \in Unsettled(e) : op = ops[e][b] BY <2>1, <2>3 DEF Waits
      <3>2. op \in Operation /\ op # pending[e] BY <1>1, <2>3, <3>1
      <3>3. op.kind \in Kinds BY <3>2, OperationFields
      <3>4. b \in Attached(e)
        BY <2>1, <3>1, <3>2, <3>3 DEF Attached, AttachedControls, OwnsGroup, Kinds
      <3>5. QED BY <2>1, <3>1, <3>4 DEF Frozen
    <2>4. QED BY <2>2, <2>3
  <1>3. ASSUME g \in Frozen(e)
        PROVE  Attaches(e, g)
    <2>1. CASE \E b \in Attached(e) : ops[e][b].group = g
      <3>1. PICK b \in Attached(e) : ops[e][b].group = g BY <2>1
      <3>2. /\ b \in Unsettled(e) /\ ops[e][b].kind # "wait"
            /\ OwnsGroup(ops[e][b]) \/ ops[e][b].started
        BY <3>1 DEF Attached, AttachedControls, OwnsGroup
      <3>3. ops[e][b] \in Waits(e) BY <3>2 DEF Waits
      <3>4. QED BY <3>1, <3>2, <3>3 DEF Attaches
    <2>2. CASE ~\E b \in Attached(e) : ops[e][b].group = g
      <3>1. pending[e] # None /\ pending[e].kind # "wait" /\ pending[e].group = g
        BY <1>3, <2>2, FrozenGroups
      <3>2. pending[e] \in Waits(e) BY <3>1 DEF Waits
      <3>3. QED BY <3>1, <3>2 DEF Attaches
    <2>3. QED BY <2>1, <2>2
  <1>4. QED BY <1>2, <1>3

\* No job of an evaluation that is stopped or frozen runs, unless the evaluation
\* that is driven has attached it too (freeze_active, resume_owned).
THEOREM StoppedStaysStill ==
  ASSUME Mixed = FALSE
  PROVE  Spec => []SuspendedIsStill
  <1>1. IInv /\ LeaseInv => SuspendedIsStill
    <2>1. SUFFICES ASSUME TypeOK, StillInv, NEW e \in Suspended, NEW g \in Groups,
                          Attaches(e, g), run[g] = "running"
                   PROVE  \E d \in Evaluations : Driven(d) /\ Attaches(d, g)
      BY DEF IInv, LeaseInv, SuspendedIsStill
    <2>2. g \in Frozen(e) BY <2>1, AttachesFrozen DEF Suspended
    <2>3. PICK d \in Evaluations : Driven(d) /\ g \in Frozen(d) BY <2>1, <2>2 DEF StillInv
    <2>4. QED BY <2>1, <2>3, AttachesFrozen
  <1>2. QED BY <1>1, LeaseAlways, PTL

\* The foreground job of an evaluation is a job that it freezes and retains.
LEMMA ForegroundJobs ==
  ASSUME TypeOK, TableInv, NEW e \in Suspended, NEW g \in ForegroundJob(e)
  PROVE  g \in Groups /\ g \in table /\ g \in Frozen(e) /\ Retained(g) /\ run[g] # "unused"
  <1>1. e \in Evaluations BY DEF Suspended
  <1>2. CASE AttachedControls(e) # {}
    <2>1. PICK b \in AttachedControls(e) : ops[e][b].group = g BY <1>2 DEF ForegroundJob
    <2>2. b \in Unsettled(e) /\ ops[e][b].kind = "fg" /\ b \in Attached(e)
      BY <2>1 DEF AttachedControls, Attached
    <2>3. g \in table BY <1>1, <2>1, <2>2 DEF TableInv, OwnsGroup
    <2>4. QED BY <1>1, <2>1, <2>2, <2>3, FrozenGroups DEF TableInv, Retained
  <1>3. CASE AttachedControls(e) = {}
    <2>1. pending[e] # None /\ pending[e].kind = "fg" /\ g = pending[e].group
      BY <1>3 DEF ForegroundJob
    <2>2. g \in table BY <1>1, <2>1 DEF TableInv, OwnsGroup
    <2>3. QED BY <1>1, <2>1, <2>2, FrozenGroups DEF TableInv, Retained
  <1>4. QED BY <1>2, <1>3

\* What the driven evaluation has attached and an evaluation that is stopped retains
\* is a deferred operation of it, or does not run.
LEMMA SharedIsDeferred ==
  ASSUME TypeOK, OwnerInv, AwaitedInv, NEW d \in Evaluations, Driven(d),
         NEW g \in Frozen(d), Retained(g), g \in table, run[g] = "running"
  PROVE  \E b \in Unsettled(d) : ops[d][b].group = g
  <1>1. \A b \in Attached(d) : b \in Unsettled(d) BY DEF Attached, AttachedControls
  <1>2. g \in Groups BY FrozenGroups
  <1>3. ASSUME pending[d] # None, pending[d].kind # "wait", pending[d].group = g
        PROVE  FALSE
    <2>1. ~Awaited(d, g) BY <1>2 DEF OwnerInv
    <2>2. pending[d].kind \in Kinds BY <1>3, UnsettledTypes, OperationFields
    <2>3. pending[d].kind = "fg" BY <1>3, <2>1, <2>2 DEF Awaited, OwnsGroup, Kinds
    <2>4. QED BY <1>3, <2>3 DEF AwaitedInv
  <1>4. QED BY <1>1, <1>3, FrozenGroups

\* A step that continues or ends the foreground job of an evaluation that stays
\* stopped belongs to an operation that was accepted before.
Kept(g) ==
  run'[g] # run[g] /\ leaving' = "no" =>
    \/ Gone(g) \/ run'[g] = "finished"
    \/ \E d \in Evaluations : (Driven(d) \/ Driven(d)') /\ AcceptedBefore(d, g)

LEMMA ProgramKeeps ==
  ASSUME TypeOK, OwnerInv, TableInv, NEW g \in Groups, g \in table, Retained(g), run[g] # "unused",
         NEW e \in Evaluations, Program(e), ~\E c \in parked : Foregrounds(e, c) \/ Cancels(e, c)
  PROVE  Kept(g)
  <1>1. ASSUME NEW h \in Groups, h # g, NEW x, \/ run' = run \/ run' = Continued(run, {h})
                                               \/ run' = Ended(run, {h})
                                               \/ run' = [run EXCEPT ![h] = x]
        PROVE  run'[g] = run[g]
    BY <1>1 DEF Continued, Ended, TypeOK
  <1>2. ASSUME NEW h \in Groups, \/ Start(e, h) \/ \E kind : Run(e, kind, h)
        PROVE  Kept(g)
    BY <1>1, <1>2 DEF Start, Run, Kept
  <1>3. ASSUME NEW h \in Groups, NEW b, NEW kind, Defer(e, b, kind, h)
        PROVE  Kept(g)
    <2>1. run' = run \/ (h # g /\ run' = [run EXCEPT ![h] = "held"]) BY <1>3 DEF Defer
    <2>2. QED BY <1>1, <2>1 DEF Kept
  <1>4. ASSUME NEW h \in Groups, \E kind : ControlNow(e, kind, h) \/ Control(e, kind, h)
        PROVE  Kept(g)
    <2>1. h # g /\ (run' = run \/ run' = Continued(run, {h}) \/ run' = Ended(run, {h}))
      BY <1>4 DEF ControlNow, Control
    <2>2. QED BY <1>1, <2>1 DEF Kept
  <1>5. CASE Snapshots(e) \/ Release(e)
    BY <1>5 DEF Snapshots, Release, Reaped, Gone, Kept
  <1>6. ASSUME NEW B, Close(e, B)
        PROVE  Kept(g)
    <2>1. Driven(e) /\ run' = Ended(run, {ops[e][b].group : b \in B \intersect Attached(e)})
      BY <1>6 DEF Close, Closed, Stepping
    <2>2. \A b \in Attached(e) : b \in Unsettled(e) BY DEF Attached, AttachedControls
    <2>3. run'[g] # run[g] => \E b \in Unsettled(e) : ops[e][b].group = g
      BY <2>1, <2>2 DEF Ended
    <2>4. QED BY <2>1, <2>3 DEF Kept, AcceptedBefore
  <1>7. ASSUME NEW force, Exit(e, force)
        PROVE  Kept(g)
    BY <1>7 DEF Exit, Kept
  <1>8. QED BY <1>2, <1>3, <1>4, <1>5, <1>6, <1>7 DEF Program

LEMMA CoordinatorKeeps ==
  ASSUME TypeOK, OwnerInv, TableInv, AwaitedInv,
         NEW g \in Groups, g \in table, Retained(g), run[g] # "unused",
         NEW e \in Evaluations, (Coordinator(e) /\ ~Finish(e)) \/ Interrupt(e) \/ Park(e)
  PROVE  Kept(g)
  <1>1. Driven(e)
    BY DEF Coordinator, Advance, Collect, Complete, Returns, Reissue, Unwind, Interrupt, Park, Stepping
  <1>2. ASSUME NEW b \in Unsettled(e), run'[g] # run[g] => ops[e][b].group = g
        PROVE  Kept(g)
    BY <1>1, <1>2 DEF Kept, AcceptedBefore
  <1>3. ~Awaited(e, g) BY DEF OwnerInv
  <1>4. ASSUME NEW b \in Branches, Advance(e, b)
        PROVE  Kept(g)
    <2>1. b \in Unsettled(e) BY <1>4 DEF Advance
    <2>2. ops[e][b].group \in Groups BY <2>1, UnsettledTypes, OperationFields
    <2>3. run'[g] # run[g] => ops[e][b].group = g BY <1>4, <2>2 DEF Advance, Continued, TypeOK
    <2>4. QED BY <1>2, <2>1, <2>3
  <1>5. ASSUME NEW b \in Branches, Collect(e, b)
        PROVE  Kept(g)
    BY <1>5 DEF Collect, Kept
  <1>6. ASSUME NEW b \in Branches, NEW asked, NEW interrupted, Complete(e, b, asked, interrupted)
        PROVE  Kept(g)
    <2>1. b \in Unsettled(e) BY <1>6 DEF Complete
    <2>2. run'[g] # run[g] => ops[e][b].group = g BY <1>6 DEF Complete, Ended, Reaped
    <2>3. QED BY <1>2, <2>1, <2>2
  <1>7. CASE Unwind(e)
    <2>1. run' = Ended(run, {ops[e][b].group : b \in Deferred(e) \intersect Attached(e)})
      BY <1>7 DEF Unwind, Closed
    <2>2. \A b \in Attached(e) : b \in Unsettled(e) BY DEF Attached, AttachedControls
    <2>3. run'[g] # run[g] => \E b \in Unsettled(e) : ops[e][b].group = g
      BY <2>1, <2>2 DEF Ended
    <2>4. QED BY <1>1, <2>3 DEF Kept, AcceptedBefore
  <1>8. ASSUME NEW interrupted, Returns(e, interrupted)
        PROVE  Kept(g)
    <2> DEFINE op == pending[e]
               stopped == run[op.group] = "stopped"
    <2>1. /\ op # None
          /\ run' = IF stopped /\ OwnsGroup(op) THEN Ended(run, {op.group})
                    ELSE Reaped(run, {op.group})
      BY <1>8 DEF Returns
    <2>2. CASE OwnsGroup(op) /\ stopped
      <3>1. op.group # g BY <1>3, <2>1, <2>2 DEF Awaited
      <3>2. QED BY <2>1, <2>2, <3>1 DEF Ended, Kept
    <2>3. CASE ~(OwnsGroup(op) /\ stopped) BY <2>1, <2>3 DEF Reaped, Gone, Kept
    <2>4. QED BY <2>2, <2>3
  <1>9. ASSUME pending[e] # None, pending[e].kind # "wait", pending[e].started
        PROVE  pending[e].group # g
    <2>1. pending[e].kind \in Kinds BY <1>9, UnsettledTypes, OperationFields
    <2>2. CASE pending[e].kind = "fg" BY <1>1, <1>9, <2>2 DEF AwaitedInv
    <2>3. CASE pending[e].kind # "fg"
      BY <1>3, <1>9, <2>1, <2>3 DEF Awaited, OwnsGroup, Kinds
    <2>4. QED BY <2>2, <2>3
  <1>10. CASE Interrupt(e)
    <2>1. CASE pending[e] = None \/ pending[e].kind = "wait"
      BY <1>10, <2>1 DEF Interrupt, Kept
    <2>2. CASE ~(pending[e] = None \/ pending[e].kind = "wait")
      <3>1. run' = Ended(run, {pending[e].group}) /\ pending[e].started
        BY <1>10, <2>2 DEF Interrupt
      <3>2. pending[e].group # g BY <1>9, <2>2, <3>1
      <3>3. QED BY <3>1, <3>2 DEF Ended, Kept
    <2>3. QED BY <2>1, <2>2
  <1>11. CASE Reissue(e)
    <2>1. run' = run \/ (pending[e].group # g /\ run' = Continued(run, {pending[e].group}))
      BY <1>11 DEF Reissue
    <2>2. QED BY <2>1 DEF Continued, Kept
  <1>12. CASE Park(e)
    <2>1. run' = Stopped(run, Frozen(e)) BY <1>12 DEF Park, FreezeActive
    <2>2. run'[g] # run[g] => run[g] = "running" /\ g \in Frozen(e) BY <2>1 DEF Stopped
    <2>3. QED BY <1>1, <2>2, SharedIsDeferred DEF Kept, AcceptedBefore
  <1>13. QED
    BY <1>4, <1>5, <1>6, <1>7, <1>8, <1>10, <1>11, <1>12 DEF Coordinator

\* When another evaluation is driven, only what it or the last one had accepted changes.
LEMMA ResumedKeeps ==
  ASSUME TypeOK, NEW g \in Groups, NEW d \in Evaluations, Driven(d)', d \in Suspended,
         NEW e \in Evaluations, Driven(e), pending[e] = None, NEW r, NEW s,
         \/ Resumed(d, r, s) \/ run' = Ended(r, Held(d)) \/ run' = r,
         r = Stopped(run, Frozen(e)) \/ r = Ended(run, {ops[e][b].group : b \in Attached(e)})
  PROVE  Kept(g)
  <1>1. \A x : \A b \in Attached(x) : b \in Unsettled(x) BY DEF Attached, AttachedControls
  <1>2. Frozen(e) = {ops[e][b].group : b \in Attached(e)} BY DEF Frozen, Held
  <1>3. r[g] # run[g] => AcceptedBefore(e, g)
    BY <1>1, <1>2 DEF Stopped, Ended, AcceptedBefore
  <1>4. g \in Frozen(d) => AcceptedBefore(d, g)
    BY <1>1, FrozenGroups DEF AcceptedBefore
  <1>5. run'[g] # r[g] => g \in Frozen(d)
    <2> DEFINE A == {ops[d][b].group : b \in Attached(d)}
    <2>1. A \subseteq Frozen(d) /\ Held(d) \subseteq Frozen(d) BY DEF Frozen
    <2> HIDE DEF A
    <2>2. CASE run' = Ended(r, Held(d)) \/ run' = r BY <2>1, <2>2 DEF Ended
    <2>3. CASE Resumed(d, r, s)
      <3>1. \/ \E T : T \subseteq A \union Held(d) /\ run' = Continued(r, T)
            \/ \E T : T \subseteq A /\ run' = Ended(Continued(r, T), Held(d))
        BY <2>3 DEF Resumed, A
      <3>2. QED BY <2>1, <3>1 DEF Ended, Continued
    <2>4. QED BY <2>2, <2>3
  <1>6. QED BY <1>3, <1>4, <1>5 DEF Kept

LEMMA StepKeeps ==
  ASSUME IInv, LeaseInv, [Next]_vars, NEW f \in Suspended, NEW g \in ForegroundJob(f)
  PROVE  Kept(g)
  <1>1. TypeOK /\ ChainInv /\ OwnerInv /\ TableInv /\ StillInv /\ AwaitedInv
    BY DEF IInv, LeaseInv
  <1>2. g \in Groups /\ g \in table /\ g \in Frozen(f) /\ Retained(g) /\ run[g] # "unused"
    BY <1>1, ForegroundJobs
  <1>3. ASSUME NEW e \in Evaluations, Program(e),
               ~\E c \in parked : Foregrounds(e, c) \/ Cancels(e, c)
        PROVE  Kept(g)
    BY <1>1, <1>2, <1>3, ProgramKeeps
  <1>4. ASSUME NEW e \in Evaluations, (Coordinator(e) /\ ~Finish(e)) \/ Interrupt(e) \/ Park(e)
        PROVE  Kept(g)
    BY <1>1, <1>2, <1>4, CoordinatorKeeps
  <1>5. ASSUME NEW e \in Evaluations, NEW c \in parked, Foregrounds(e, c) \/ Cancels(e, c)
        PROVE  Kept(g)
    <2> DEFINE r == Stopped(run, Frozen(e))
               s == [h \in Groups |-> IF h \in Recorded(e) THEN tty.modes ELSE saved[h]]
    <2>1. Driven(e) /\ pending[e] = None /\ active' = active \o c /\ parked' = parked \ {c}
      BY <1>5 DEF Foregrounds, Cancels, Stepping, Doom
    <2>2. Last(c) \in Suspended /\ \A x : Driven(x)' <=> x = Last(c) BY <1>1, <2>1, JoinedChains
    <2>3. PICK d \in Evaluations : d = Last(c) BY <2>2 DEF Suspended
    <2>4. Resumed(d, r, s) \/ run' = Ended(r, Held(d))
      BY <1>5, <2>3 DEF Foregrounds, Cancels, Doom
    <2>5. Driven(d)' /\ d \in Suspended BY <2>2, <2>3
    <2>6. QED BY <1>1, <1>2, <2>1, <2>4, <2>5, ResumedKeeps
  <1>6. ASSUME NEW e \in Evaluations, Finish(e)
        PROVE  Kept(g)
    <2> DEFINE rest == SubSeq(active, 1, Len(active) - 1)
               r == Ended(run, {ops[e][b].group : b \in Attached(e)})
    <2>1. Driven(e) /\ pending[e] = None /\ active' = rest /\ parked' = parked
      BY <1>1, <1>6, FinishEffects
    <2>2. CASE rest = <<>>
      <3>1. run' = r BY <1>6, <2>2 DEF Finish
      <3>2. \A b \in Attached(e) : b \in Unsettled(e) BY DEF Attached, AttachedControls
      <3>3. run'[g] # run[g] => AcceptedBefore(e, g)
        BY <1>2, <3>1, <3>2 DEF Ended, AcceptedBefore
      <3>4. QED BY <2>1, <3>3 DEF Kept
    <2>3. CASE rest # <<>>
      <3>1. Last(rest) \in Suspended /\ \A x : Driven(x)' <=> x = Last(rest)
        BY <1>1, <2>1, <2>3, ShortenedChain
      <3>2. PICK d \in Evaluations : d = Last(rest) BY <3>1 DEF Suspended
      <3>3. Resumed(d, r, saved) \/ run' = r BY <1>6, <3>2 DEF Finish
      <3>4. Driven(d)' /\ d \in Suspended BY <3>1, <3>2
      <3>5. QED BY <1>1, <1>2, <2>1, <3>3, <3>4, ResumedKeeps
    <2>4. QED BY <2>2, <2>3
  <1>7. CASE (\E c \in parked : ShutdownEvaluation(c)) \/ ShutdownJobs \/ Leave
    BY <1>7 DEF ShutdownEvaluation, ShutdownJobs, Leave, Kept
  <1>8. CASE (\E e \in Evaluations : Evaluate(e)) \/ UNCHANGED vars
    BY <1>8 DEF Evaluate, Kept, vars
  <1>9. ASSUME NEW h \in Groups, Notify(h) \/ GroupEnds(h) \/ GroupSetsModes(h)
        PROVE  Kept(g)
    BY <1>1, <1>2, <1>9 DEF Notify, GroupEnds, GroupSetsModes, Reaped, Kept, Gone, TypeOK
  <1>10. ASSUME NEW h \in Groups, GroupStops(h)
         PROVE  Kept(g)
    <2>1. run'[g] # run[g] => run[g] = "running" BY <1>1, <1>2, <1>10 DEF GroupStops, TypeOK
    <2>2. run[g] = "running" => \E d \in Evaluations : Driven(d) /\ g \in Frozen(d)
      BY <1>2 , <1>1 DEF StillInv
    <2>3. QED BY <1>1, <1>2, <2>1, <2>2, SharedIsDeferred DEF Kept, AcceptedBefore
  <1>11. QED
    BY <1>3, <1>4, <1>5, <1>6, <1>7, <1>8, <1>9, <1>10 DEF Next, Over

\* While an evaluation stays stopped or frozen its foreground job is continued or
\* ended only by operations that were accepted before (control, defer: "job belongs
\* to a suspended evaluation").
THEOREM JobsOfStoppedKept ==
  ASSUME Mixed = FALSE
  PROVE  Spec => AttachedIsKept
  <1>1. IInv /\ LeaseInv /\ [Next]_vars =>
          [\A e \in Suspended \intersect Suspended' : \A g \in ForegroundJob(e) :
             run'[g] # run[g] /\ leaving' = "no" =>
               \/ Gone(g) \/ run'[g] = "finished"
               \/ \E d \in Evaluations :
                    (Driven(d) \/ Driven(d)') /\ AcceptedBefore(d, g)]_vars
    BY StepKeeps DEF Kept
  <1>2. QED BY <1>1, LeaseAlways, PTL DEF Spec, AttachedIsKept
================================================================================
