---------------------------- MODULE ForegroundProofs ----------------------------
(***************************************************************************)
(* Proofs about Foreground, for any number of jobs, evaluations and        *)
(* branches: whatever is stopped, resumed, cancelled or interrupted in     *)
(* whatever order, the queue and the operations agree, no process is lost, *)
(* and at the prompt the terminal is the shell's.                          *)
(***************************************************************************)
EXTENDS Foreground, FiniteSetTheorems, SequenceTheorems, WellFoundedInduction, TLAPS

-----------------------------------------------------------------------------
(* The inductive invariant *)

Begun == {"body", "release", "unwinding", "cleanup"}
Chains == parked \union {active}
Chained(e) == \E c \in Chains : e \in Members(c)

\* Chains of evaluations share nobody, and hold exactly those that have begun;
\* only the last of a chain may wait in an operation of its own.
ChainInv ==
  /\ <<>> \notin parked /\ active \notin parked
  /\ \A c, d \in Chains : \A i \in 1..Len(c), j \in 1..Len(d) :
       c[i] = d[j] => c = d /\ i = j
  /\ \A e \in Evaluations : mode[e] \in Begun <=> Chained(e)
  /\ \A c \in Chains : \A i \in 1..Len(c) - 1 : pending[c[i]] = None
  /\ leaving = "gone" => active = <<>> /\ parked = {}

\* An evaluation that is stopped or frozen runs its body and will issue its
\* control again; a run has always started.
Rests(e) ==
  /\ mode[e] = "body"
  /\ pending[e] # None => OwnsGroup(pending[e]) \/ ~pending[e].started
Begins(e) == pending[e] # None /\ OwnsGroup(pending[e]) => pending[e].started
Idles(e) == mode[e] \in {"new", "over"} => Deferred(e) = {} /\ pending[e] = None
RestInv ==
  /\ \A e \in Suspended : Rests(e)
  /\ \A e \in Evaluations : Begins(e) /\ Idles(e)

\* The queue has the interactive operations, and only the one in front has started.
QueueFits(e) ==
  /\ Members(queue[e]) = {b \in Unsettled(e) : Interactive(ops[e][b])}
  /\ \A i, j \in 1..Len(queue[e]) : queue[e][i] = queue[e][j] => i = j
  /\ \A b \in Unsettled(e) : Interactive(ops[e][b]) /\ ops[e][b].started => InFront(e, b)
QueueInv == \A e \in Evaluations : QueueFits(e)

Owned(e, b, g) == b \in Unsettled(e) /\ OwnsGroup(ops[e][b]) /\ ops[e][b].group = g
Awaited(e, g) == pending[e] # None /\ OwnsGroup(pending[e]) /\ pending[e].group = g

\* A process group that is no job has one owner while it lives; the controls are
\* of jobs.
OwnerInv ==
  /\ \A g \in Groups, e, d \in Evaluations :
       /\ \A a, b \in Branches : Owned(e, a, g) /\ Owned(d, b, g) => e = d /\ a = b
       /\ Awaited(e, g) /\ Awaited(d, g) => e = d
       /\ \A b \in Branches : ~(Owned(e, b, g) /\ Awaited(d, g))
  /\ \A g \in Groups, e \in Evaluations :
       (\E b \in Branches : Owned(e, b, g)) \/ Awaited(e, g)
         => run[g] # "unused" /\ g \notin table
  /\ \A g \in Groups : Live(g) /\ g \notin table =>
       \E e \in Evaluations : (\E b \in Branches : Owned(e, b, g)) \/ Awaited(e, g)

TableInv ==
  /\ \A g \in table : run[g] # "unused"
  /\ \A e \in Evaluations : \A b \in Unsettled(e) :
       ~OwnsGroup(ops[e][b]) => ops[e][b].group \in table
  /\ \A e \in Evaluations :
       pending[e] # None /\ ~OwnsGroup(pending[e]) => pending[e].group \in table
  /\ leaving = "gone" => \A g \in Groups : ~Live(g)

\* The terminal is the shell's, or its holder's that is driven.
TerminalInv ==
  /\ active = <<>> => tty = Baseline
  /\ tty.owner # Shell => \E e \in Evaluations : Driven(e) /\ tty.owner \in Recorded(e)
  /\ \A e \in Evaluations :
       Driven(e) /\ pending[e] # None /\ ~pending[e].started =>
         tty.owner \in {Shell} \union Returning(e)

IInv ==
  /\ TypeOK /\ ChainInv /\ RestInv /\ QueueInv /\ OwnerInv /\ TableInv /\ TerminalInv

-----------------------------------------------------------------------------
(* Sequences without some of their members *)

\* A set of numbers that is not empty has a least one.
LEMMA LeastNumber ==
  ASSUME NEW T, T \subseteq Nat, T # {}
  PROVE  \E x \in T : \A y \in T : x <= y
  <1> DEFINE R == OpToRel(<, Nat)
  <1>1. IsWellFoundedOn(R, Nat) BY NatLessThanWellFounded
  <1>2. \A x, y \in Nat : y < x => <<y, x>> \in R BY DEF OpToRel
  <1> HIDE DEF R
  <1>3. PICK x \in T : \A y \in T : ~(<<y, x>> \in R) BY <1>1, WFMin
  <1>4. \A y \in T : ~(y < x) BY <1>2, <1>3
  <1>5. QED BY <1>4

Step(s, B, f, i) ==
  IF i = 0 THEN <<>> ELSE IF s[i] \in B THEN f[i - 1] ELSE Append(f[i - 1], s[i])

\* The recursion in Without has a solution, and Without is its last value.
LEMMA WithoutSteps ==
  ASSUME NEW S, NEW s \in Seq(S), NEW B
  PROVE  \E f : /\ \A i \in 0..Len(s) : f[i] = Step(s, B, f, i)
                /\ Without(s, B) = f[Len(s)]
  <1> DEFINE T == {n \in Nat : n <= Len(s) /\ ~\E f : f = [i \in 0..n |-> Step(s, B, f, i)]}
  <1>1. Len(s) \in Nat OBVIOUS
  <1>2. T = {}
    <2>1. SUFFICES ASSUME T # {} PROVE FALSE OBVIOUS
    <2>2. PICK n \in T : \A m \in T : n <= m BY <2>1, LeastNumber
    <2>3. n \in Nat /\ n <= Len(s) /\ ~\E f : f = [i \in 0..n |-> Step(s, B, f, i)] BY <2>2
    <2>4. CASE n = 0
      <3>1. [i \in 0..0 |-> <<>>] = [i \in 0..0 |-> Step(s, B, [j \in 0..0 |-> <<>>], i)]
        BY DEF Step
      <3>2. QED BY <2>3, <2>4, <3>1
    <2>5. CASE n # 0
      <3>1. n - 1 \in Nat /\ n - 1 <= Len(s) /\ n - 1 \notin T BY <1>1, <2>2, <2>3, <2>5
      <3>2. PICK f : f = [i \in 0..n - 1 |-> Step(s, B, f, i)] BY <3>1
      <3> DEFINE g == [i \in 0..n |-> IF i < n THEN f[i] ELSE Step(s, B, f, n)]
      <3>3. \A i \in 0..n : g[i] = Step(s, B, g, i)
        <4>1. TAKE i \in 0..n
        <4>2. CASE i < n
          <5>1. f[i] = Step(s, B, f, i) BY <2>3, <3>2, <4>2
          <5>2. g[i] = f[i] /\ (i # 0 => g[i - 1] = f[i - 1]) BY <2>3, <4>2
          <5>3. QED BY <5>1, <5>2 DEF Step
        <4>3. CASE i = n
          <5>1. g[n] = Step(s, B, f, n) /\ g[n - 1] = f[n - 1] BY <2>3, <2>5
          <5>2. QED BY <4>3, <5>1 DEF Step
        <4>4. QED BY <2>3, <4>2, <4>3
      <3>4. g = [i \in 0..n |-> Step(s, B, g, i)] BY <3>3
      <3>5. QED BY <2>3, <3>4
    <2>6. QED BY <2>4, <2>5
  <1>3. PICK f : f = [i \in 0..Len(s) |-> Step(s, B, f, i)] BY <1>1, <1>2
  <1> DEFINE F == CHOOSE rest : rest = [i \in 0..Len(s) |-> Step(s, B, rest, i)]
  <1>4. F = [i \in 0..Len(s) |-> Step(s, B, F, i)] BY <1>3
  <1>5. Without(s, B) = F[Len(s)] BY DEF Without, Step
  <1>6. QED BY <1>4, <1>5

\* Without keeps the members that are not in B, once if they were once, and the
\* head if it is one of them.
LEMMA WithoutProperties ==
  ASSUME NEW S, NEW s \in Seq(S), NEW B,
         \A i, j \in 1..Len(s) : s[i] = s[j] => i = j
  PROVE  LET t == Without(s, B)
         IN  /\ t \in Seq(S)
             /\ Members(t) = Members(s) \ B
             /\ \A i, j \in 1..Len(t) : t[i] = t[j] => i = j
             /\ s # <<>> /\ Head(s) \notin B => t # <<>> /\ Head(t) = Head(s)
  <1>1. PICK f : /\ \A i \in 0..Len(s) : f[i] = Step(s, B, f, i)
                 /\ Without(s, B) = f[Len(s)]
    BY WithoutSteps
  <1>2. Len(s) \in Nat /\ \A i \in 1..Len(s) : s[i] \in S OBVIOUS
  <1> DEFINE Good(i) ==
        /\ f[i] \in Seq(S)
        /\ \A k \in 1..Len(f[i]) : \E j \in 1..i : f[i][k] = s[j] /\ s[j] \notin B
        /\ \A j \in 1..i : s[j] \notin B => \E k \in 1..Len(f[i]) : f[i][k] = s[j]
        /\ \A k, j \in 1..Len(f[i]) : f[i][k] = f[i][j] => k = j
        /\ i > 0 /\ s[1] \notin B => Len(f[i]) > 0 /\ f[i][1] = s[1]
  <1> DEFINE T == {i \in 0..Len(s) : ~Good(i)}
  <1>3. Good(0)
    <2>1. f[0] = <<>> BY <1>1, <1>2 DEF Step
    <2>2. <<>> \in Seq(S) /\ Len(<<>>) = 0 OBVIOUS
    <2>3. f[0] \in Seq(S) /\ Len(f[0]) = 0 BY <2>1, <2>2
    <2>4. QED BY <2>3
  <1>4. ASSUME NEW i \in 0..Len(s), i > 0, Good(i - 1)
        PROVE  Good(i)
    <2>1. i \in 1..Len(s) /\ i - 1 \in 0..Len(s) /\ i \in Nat /\ s[i] \in S BY <1>2, <1>4
    <2>2. f[i] = IF s[i] \in B THEN f[i - 1] ELSE Append(f[i - 1], s[i])
      BY <1>1, <2>1 DEF Step
    <2> DEFINE old == f[i - 1]
    <2>3. /\ old \in Seq(S)
          /\ \A k \in 1..Len(old) : \E j \in 1..i - 1 : old[k] = s[j] /\ s[j] \notin B
          /\ \A j \in 1..i - 1 : s[j] \notin B => \E k \in 1..Len(old) : old[k] = s[j]
          /\ \A k, j \in 1..Len(old) : old[k] = old[j] => k = j
          /\ i - 1 > 0 /\ s[1] \notin B => Len(old) > 0 /\ old[1] = s[1]
      BY <1>4
    <2>4. PICK n \in Nat : n = Len(old) BY <2>3
    <2> HIDE DEF old
    <2>5. CASE s[i] \in B
      <3>1. f[i] = old BY <2>2, <2>5 DEF old
      <3>2. \A j \in 1..i : s[j] \notin B => j \in 1..i - 1 BY <2>1, <2>5
      <3>3. \A j \in 1..i - 1 : j \in 1..i BY <2>1
      <3>4. i > 0 /\ s[1] \notin B => i - 1 > 0 BY <2>1, <2>5
      <3>5. QED BY <2>3, <3>1, <3>2, <3>3, <3>4
    <2>6. CASE s[i] \notin B
      <3>1. f[i] = Append(old, s[i]) BY <2>2, <2>6 DEF old
      <3>2. /\ f[i] \in Seq(S) /\ Len(f[i]) = n + 1 /\ f[i][n + 1] = s[i]
            /\ \A k \in 1..n : f[i][k] = old[k]
        BY <2>1, <2>3, <2>4, <3>1
      <3>3. \A k \in 1..n + 1 : k = n + 1 \/ k \in 1..n BY <2>4
      <3>4. \A k \in 1..Len(f[i]) : \E j \in 1..i : f[i][k] = s[j] /\ s[j] \notin B
        <4>1. TAKE k \in 1..Len(f[i])
        <4>2. CASE k = n + 1 BY <2>1, <2>6, <3>2, <4>2
        <4>3. CASE k \in 1..n
          <5>1. PICK j \in 1..i - 1 : old[k] = s[j] /\ s[j] \notin B BY <2>3, <2>4, <4>3
          <5>2. j \in 1..i BY <2>1, <5>1
          <5>3. QED BY <3>2, <4>3, <5>1, <5>2
        <4>4. QED BY <3>2, <3>3, <4>2, <4>3
      <3>5. \A j \in 1..i : s[j] \notin B => \E k \in 1..Len(f[i]) : f[i][k] = s[j]
        <4>1. TAKE j \in 1..i
        <4>2. HAVE s[j] \notin B
        <4>3. CASE j = i BY <2>4, <3>2, <4>3
        <4>4. CASE j # i
          <5>1. j \in 1..i - 1 BY <2>1, <4>4
          <5>2. PICK k \in 1..n : old[k] = s[j] BY <2>3, <2>4, <4>2, <5>1
          <5>3. k \in 1..Len(f[i]) BY <2>4, <3>2, <5>2
          <5>4. QED BY <3>2, <5>2, <5>3
        <4>5. QED BY <4>3, <4>4
      <3>6. \A k, j \in 1..Len(f[i]) : f[i][k] = f[i][j] => k = j
        <4>1. \A k \in 1..n : f[i][k] # s[i]
          <5>1. TAKE k \in 1..n
          <5>2. PICK j \in 1..i - 1 : old[k] = s[j] BY <2>3, <2>4, <5>1
          <5>3. j \in 1..Len(s) /\ j # i BY <1>2, <2>1, <5>2
          <5>4. s[j] # s[i] BY <2>1, <5>3
          <5>5. QED BY <3>2, <5>2, <5>4
        <4>2. TAKE k, j \in 1..Len(f[i])
        <4>3. HAVE f[i][k] = f[i][j]
        <4>4. CASE k \in 1..n /\ j \in 1..n BY <2>3, <2>4, <3>2, <4>3, <4>4
        <4>5. CASE k = n + 1 /\ j \in 1..n BY <3>2, <4>1, <4>3, <4>5
        <4>6. CASE k \in 1..n /\ j = n + 1 BY <3>2, <4>1, <4>3, <4>6
        <4>7. CASE k = n + 1 /\ j = n + 1 BY <4>7
        <4>8. QED BY <3>2, <3>3, <4>4, <4>5, <4>6, <4>7
      <3>7. i > 0 /\ s[1] \notin B => Len(f[i]) > 0 /\ f[i][1] = s[1]
        <4>1. HAVE i > 0 /\ s[1] \notin B
        <4>2. Len(f[i]) > 0 BY <2>4, <3>2
        <4>3. CASE i - 1 > 0
          <5>1. n > 0 /\ old[1] = s[1] BY <2>3, <2>4, <4>1, <4>3
          <5>2. QED BY <2>4, <3>2, <4>2, <5>1
        <4>4. CASE ~(i - 1 > 0)
          <5>1. i = 1 BY <2>1, <4>4
          <5>2. n = 0
            <6>1. SUFFICES ASSUME n # 0 PROVE FALSE OBVIOUS
            <6>2. 1 \in 1..Len(old) BY <2>4, <6>1
            <6>3. \E j \in 1..i - 1 : old[1] = s[j] BY <2>3, <6>2
            <6>4. QED BY <5>1, <6>3
          <5>3. QED BY <3>2, <4>2, <5>1, <5>2
        <4>5. QED BY <4>3, <4>4
      <3>8. QED BY <3>2, <3>4, <3>5, <3>6, <3>7
    <2>7. QED BY <2>5, <2>6
  <1> HIDE DEF Good
  <1>5. T = {}
    <2>1. SUFFICES ASSUME T # {} PROVE FALSE OBVIOUS
    <2>2. T \subseteq Nat BY <1>2
    <2>3. PICK i \in T : \A m \in T : i <= m BY <2>1, <2>2, LeastNumber
    <2>4. i \in 0..Len(s) /\ ~Good(i) /\ i # 0 BY <1>3, <2>3
    <2>5. i - 1 \in 0..Len(s) /\ i > 0 /\ ~(i <= i - 1) BY <1>2, <2>4
    <2>6. Good(i - 1) BY <2>3, <2>5
    <2>7. QED BY <1>4, <2>4, <2>5, <2>6
  <1>6. Good(Len(s)) BY <1>2, <1>5
  <1> DEFINE t == f[Len(s)]
  <1>7. /\ t \in Seq(S)
        /\ \A k \in 1..Len(t) : \E j \in 1..Len(s) : t[k] = s[j] /\ s[j] \notin B
        /\ \A j \in 1..Len(s) : s[j] \notin B => \E k \in 1..Len(t) : t[k] = s[j]
        /\ \A k, j \in 1..Len(t) : t[k] = t[j] => k = j
        /\ Len(s) > 0 /\ s[1] \notin B => Len(t) > 0 /\ t[1] = s[1]
    BY <1>6 DEF Good
  <1>8. Members(t) = Members(s) \ B BY <1>7 DEF Members
  <1>9. s # <<>> /\ Head(s) \notin B => t # <<>> /\ Head(t) = Head(s)
    <2>1. HAVE s # <<>> /\ Head(s) \notin B
    <2>2. Len(s) > 0 /\ s[1] = Head(s) BY <2>1
    <2>3. Len(t) > 0 /\ t[1] = s[1] BY <1>7, <2>1, <2>2
    <2>4. Len(<<>>) = 0 OBVIOUS
    <2>5. t # <<>> BY <2>3, <2>4
    <2>6. QED BY <1>7, <2>2, <2>3, <2>5
  <1>10. QED BY <1>1, <1>7, <1>8, <1>9

-----------------------------------------------------------------------------
(* Types *)

RunStates == {"unused", "held", "running", "stopped", "finished", "reaped"}
Modes == {"new", "body", "release", "unwinding", "cleanup", "over"}
Terminals == [owner : Groups \union {Shell}, modes : Groups \union {Shell}]

\* Operations are records.
LEMMA OperationFields ==
  /\ \A op \in Operation :
       op.kind \in Kinds /\ op.group \in Groups /\ op.started \in BOOLEAN
  /\ \A op \in Operation, x \in BOOLEAN :
       /\ [op EXCEPT !.started = x] \in Operation
       /\ [op EXCEPT !.started = x].kind = op.kind
       /\ [op EXCEPT !.started = x].group = op.group
       /\ [op EXCEPT !.started = x].started = x
  /\ \A kind \in Kinds, g \in Groups :
       /\ NewOperation(kind, g) \in Operation
       /\ NewOperation(kind, g).kind = kind
       /\ NewOperation(kind, g).group = g
       /\ ~NewOperation(kind, g).started
  BY DEF Operation, NewOperation

\* What an operation that exists is.
LEMMA UnsettledTypes ==
  ASSUME TypeOK
  PROVE  /\ \A e \in Evaluations : \A b \in Unsettled(e) :
              b \in Branches /\ ops[e][b] \in Operation /\ ops[e][b] # None /\ ops[e][b] # Settled
         /\ \A e \in Evaluations : \A b \in Deferred(e) :
              b \in Branches /\ (ops[e][b] \in Operation \/ ops[e][b] = Settled)
         /\ \A e \in Evaluations : pending[e] # None => pending[e] \in Operation
         /\ None \notin Operation /\ Settled \notin Operation /\ None # Settled
  BY ValuesDiffer DEF TypeOK, Unsettled, Deferred

\* What signals do to groups, of what is known of them before.
LEMMA RunEffects ==
  ASSUME NEW r \in [Groups -> RunStates], NEW S
  PROVE  /\ Continued(r, S) \in [Groups -> RunStates]
         /\ Stopped(r, S) \in [Groups -> RunStates]
         /\ Ended(r, S) \in [Groups -> RunStates]
         /\ Reaped(r, S) \in [Groups -> RunStates]
  BY DEF Continued, Stopped, Ended, Reaped, RunStates

LEMMA GivenType ==
  ASSUME NEW s \in [Groups -> Groups \union {Shell, None}], NEW t \in Terminals,
         NEW g \in Groups
  PROVE  Given(s, t, g) \in Terminals /\ Given(s, t, g).owner = g
  BY DEF Given, Terminals

\* The last of a chain, and a chain without it.
LEMMA LastProperties ==
  ASSUME NEW S, NEW c \in Seq(S)
  PROVE  /\ c # <<>> => Last(c) \in S /\ Last(c) \in Members(c) /\ Len(c) \in Nat \ {0}
         /\ Members(c) \subseteq S
         /\ c # <<>> => LET r == SubSeq(c, 1, Len(c) - 1)
                        IN  /\ r \in Seq(S) /\ Len(r) = Len(c) - 1
                            /\ \A i \in 1..Len(c) - 1 : r[i] = c[i]
  <1>1. Len(c) \in Nat /\ \A i \in 1..Len(c) : c[i] \in S OBVIOUS
  <1>2. ASSUME c # <<>>
        PROVE  Len(c) \in Nat \ {0}
    BY <1>1, <1>2, EmptySeq
  <1>3. ASSUME c # <<>>
        PROVE  LET r == SubSeq(c, 1, Len(c) - 1)
               IN  /\ r \in Seq(S) /\ Len(r) = Len(c) - 1
                   /\ \A i \in 1..Len(c) - 1 : r[i] = c[i]
    <2>1. PICK n \in Nat \ {0} : n = Len(c) BY <1>2, <1>3
    <2>2. \A i \in 1..n - 1 : c[i] \in S BY <1>1, <2>1
    <2>3. QED BY <2>1, <2>2
  <1>4. QED BY <1>1, <1>2, <1>3 DEF Last, Members

\* The evaluation that a step drives, and what the step may read of it.
LEMMA DrivenTypes ==
  ASSUME TypeOK, NEW e \in Evaluations, Driven(e)
  PROVE  /\ active # <<>> /\ e = Last(active) /\ e \in Members(active)
         /\ Len(active) \in Nat \ {0}
  BY LastProperties DEF TypeOK, Driven

\* The queue without some of its members is a queue.
LEMMA DequeuedTypes ==
  ASSUME TypeOK, QueueInv, NEW e \in Evaluations, NEW B
  PROVE  Dequeued(e, B) \in [Evaluations -> Seq(Branches)]
  <1>1. queue[e] \in Seq(Branches) BY DEF TypeOK
  <1>2. \A i, j \in 1..Len(queue[e]) : queue[e][i] = queue[e][j] => i = j
    BY DEF QueueInv, QueueFits
  <1>3. Without(queue[e], B) \in Seq(Branches) BY <1>1, <1>2, WithoutProperties
  <1>4. QED BY <1>3 DEF TypeOK, Dequeued

LEMMA ClosedTypes ==
  ASSUME TypeOK, QueueInv, NEW e \in Evaluations, NEW B, Closed(e, B)
  PROVE  /\ run' \in [Groups -> RunStates]
         /\ ops' \in [Evaluations -> [Branches -> Operation \union {None, Settled}]]
         /\ queue' \in [Evaluations -> Seq(Branches)]
         /\ tty' \in Terminals
  <1>1. queue' \in [Evaluations -> Seq(Branches)] BY DequeuedTypes DEF Closed
  <1>2. run' \in [Groups -> RunStates]
    <2>1. run \in [Groups -> RunStates] BY DEF TypeOK, RunStates
    <2>2. QED BY <2>1, RunEffects DEF Closed
  <1>3. tty' \in Terminals BY DEF Closed, Restored, Baseline, TypeOK, Terminals
  <1>4. ops' \in [Evaluations -> [Branches -> Operation \union {None, Settled}]]
    BY DEF Closed, TypeOK
  <1>5. QED BY <1>1, <1>2, <1>3, <1>4

\* A resumption gives the terminal to somebody or back to the shell.
LEMMA ResumedTypes ==
  ASSUME TypeOK, NEW e \in Evaluations, NEW r \in [Groups -> RunStates],
         NEW s \in [Groups -> Groups \union {Shell, None}], Resumed(e, r, s)
  PROVE  run' \in [Groups -> RunStates] /\ tty' \in Terminals
  <1> DEFINE given == IF Returning(e) = {} THEN Baseline
                      ELSE Given(s, Baseline, CHOOSE g \in Returning(e) : TRUE)
  <1>1. Baseline \in Terminals BY DEF Baseline, Terminals
  <1>2. Returning(e) \subseteq Groups
    BY UnsettledTypes, OperationFields DEF Returning, Attached, AttachedControls
  <1>3. given \in Terminals BY <1>1, <1>2, GivenType
  <1>4. pending[e] # None => pending[e].group \in Groups BY UnsettledTypes, OperationFields
  <1>5. CASE Resumable(e)
    <2>1. /\ \E S : run' = Continued(r, S)
          /\ tty' = given \/ (pending[e] # None /\ tty' = Given(s, given, pending[e].group))
      BY <1>5 DEF Resumed
    <2>2. QED BY <1>3, <1>4, <2>1, RunEffects, GivenType
  <1>6. CASE ~Resumable(e)
    <2>1. /\ \E S : run' = Ended(Continued(r, S), Held(e))
          /\ tty' = Baseline
      BY <1>6 DEF Resumed
    <2>2. QED BY <1>1, <2>1, RunEffects
  <1>7. QED BY <1>5, <1>6

\* Every step keeps the types.
LEMMA TypesStep ==
  ASSUME TypeOK, QueueInv, ChainInv, [Next]_vars
  PROVE  TypeOK'
  <1> USE DEF Modes, RunStates, Terminals, program, session
  <1>0. /\ run \in [Groups -> RunStates] /\ tty \in Terminals
        /\ Baseline \in Terminals
        /\ saved \in [Groups -> Groups \union {Shell, None}]
    BY DEF TypeOK, Baseline
  <1>1. ASSUME NEW e \in Evaluations, Evaluate(e)
        PROVE  TypeOK'
    BY <1>1 DEF TypeOK, Evaluate
  <1>2. ASSUME NEW e \in Evaluations, Program(e)
        PROVE  TypeOK'
    <2>1. ASSUME NEW g \in Groups, Start(e, g)
          PROVE  TypeOK'
      BY <2>1 DEF TypeOK, Start
    <2>2. ASSUME NEW b \in Branches, NEW kind \in Callbacks, NEW g \in Groups,
                 Defer(e, b, kind, g)
          PROVE  TypeOK'
      <3>1. NewOperation(kind, g) \in Operation BY KindsKnown, OperationFields DEF Kinds
      <3>2. queue' \in [Evaluations -> Seq(Branches)] BY <2>2 DEF Defer, TypeOK
      <3>3. ops' \in [Evaluations -> [Branches -> Operation \union {None, Settled}]]
        BY <2>2, <3>1 DEF Defer, TypeOK
      <3>4. run' \in [Groups -> RunStates] BY <1>0, <2>2 DEF Defer
      <3>5. QED BY <2>2, <3>2, <3>3, <3>4 DEF TypeOK, Defer
    <2>3. ASSUME NEW kind, NEW g \in Groups, ControlNow(e, kind, g)
          PROVE  TypeOK'
      <3>1. run' \in [Groups -> RunStates] BY <1>0, <2>3, RunEffects DEF ControlNow
      <3>2. QED BY <2>3, <3>1 DEF TypeOK, ControlNow
    <2>4. ASSUME NEW kind \in {"fg", "wait"}, NEW g \in Groups, Control(e, kind, g)
          PROVE  TypeOK'
      <3>1. [NewOperation(kind, g) EXCEPT !.started = TRUE] \in Operation
        BY OperationFields DEF Kinds
      <3>2. run' \in [Groups -> RunStates] /\ tty' \in Terminals
        BY <1>0, <2>4, RunEffects, GivenType DEF Control
      <3>3. pending' \in [Evaluations -> Operation \union {None}]
        BY <2>4, <3>1 DEF Control, TypeOK
      <3>4. QED BY <2>4, <3>2, <3>3 DEF TypeOK, Control
    <2>5. ASSUME NEW kind \in {"run", "capture"}, NEW g \in Groups, Run(e, kind, g)
          PROVE  TypeOK'
      <3>1. [NewOperation(kind, g) EXCEPT !.started = TRUE] \in Operation
        BY OperationFields DEF Kinds
      <3>2. run' \in [Groups -> RunStates] /\ tty' \in Terminals BY <1>0, <2>5 DEF Run
      <3>3. pending' \in [Evaluations -> Operation \union {None}]
        BY <2>5, <3>1 DEF Run, TypeOK
      <3>4. QED BY <2>5, <3>2, <3>3 DEF TypeOK, Run
    <2>6. ASSUME Snapshots(e)
          PROVE  TypeOK'
      <3>1. run' \in [Groups -> RunStates] BY <1>0, <2>6, RunEffects DEF Snapshots
      <3>2. QED BY <2>6, <3>1 DEF TypeOK, Snapshots
    <2>7. ASSUME Release(e)
          PROVE  TypeOK'
      BY <2>7 DEF TypeOK, Release
    <2>8. ASSUME NEW B \in SUBSET Branches, Close(e, B)
          PROVE  TypeOK'
      <3>1. Closed(e, B) BY <2>8 DEF Close
      <3>2. QED BY <2>8, <3>1, ClosedTypes DEF TypeOK, Close
    <2>9. ASSUME NEW c \in parked, Foregrounds(e, c)
          PROVE  TypeOK'
      <3>1. c \in Seq(Evaluations) /\ Last(c) \in Evaluations
        BY LastProperties DEF TypeOK, ChainInv
      <3>2. saved' \in [Groups -> Groups \union {Shell, None}]
        BY <1>0, <2>9 DEF Foregrounds
      <3>3. Resumed(Last(c), Stopped(run, Frozen(e)), saved') BY <2>9 DEF Foregrounds
      <3>4. run' \in [Groups -> RunStates] /\ tty' \in Terminals
        BY <1>0, <3>1, <3>2, <3>3, RunEffects, ResumedTypes
      <3>5. mode' \in [Evaluations -> Modes] BY <2>9 DEF Foregrounds, Continues, TypeOK
      <3>6. pending' \in [Evaluations -> Operation \union {None}]
        BY <2>9 DEF Foregrounds, TypeOK
      <3>7. active' \in Seq(Evaluations) /\ parked' \subseteq Seq(Evaluations)
        BY <2>9, <3>1 DEF Foregrounds, TypeOK
      <3>8. QED BY <2>9, <3>2, <3>4, <3>5, <3>6, <3>7 DEF TypeOK, Foregrounds
    <2>10. ASSUME NEW c \in parked, Cancels(e, c)
           PROVE  TypeOK'
      <3>1. c \in Seq(Evaluations) /\ Members(c) \subseteq Evaluations
        BY LastProperties DEF TypeOK
      <3>2. saved' \in [Groups -> Groups \union {Shell, None}] BY <1>0, <2>10 DEF Cancels
      <3>3. run' \in [Groups -> RunStates] BY <1>0, <2>10, RunEffects DEF Cancels, Doom
      <3>4. /\ pending' \in [Evaluations -> Operation \union {None}]
            /\ mode' \in [Evaluations -> Modes]
            /\ doomed' \subseteq Evaluations /\ parked' \subseteq Seq(Evaluations)
        BY <2>10, <3>1 DEF Cancels, Doom, TypeOK
      <3>5. active' \in Seq(Evaluations) BY <2>10, <3>1 DEF Cancels, TypeOK
      <3>6. tty' \in Terminals BY <1>0, <2>10 DEF Cancels
      <3>7. QED BY <2>10, <3>2, <3>3, <3>4, <3>5, <3>6 DEF TypeOK, Cancels
    <2>11. ASSUME NEW force \in BOOLEAN, Exit(e, force)
           PROVE  TypeOK'
      <3>1. run' \in [Groups -> RunStates] BY <1>0, <2>11, RunEffects DEF Exit
      <3>2. QED BY <2>11, <3>1 DEF TypeOK, Exit
    <2>12. QED
      BY <1>2, <2>1, <2>2, <2>3, <2>4, <2>5, <2>6, <2>7, <2>8, <2>9, <2>10, <2>11 DEF Program
  <1>3. ASSUME NEW e \in Evaluations, Coordinator(e)
        PROVE  TypeOK'
    <2>1. ASSUME NEW b \in Branches, Advance(e, b)
          PROVE  TypeOK'
      <3>1. ops[e][b] \in Operation /\ ops[e][b].group \in Groups
        BY <2>1, UnsettledTypes, OperationFields DEF Advance
      <3>2. ops' \in [Evaluations -> [Branches -> Operation \union {None, Settled}]]
        <4>1. [ops[e][b] EXCEPT !.started = TRUE] \in Operation BY <3>1, OperationFields
        <4>2. QED BY <2>1, <4>1 DEF Advance, TypeOK
      <3>3. run' \in [Groups -> RunStates] BY <1>0, <2>1, <3>1, RunEffects DEF Advance
      <3>4. tty' \in Terminals BY <1>0, <2>1, <3>1, GivenType DEF Advance
      <3>5. QED BY <2>1, <3>2, <3>3, <3>4 DEF TypeOK, Advance
    <2>2. ASSUME NEW b \in Branches, Collect(e, b)
          PROVE  TypeOK'
      BY <2>2 DEF TypeOK, Collect
    <2>3. ASSUME NEW b \in Branches, NEW asked \in BOOLEAN, NEW interrupted \in BOOLEAN,
                 Complete(e, b, asked, interrupted)
          PROVE  TypeOK'
      <3>1. queue' \in [Evaluations -> Seq(Branches)] BY <2>3, DequeuedTypes DEF Complete
      <3>2. run' \in [Groups -> RunStates] BY <1>0, <2>3, RunEffects DEF Complete
      <3>3. tty' \in Terminals BY <1>0, <2>3 DEF Complete, Restored
      <3>4. ops' \in [Evaluations -> [Branches -> Operation \union {None, Settled}]]
        BY <2>3 DEF Complete, TypeOK
      <3>5. mode' \in [Evaluations -> Modes] BY <2>3 DEF Complete, TypeOK
      <3>6. events' \in 0..MaxEvents BY <2>3, EventBound DEF Complete, TypeOK
      <3>7. QED BY <2>3, <3>1, <3>2, <3>3, <3>4, <3>5, <3>6 DEF TypeOK, Complete
    <2>4. ASSUME NEW interrupted \in BOOLEAN, Returns(e, interrupted)
          PROVE  TypeOK'
      <3>1. run' \in [Groups -> RunStates] BY <1>0, <2>4, RunEffects DEF Returns
      <3>2. tty' \in Terminals BY <1>0, <2>4 DEF Returns
      <3>3. mode' \in [Evaluations -> Modes] BY <2>4 DEF Returns, TypeOK
      <3>4. events' \in 0..MaxEvents BY <2>4, EventBound DEF Returns, TypeOK
      <3>5. QED BY <2>4, <3>1, <3>2, <3>3, <3>4 DEF TypeOK, Returns
    <2>5. ASSUME Reissue(e)
          PROVE  TypeOK'
      <3>1. pending[e] \in Operation /\ pending[e].group \in Groups
        BY <2>5, UnsettledTypes, OperationFields DEF Reissue
      <3>2. [pending[e] EXCEPT !.started = TRUE] \in Operation BY <3>1, OperationFields
      <3>3. pending' \in [Evaluations -> Operation \union {None}]
        BY <2>5, <3>2 DEF Reissue, TypeOK
      <3>4. run' \in [Groups -> RunStates] /\ tty' \in Terminals
        BY <1>0, <2>5, <3>1, RunEffects, GivenType DEF Reissue
      <3>5. QED BY <2>5, <3>3, <3>4 DEF TypeOK, Reissue
    <2>6. ASSUME Unwind(e)
          PROVE  TypeOK'
      <3>1. Closed(e, Deferred(e)) BY <2>6 DEF Unwind
      <3>2. QED BY <2>6, <3>1, ClosedTypes DEF TypeOK, Unwind
    <2>7. ASSUME Finish(e)
          PROVE  TypeOK'
      <3> DEFINE closed == Ended(run, {ops[e][b].group : b \in Attached(e)})
                 rest == SubSeq(active, 1, Len(active) - 1)
      <3>1. rest \in Seq(Evaluations) /\ (rest # <<>> => Last(rest) \in Evaluations)
        <4>1. active \in Seq(Evaluations) /\ active # <<>> BY <2>7 DEF TypeOK, Finish, Driven
        <4>2. rest \in Seq(Evaluations) BY <4>1, LastProperties
        <4>3. QED BY <4>2, LastProperties
      <3>2. closed \in [Groups -> RunStates] BY <1>0, RunEffects
      <3>3. run' \in [Groups -> RunStates] /\ tty' \in Terminals
        <4>1. \/ run' = closed /\ tty' = Baseline
              \/ rest # <<>> /\ Resumed(Last(rest), closed, saved)
          BY <2>7 DEF Finish
        <4>2. QED BY <1>0, <3>1, <3>2, <4>1, ResumedTypes
      <3>4. mode' \in [Evaluations -> Modes]
        <4> DEFINE over == [mode EXCEPT ![e] = "over"]
        <4>1. over \in [Evaluations -> Modes] BY DEF TypeOK
        <4>2. mode' = over \/ \E m \in {"body", "unwinding"} : mode' = [over EXCEPT ![Last(rest)] = m]
          BY <2>7 DEF Finish, Continues
        <4> HIDE DEF over
        <4>3. QED BY <4>1, <4>2
      <3>5. /\ active' = rest
            /\ ops' = [ops EXCEPT ![e] = [b \in Branches |-> None]]
            /\ queue' = [queue EXCEPT ![e] = <<>>]
            /\ UNCHANGED <<table, saved, pending, parked, doomed, leaving, events>>
        BY <2>7 DEF Finish
      <3>6. QED BY <3>1, <3>3, <3>4, <3>5 DEF TypeOK
    <2>8. QED BY <1>3, <2>1, <2>2, <2>3, <2>4, <2>5, <2>6, <2>7 DEF Coordinator
  <1>4. ASSUME NEW e \in Evaluations, Interrupt(e)
        PROVE  TypeOK'
    <2>1. run' \in [Groups -> RunStates] /\ tty' \in Terminals
      BY <1>0, <1>4, RunEffects DEF Interrupt
    <2>2. events' \in 0..MaxEvents BY <1>4, EventBound DEF Interrupt, TypeOK
    <2>3. QED BY <1>4, <2>1, <2>2 DEF TypeOK, Interrupt
  <1>5. ASSUME NEW e \in Evaluations, Park(e)
        PROVE  TypeOK'
    <2>1. /\ run' \in [Groups -> RunStates]
          /\ saved' \in [Groups -> Groups \union {Shell, None}]
          /\ tty' \in Terminals
      BY <1>0, <1>5, RunEffects DEF Park, FreezeActive
    <2>2. events' \in 0..MaxEvents BY <1>5, EventBound DEF Park, TypeOK
    <2>3. pending' \in [Evaluations -> Operation \union {None}]
      <3>1. pending[e] # None => [pending[e] EXCEPT !.started = FALSE] \in Operation
        BY UnsettledTypes, OperationFields
      <3>2. QED BY <1>5, <3>1 DEF Park, TypeOK
    <2>4. QED BY <1>5, <2>1, <2>2, <2>3 DEF TypeOK, Park
  <1>6. ASSUME NEW c \in parked, ShutdownEvaluation(c)
        PROVE  TypeOK'
    <2>1. c \in Seq(Evaluations) /\ Members(c) \subseteq Evaluations
      BY LastProperties DEF TypeOK
    <2>2. run' \in [Groups -> RunStates] BY <1>0, <1>6, RunEffects DEF ShutdownEvaluation, Doom
    <2>3. QED BY <1>6, <2>1, <2>2 DEF TypeOK, ShutdownEvaluation, Doom
  <1>7. CASE Leave BY <1>7 DEF TypeOK, Leave
  <1>8. CASE ShutdownJobs
    <2>1. run' \in [Groups -> RunStates] BY <1>0, <1>8, RunEffects DEF ShutdownJobs
    <2>2. QED BY <1>0, <1>8, <2>1 DEF TypeOK, ShutdownJobs
  <1>9. ASSUME NEW g \in Groups, Notify(g) \/ GroupEnds(g) \/ GroupStops(g) \/ GroupSetsModes(g)
        PROVE  TypeOK'
    <2>1. CASE Notify(g)
      <3>1. run' \in [Groups -> RunStates] BY <1>0, <2>1, RunEffects DEF Notify
      <3>2. QED BY <2>1, <3>1 DEF TypeOK, Notify
    <2>2. CASE GroupEnds(g) BY <2>2, EventBound DEF TypeOK, GroupEnds
    <2>3. CASE GroupStops(g) BY <2>3, EventBound DEF TypeOK, GroupStops
    <2>4. CASE GroupSetsModes(g) BY <2>4 DEF TypeOK, GroupSetsModes
    <2>5. QED BY <1>9, <2>1, <2>2, <2>3, <2>4
  <1>10. CASE UNCHANGED vars BY <1>10 DEF TypeOK, vars
  <1>11. QED
    BY <1>1, <1>2, <1>3, <1>4, <1>5, <1>6, <1>7, <1>8, <1>9, <1>10 DEF Next, Over

-----------------------------------------------------------------------------
(* Chains *)

\* The driven evaluation is the last of the active chain and nowhere else.
LEMMA DrivenAlone ==
  ASSUME TypeOK, ChainInv, NEW e \in Evaluations, Driven(e)
  PROVE  /\ \A c \in Chains : \A i \in 1..Len(c) : c[i] = e => c = active /\ i = Len(active)
         /\ active # <<>> /\ e = active[Len(active)] /\ Len(active) \in Nat \ {0}
         /\ mode[e] \in Begun /\ leaving # "gone"
         /\ \A d \in Evaluations : Driven(d) => d = e
  <1>1. /\ active # <<>> /\ e = active[Len(active)] /\ Len(active) \in Nat \ {0}
        /\ e \in Members(active)
    BY DrivenTypes DEF Last
  <1>2. active \in Chains /\ Len(active) \in 1..Len(active) BY <1>1 DEF Chains
  <1>3. \A c \in Chains : \A i \in 1..Len(c) : c[i] = e => c = active /\ i = Len(active)
    BY <1>1, <1>2 DEF ChainInv
  <1>4. mode[e] \in Begun BY <1>1, <1>2 DEF ChainInv, Chained
  <1>5. leaving # "gone" BY <1>1 DEF ChainInv
  <1>6. QED BY <1>1, <1>3, <1>4, <1>5 DEF Driven

\* The suspended evaluations are those that are in a chain and not driven.
LEMMA SuspendedMembers ==
  TypeOK /\ ChainInv => Suspended = {d \in Evaluations : Chained(d) /\ ~Driven(d)}
  <1> SUFFICES ASSUME TypeOK, ChainInv
               PROVE  Suspended = {d \in Evaluations : Chained(d) /\ ~Driven(d)}
    OBVIOUS
  <1>1. \A c \in Chains : Members(c) \subseteq Evaluations
    BY LastProperties DEF Chains, TypeOK
  <1>2. ASSUME NEW c \in parked, NEW d \in Members(c)
        PROVE  ~Driven(d)
    <2>1. SUFFICES ASSUME Driven(d) PROVE FALSE OBVIOUS
    <2>2. d \in Evaluations /\ c \in Chains BY <1>1 DEF Chains
    <2>3. PICK i \in 1..Len(c) : c[i] = d BY DEF Members
    <2>4. c = active BY <2>1, <2>2, <2>3, DrivenAlone
    <2>5. QED BY <2>4 DEF ChainInv
  <1>3. QED BY <1>1, <1>2 DEF Suspended, Chained, Chains

\* A step of the driven evaluation that stays driven.
Local(e) ==
  /\ Driven(e) /\ UNCHANGED <<active, parked>> /\ leaving' \in {leaving, "exit"}
  /\ mode'[e] \in Begun
  /\ pending'[e] # None /\ OwnsGroup(pending'[e]) => pending'[e].started
  /\ \A d \in Evaluations \ {e} :
       /\ mode'[d] = mode[d] /\ pending'[d] = pending[d]
       /\ ops'[d] = ops[d] /\ queue'[d] = queue[d]

\* A step of the session or of a group, that no evaluation notices.
Quiet == UNCHANGED <<ops, queue, pending, mode, active, parked>>

\* Every step of a program that is no call of another evaluation is local ...
LEMMA ProgramIsLocal ==
  ASSUME TypeOK, ChainInv, RestInv, NEW e \in Evaluations, Program(e),
         ~\E c \in parked : Foregrounds(e, c) \/ Cancels(e, c)
  PROVE  Local(e)
  <1> USE DEF program, session
  <1>1. Driven(e) BY DEF Program, Start, Defer, ControlNow, Control, Run, Snapshots, Release,
                         Close, Exit, Stepping
  <1>2. mode[e] \in Begun BY <1>1, DrivenAlone
  <1>3. pending[e] # None /\ OwnsGroup(pending[e]) => pending[e].started BY DEF RestInv, Begins
  <1>4. ASSUME NEW g \in Groups, Start(e, g)
        PROVE  Local(e)
    BY <1>1, <1>2, <1>3, <1>4 DEF Start, Local
  <1>5. ASSUME NEW b \in Branches, NEW kind, NEW g \in Groups, Defer(e, b, kind, g)
        PROVE  Local(e)
    BY <1>1, <1>2, <1>3, <1>5 DEF Defer, Local, TypeOK
  <1>6. ASSUME NEW kind, NEW g \in Groups, ControlNow(e, kind, g)
        PROVE  Local(e)
    BY <1>1, <1>2, <1>3, <1>6 DEF ControlNow, Local
  <1>7. ASSUME NEW kind \in {"fg", "wait"}, NEW g \in Groups, Control(e, kind, g)
        PROVE  Local(e)
    <2>1. [NewOperation(kind, g) EXCEPT !.started = TRUE].started
      BY DEF NewOperation
    <2>2. QED BY <1>1, <1>2, <1>7, <2>1 DEF Control, Local, TypeOK
  <1>8. ASSUME NEW kind \in {"run", "capture"}, NEW g \in Groups, Run(e, kind, g)
        PROVE  Local(e)
    <2>1. [NewOperation(kind, g) EXCEPT !.started = TRUE].started
      BY DEF NewOperation
    <2>2. QED BY <1>1, <1>2, <1>8, <2>1 DEF Run, Local, TypeOK
  <1>9. CASE Snapshots(e) BY <1>1, <1>2, <1>3, <1>9 DEF Snapshots, Local
  <1>10. CASE Release(e) BY <1>1, <1>2, <1>3, <1>10 DEF Release, Local, TypeOK, Begun
  <1>11. ASSUME NEW B, Close(e, B)
         PROVE  Local(e)
    BY <1>1, <1>2, <1>3, <1>11 DEF Close, Closed, Dequeued, Local, TypeOK
  <1>12. ASSUME NEW force, Exit(e, force)
         PROVE  Local(e)
    BY <1>1, <1>2, <1>3, <1>12 DEF Exit, Local, TypeOK, Begun
  <1>13. QED
    BY <1>4, <1>5, <1>6, <1>7, <1>8, <1>9, <1>10, <1>11, <1>12 DEF Program

\* ... and every step that the coordinator makes for it but the last one.
LEMMA CoordinatorIsLocal ==
  ASSUME TypeOK, ChainInv, RestInv, NEW e \in Evaluations,
         (Coordinator(e) /\ ~Finish(e)) \/ Interrupt(e)
  PROVE  Local(e)
  <1> USE DEF program, session
  <1>1. Driven(e)
    BY DEF Coordinator, Advance, Collect, Complete, Returns, Reissue, Unwind, Interrupt, Stepping
  <1>2. mode[e] \in Begun BY <1>1, DrivenAlone
  <1>3. pending[e] # None /\ OwnsGroup(pending[e]) => pending[e].started BY DEF RestInv, Begins
  <1>4. ASSUME NEW b \in Branches, Advance(e, b)
        PROVE  Local(e)
    BY <1>1, <1>2, <1>3, <1>4 DEF Advance, Local, TypeOK
  <1>5. ASSUME NEW b \in Branches, Collect(e, b)
        PROVE  Local(e)
    BY <1>1, <1>2, <1>3, <1>5 DEF Collect, Local, TypeOK
  <1>6. ASSUME NEW b \in Branches, NEW asked, NEW interrupted \in BOOLEAN,
               Complete(e, b, asked, interrupted)
        PROVE  Local(e)
    BY <1>1, <1>2, <1>3, <1>6 DEF Complete, Dequeued, Local, TypeOK, Begun
  <1>7. ASSUME NEW interrupted \in BOOLEAN, Returns(e, interrupted)
        PROVE  Local(e)
    BY <1>1, <1>2, <1>7 DEF Returns, Local, TypeOK, Begun
  <1>8. CASE Reissue(e)
    <2>1. pending[e] \in Operation BY <1>8, UnsettledTypes DEF Reissue
    <2>2. \/ pending' = [pending EXCEPT ![e] = None]
          \/ pending' = [pending EXCEPT ![e].started = TRUE]
      BY <1>8 DEF Reissue
    <2>3. [pending[e] EXCEPT !.started = TRUE].started BY <2>1, OperationFields
    <2>4. pending'[e] = None \/ pending'[e].started BY <2>2, <2>3 DEF TypeOK
    <2>5. QED BY <1>1, <1>2, <1>8, <2>4 DEF Reissue, Local, TypeOK
  <1>9. CASE Unwind(e)
    BY <1>1, <1>3, <1>9 DEF Unwind, Closed, Dequeued, Local, TypeOK, Begun
  <1>10. CASE Interrupt(e) BY <1>1, <1>10 DEF Interrupt, Local, TypeOK, Begun
  <1>11. QED BY <1>4, <1>5, <1>6, <1>7, <1>8, <1>9, <1>10 DEF Coordinator

\* What a step can be, for the chains.
LEMMA StepKinds ==
  ASSUME TypeOK, ChainInv, RestInv, [Next]_vars
  PROVE  \/ \E e \in Evaluations :
              \/ Evaluate(e) \/ Park(e) \/ Finish(e) \/ Local(e)
              \/ \E c \in parked : Foregrounds(e, c) \/ Cancels(e, c)
         \/ \E c \in parked : ShutdownEvaluation(c)
         \/ Quiet /\ (leaving' \in {leaving, "exit"} \/ ShutdownJobs)
  <1>1. ASSUME Leave \/ ShutdownJobs \/ Over \/ UNCHANGED vars
                 \/ \E g \in Groups : Notify(g) \/ GroupEnds(g) \/ GroupStops(g) \/ GroupSetsModes(g)
        PROVE  Quiet /\ (leaving' \in {leaving, "exit"} \/ ShutdownJobs)
    BY <1>1 DEF Quiet, Leave, ShutdownJobs, Over, Notify, GroupEnds, GroupStops, GroupSetsModes,
                program, session, vars
  <1>2. QED BY <1>1, ProgramIsLocal, CoordinatorIsLocal DEF Next

Disjoint(C) ==
  \A c, d \in C : \A i \in 1..Len(c), j \in 1..Len(d) : c[i] = d[j] => c = d /\ i = j

\* A parked chain is put behind the active one.
LEMMA JoinedChains ==
  ASSUME TypeOK, ChainInv, NEW c \in parked, active' = active \o c, parked' = parked \ {c}
  PROVE  /\ active' # <<>> /\ <<>> \notin parked' /\ active' \notin parked'
         /\ Disjoint(Chains')
         /\ \A d : Chained(d)' <=> Chained(d)
         /\ \A d : Driven(d)' <=> d = Last(c)
         /\ Last(c) \in Suspended
         /\ \A x \in Chains' : \A i \in 1..Len(x) - 1 :
              \/ active # <<>> /\ x[i] = Last(active)
              \/ \E y \in Chains : \E j \in 1..Len(y) - 1 : x[i] = y[j]
  <1>1. PICK m \in Nat : m = Len(active) BY DEF TypeOK
  <1>2. c \in Seq(Evaluations) /\ active \in Seq(Evaluations) /\ c # <<>> BY DEF TypeOK, ChainInv
  <1>3. PICK n \in Nat \ {0} : n = Len(c) BY <1>2, LastProperties
  <1>4. /\ active' \in Seq(Evaluations) /\ Len(active') = m + n
        /\ \A i \in 1..m : active'[i] = active[i]
        /\ \A i \in 1..n : active'[m + i] = c[i]
    <2>1. \A i \in 1..m + n : active'[i] = IF i <= m THEN active[i] ELSE c[i - m]
      BY <1>1, <1>2, <1>3, ConcatProperties
    <2>2. \A i \in 1..n : m + i \in 1..m + n /\ ~(m + i <= m) /\ (m + i) - m = i
      BY <1>1, <1>3
    <2>3. \A i \in 1..m : i \in 1..m + n /\ i <= m BY <1>1, <1>3
    <2>4. \A i \in 1..n : active'[m + i] = c[i] BY <2>1, <2>2
    <2>5. \A i \in 1..m : active'[i] = active[i] BY <2>1, <2>3
    <2>6. QED BY <1>1, <1>2, <1>3, <2>4, <2>5, ConcatProperties
  <1>5. \A i \in 1..m + n : i \in 1..m \/ \E k \in 1..n : i = m + k
    <2>1. TAKE i \in 1..m + n
    <2>2. CASE i <= m BY <2>2
    <2>3. CASE ~(i <= m)
      <3>1. i - m \in 1..n /\ i = m + (i - m) BY <1>1, <1>3, <2>3
      <3>2. QED BY <3>1
    <2>4. QED BY <2>2, <2>3
  <1>6. Chains' = (parked \ {c}) \union {active'} /\ c \in Chains /\ active \in Chains
    BY DEF Chains
  <1>7. Disjoint(Chains) BY DEF ChainInv, Disjoint
  <1>8. c # active BY DEF ChainInv
  <1>9. active' # <<>>
    <2>1. Len(<<>>) = 0 OBVIOUS
    <2>2. Len(active') # 0 BY <1>1, <1>3, <1>4
    <2>3. QED BY <2>1, <2>2
  \* Whoever is in the joined chain is nowhere else.
  <1>10. ASSUME NEW d \in parked \ {c}, NEW i \in 1..m + n, NEW j \in 1..Len(d)
         PROVE  active'[i] # d[j]
    <2>0. d \in Chains /\ d # c /\ d # active BY DEF Chains, ChainInv
    <2>1. CASE i \in 1..m BY <1>1, <1>4, <1>6, <1>7, <2>0, <2>1 DEF Disjoint
    <2>2. ASSUME NEW k \in 1..n, i = m + k
          PROVE  active'[i] # d[j]
      BY <1>3, <1>4, <1>6, <1>7, <2>0, <2>2 DEF Disjoint
    <2>3. QED BY <1>5, <2>1, <2>2
  <1>11. ASSUME NEW i \in 1..m + n, NEW j \in 1..m + n, active'[i] = active'[j]
         PROVE  i = j
    <2>1. \A k \in 1..m, l \in 1..n : active[k] # c[l]
      BY <1>1, <1>3, <1>6, <1>7, <1>8 DEF Disjoint
    <2>2. \A k, l \in 1..m : active[k] = active[l] => k = l BY <1>1, <1>6, <1>7 DEF Disjoint
    <2>3. \A k, l \in 1..n : c[k] = c[l] => k = l BY <1>3, <1>6, <1>7 DEF Disjoint
    <2>4. CASE i \in 1..m /\ j \in 1..m BY <1>4, <1>11, <2>2, <2>4
    <2>5. ASSUME NEW l \in 1..n, j = m + l, i \in 1..m
          PROVE  FALSE
      BY <1>4, <1>11, <2>1, <2>5
    <2>6. ASSUME NEW k \in 1..n, i = m + k, j \in 1..m
          PROVE  FALSE
      BY <1>4, <1>11, <2>1, <2>6
    <2>7. ASSUME NEW k \in 1..n, NEW l \in 1..n, i = m + k, j = m + l
          PROVE  i = j
      <3>1. active'[i] = c[k] /\ active'[j] = c[l] BY <1>4, <2>7
      <3>2. c[k] = c[l] BY <1>11, <3>1
      <3>3. k = l BY <2>3, <3>2
      <3>4. QED BY <2>7, <3>3
    <2>8. QED BY <1>5, <2>4, <2>5, <2>6, <2>7
  <1>12. Disjoint(Chains')
    <2>1. SUFFICES ASSUME NEW x \in Chains', NEW y \in Chains', NEW i \in 1..Len(x),
                          NEW j \in 1..Len(y), x[i] = y[j]
                   PROVE  x = y /\ i = j
      BY DEF Disjoint
    <2>2. CASE x = active' /\ y = active' BY <1>4, <1>11, <2>1, <2>2
    <2>3. CASE x = active' /\ y \in parked \ {c} BY <1>4, <1>10, <2>1, <2>3
    <2>4. CASE x \in parked \ {c} /\ y = active' BY <1>4, <1>10, <2>1, <2>4
    <2>5. CASE x \in parked /\ y \in parked BY <1>7, <2>1, <2>5 DEF Disjoint, Chains
    <2>6. QED BY <1>6, <2>2, <2>3, <2>4, <2>5
  <1>13. active' \notin parked'
    <2>1. SUFFICES ASSUME active' \in parked \ {c} PROVE FALSE OBVIOUS
    <2>2. 1 \in 1..m + n BY <1>1, <1>3
    <2>3. PICK d \in parked \ {c} : d = active' BY <2>1
    <2>4. 1 \in 1..Len(d) /\ active'[1] = d[1] BY <1>4, <2>2, <2>3
    <2>5. QED BY <1>10, <2>2, <2>3, <2>4
  <1>14. Members(active') = Members(active) \union Members(c)
    <2>1. ASSUME NEW i \in 1..m + n
          PROVE  active'[i] \in Members(active) \union Members(c)
      <3>1. CASE i \in 1..m
        <4>1. active'[i] = active[i] BY <1>4, <3>1
        <4>2. i \in 1..Len(active) BY <1>1, <1>3, <3>1
        <4>3. QED BY <4>1, <4>2 DEF Members
      <3>2. CASE i \notin 1..m
        <4>1. PICK k \in 1..n : i = m + k BY <1>5, <3>2
        <4>2. active'[i] = c[k] BY <1>4, <4>1
        <4>3. k \in 1..Len(c) BY <1>1, <1>3
        <4>4. QED BY <4>2, <4>3 DEF Members
      <3>3. QED BY <3>1, <3>2
    <2>2. \A i \in 1..m : active[i] \in Members(active')
      <3>1. \A i \in 1..m : i \in 1..Len(active') BY <1>1, <1>3, <1>4
      <3>2. QED BY <1>4, <3>1 DEF Members
    <2>3. \A i \in 1..n : c[i] \in Members(active')
      <3>1. \A i \in 1..n : m + i \in 1..Len(active') BY <1>1, <1>3, <1>4
      <3>2. QED BY <1>4, <3>1 DEF Members
    <2>4. \A x : x \in Members(active') => \E i \in 1..m + n : x = active'[i]
      BY <1>4 DEF Members
    <2>5. \A x : x \in Members(active) => \E i \in 1..m : x = active[i] BY <1>1 DEF Members
    <2>6. \A x : x \in Members(c) => \E i \in 1..n : x = c[i] BY <1>3 DEF Members
    <2>7. ASSUME NEW x, x \in Members(active')
          PROVE  x \in Members(active) \/ x \in Members(c)
      <3>1. PICK i \in 1..m + n : x = active'[i] BY <2>4, <2>7
      <3>2. active'[i] \in Members(active) \union Members(c) BY <2>1, Zenon
      <3>3. QED BY <3>1, <3>2
    <2>8. \A x : x \in Members(active) => x \in Members(active') BY <2>2, <2>5
    <2>9. \A x : x \in Members(c) => x \in Members(active') BY <2>3, <2>6
    <2>10. QED BY <2>7, <2>8, <2>9
  <1>15. \A d : Chained(d)' <=> Chained(d)
    <2>1. \A d : Chained(d)' <=> (\E x \in parked \ {c} : d \in Members(x)) \/ d \in Members(active')
      BY <1>6 DEF Chained
    <2>2. \A d : Chained(d) <=> (\E x \in parked : d \in Members(x)) \/ d \in Members(active)
      BY DEF Chained, Chains
    <2>3. QED BY <1>14, <2>1, <2>2
  <1>16. Last(active') = Last(c) /\ Last(c) = c[n]
    <2>1. n \in 1..n BY <1>3
    <2>2. QED BY <1>3, <1>4, <2>1 DEF Last
  <1>17. \A d : Driven(d)' <=> d = Last(c) BY <1>9, <1>16 DEF Driven
  <1>18. Last(c) \in Suspended
    <2>1. Last(c) \in Members(c) /\ Last(c) \in Evaluations BY <1>2, LastProperties
    <2>2. QED BY <2>1 DEF Suspended
  <1>19. ASSUME NEW x \in Chains', NEW i \in 1..Len(x) - 1
         PROVE  \/ active # <<>> /\ x[i] = Last(active)
                \/ \E y \in Chains : \E j \in 1..Len(y) - 1 : x[i] = y[j]
    <2>1. CASE x \in parked BY <2>1 DEF Chains
    <2>2. CASE x = active'
      <3>1. i \in 1..m + n - 1 /\ i \in 1..m + n BY <1>1, <1>3, <1>4, <2>2
      <3>2. CASE i \in 1..m - 1 BY <1>1, <1>4, <1>6, <2>2, <3>1, <3>2
      <3>3. CASE i = m
        <4>1. m # 0 /\ m \in 1..m BY <3>1, <3>3
        <4>2. active # <<>>
          <5>1. Len(<<>>) = 0 OBVIOUS
          <5>2. QED BY <1>1, <4>1, <5>1
        <4>3. QED BY <1>1, <1>4, <2>2, <3>3, <4>1, <4>2 DEF Last
      <3>4. ASSUME NEW k \in 1..n, i = m + k
            PROVE  \E y \in Chains : \E j \in 1..Len(y) - 1 : x[i] = y[j]
        <4>1. k \in 1..Len(c) - 1 BY <1>1, <1>3, <3>1, <3>4
        <4>2. QED BY <1>4, <1>6, <2>2, <3>4, <4>1
      <3>5. i \in 1..m - 1 \/ i = m \/ \E k \in 1..n : i = m + k
        <4>1. CASE i \in 1..m BY <1>1, <4>1
        <4>2. QED BY <1>5, <3>1, <4>1
      <3>6. QED BY <3>2, <3>3, <3>4, <3>5
    <2>3. QED BY <1>6, <2>1, <2>2
  <1>20. <<>> \notin parked' BY DEF ChainInv
  <1>21. QED BY <1>9, <1>12, <1>13, <1>15, <1>17, <1>18, <1>19, <1>20

\* The last of the active chain is over, and the one before it is driven.
LEMMA ShortenedChain ==
  ASSUME TypeOK, ChainInv, NEW e \in Evaluations, Driven(e), parked' = parked,
         active' = SubSeq(active, 1, Len(active) - 1)
  PROVE  /\ active' \notin parked' /\ Disjoint(Chains') /\ active' \in Seq(Evaluations)
         /\ \A d : Chained(d)' <=> Chained(d) /\ d # e
         /\ \A d : Driven(d)' <=> active' # <<>> /\ d = Last(active')
         /\ active' # <<>> => /\ Last(active') \in Suspended /\ Last(active') # e
                              /\ pending[Last(active')] = None
         /\ \A x \in Chains' : \A i \in 1..Len(x) - 1 :
              \E y \in Chains : \E j \in 1..Len(y) - 1 : x[i] = y[j]
  <1>1. PICK m \in Nat \ {0} : m = Len(active) BY DrivenTypes
  <1>2. /\ active \in Seq(Evaluations) /\ active # <<>> /\ e = active[m] /\ active \in Chains
        /\ \A c \in Chains : \A i \in 1..Len(c) : c[i] = e => c = active /\ i = m
    BY <1>1, DrivenAlone DEF TypeOK, Chains
  <1>3. /\ active' \in Seq(Evaluations) /\ Len(active') = m - 1
        /\ \A i \in 1..m - 1 : active'[i] = active[i]
    BY <1>1, <1>2, LastProperties
  <1>4. Chains' = parked \union {active'} BY DEF Chains
  <1>5. Disjoint(Chains) BY DEF ChainInv, Disjoint
  <1>6. \A d \in parked : d \in Chains /\ d # active BY DEF Chains, ChainInv
  <1>7. \A i \in 1..m - 1 : i \in 1..m /\ i \in 1..Len(active') /\ i # m BY <1>1, <1>3
  <1>8. \A i \in 1..Len(active') : i \in 1..m - 1 /\ i \in 1..m BY <1>1, <1>3
  <1>9. Disjoint(Chains')
    <2>1. SUFFICES ASSUME NEW x \in Chains', NEW y \in Chains', NEW i \in 1..Len(x),
                          NEW j \in 1..Len(y), x[i] = y[j]
                   PROVE  x = y /\ i = j
      BY DEF Disjoint
    <2>2. CASE x = active' /\ y = active'
      <3>1. i \in 1..m - 1 /\ j \in 1..m - 1 /\ i \in 1..Len(active) /\ j \in 1..Len(active)
        BY <1>1, <1>8, <2>1, <2>2
      <3>2. active[i] = active[j] BY <1>3, <2>1, <2>2, <3>1
      <3>3. i = j BY <1>2, <1>5, <3>1, <3>2 DEF Disjoint
      <3>4. QED BY <2>2, <3>3
    <2>3. CASE x = active' /\ y \in parked
      BY <1>1, <1>2, <1>3, <1>5, <1>6, <1>8, <2>1, <2>3 DEF Disjoint
    <2>4. CASE x \in parked /\ y = active'
      BY <1>1, <1>2, <1>3, <1>5, <1>6, <1>8, <2>1, <2>4 DEF Disjoint
    <2>5. CASE x \in parked /\ y \in parked BY <1>5, <2>1, <2>5 DEF Disjoint, Chains
    <2>6. QED BY <1>4, <2>2, <2>3, <2>4, <2>5
  <1>10. active' \notin parked'
    <2>1. SUFFICES ASSUME active' \in parked PROVE FALSE OBVIOUS
    <2>2. CASE m = 1
      <3>1. Len(active') = 0 BY <1>3, <2>2
      <3>2. active' = <<>> BY <1>3, <3>1, EmptySeq
      <3>3. QED BY <2>1, <3>2 DEF ChainInv
    <2>3. CASE m # 1
      <3>1. 1 \in 1..m - 1 /\ 1 \in 1..m /\ 1 \in 1..Len(active') BY <1>1, <1>3, <2>3
      <3>2. active'[1] = active[1] BY <1>3, <3>1
      <3>3. PICK d \in parked : d = active' BY <2>1
      <3>4. d \in Chains /\ d # active BY <1>6
      <3>5. 1 \in 1..Len(active) /\ 1 \in 1..Len(d) /\ d[1] = active[1]
        BY <1>1, <3>1, <3>2, <3>3
      <3>6. QED BY <1>2, <1>5, <3>4, <3>5 DEF Disjoint
    <2>4. QED BY <2>2, <2>3
  <1>11. \A d : d \in Members(active') <=> d \in Members(active) /\ d # e
    <2>1. ASSUME NEW d \in Members(active')
          PROVE  d \in Members(active) /\ d # e
      <3>1. PICK i \in 1..m - 1 : d = active[i] BY <1>3, <1>8 DEF Members
      <3>2. QED BY <1>1, <1>2, <1>7, <3>1 DEF Members
    <2>2. ASSUME NEW d \in Members(active), d # e
          PROVE  d \in Members(active')
      <3>1. PICK i \in 1..m : d = active[i] BY <1>1 DEF Members
      <3>2. i \in 1..m - 1 BY <1>1, <1>2, <2>2, <3>1
      <3>3. QED BY <1>3, <1>7, <3>1, <3>2 DEF Members
    <2>3. QED BY <2>1, <2>2
  <1>12. \A x \in parked : e \notin Members(x) BY <1>2, <1>6 DEF Members
  <1>13. \A d : Chained(d)' <=> Chained(d) /\ d # e
    <2>1. \A d : Chained(d)' <=> (\E x \in parked : d \in Members(x)) \/ d \in Members(active')
      BY <1>4 DEF Chained
    <2>2. \A d : Chained(d) <=> (\E x \in parked : d \in Members(x)) \/ d \in Members(active)
      BY DEF Chained, Chains
    <2>3. QED BY <1>11, <1>12, <2>1, <2>2
  <1>14. ASSUME active' # <<>>
         PROVE  /\ Last(active') \in Suspended /\ Last(active') # e
                /\ pending[Last(active')] = None
    <2>1. m - 1 \in 1..m - 1 /\ m - 1 \in 1..m /\ m - 1 \in 1..Len(active) - 1
      <3>1. m - 1 # 0 BY <1>1, <1>3, <1>14, EmptySeq
      <3>2. QED BY <1>1, <3>1
    <2>2. Last(active') = active[m - 1] BY <1>3, <2>1 DEF Last
    <2>3. Last(active') \in Members(active) /\ Last(active') \in Evaluations
      BY <1>1, <1>2, <2>1, <2>2, LastProperties DEF Members
    <2>4. Last(active') # e BY <1>1, <1>2, <2>1, <2>2
    <2>5. pending[Last(active')] = None BY <1>2, <2>1, <2>2 DEF ChainInv
    <2>6. ~Driven(Last(active')) BY <2>3, <2>4, DrivenAlone
    <2>7. QED BY <2>3, <2>4, <2>5, <2>6 DEF Suspended
  <1>15. ASSUME NEW x \in Chains', NEW i \in 1..Len(x) - 1
         PROVE  \E y \in Chains : \E j \in 1..Len(y) - 1 : x[i] = y[j]
    <2>1. CASE x \in parked BY <2>1 DEF Chains
    <2>2. CASE x = active'
      <3>1. i \in 1..m - 1 /\ i \in 1..Len(active) - 1 BY <1>1, <1>3, <2>2
      <3>2. QED BY <1>2, <1>3, <2>2, <3>1
    <2>3. QED BY <1>4, <2>1, <2>2
  <1>16. \A d : Driven(d)' <=> active' # <<>> /\ d = Last(active') BY DEF Driven
  <1>17. QED BY <1>3, <1>9, <1>10, <1>13, <1>14, <1>15, <1>16

\* A parked evaluation runs again behind the one that asked for it, or at the end
\* of the session.
Revived(c) ==
  /\ active' = active \o c /\ parked' = parked \ {c}
  /\ active # <<>> => mode[Last(active)] = "body" /\ pending[Last(active)] = None
  /\ \E m \in {"body", "unwinding"} : mode' = [mode EXCEPT ![Last(c)] = m]
  /\ pending' \in {pending, [pending EXCEPT ![Last(c)] = None]}
  /\ UNCHANGED <<ops, queue, leaving>> /\ leaving # "gone"

LEMMA RevivedSteps ==
  ASSUME TypeOK, ChainInv, NEW c \in parked,
         (\E e \in Evaluations : Foregrounds(e, c) \/ Cancels(e, c)) \/ ShutdownEvaluation(c)
  PROVE  Revived(c)
  <1>1. c \in Seq(Evaluations) BY DEF TypeOK
  <1>2. ASSUME NEW e \in Evaluations, Foregrounds(e, c)
        PROVE  Revived(c)
    <2>1. Driven(e) /\ mode[e] = "body" /\ pending[e] = None
      BY <1>2 DEF Foregrounds, Stepping
    <2>2. leaving # "gone" /\ e = Last(active) BY <2>1, DrivenAlone DEF Driven
    <2>3. \E m \in {"body", "unwinding"} : mode' = [mode EXCEPT ![Last(c)] = m]
      BY <1>2 DEF Foregrounds, Continues
    <2>4. QED BY <1>2, <2>1, <2>2, <2>3 DEF Foregrounds, Revived
  <1>3. ASSUME NEW e \in Evaluations, Cancels(e, c)
        PROVE  Revived(c)
    <2>1. Driven(e) /\ mode[e] = "body" /\ pending[e] = None BY <1>3 DEF Cancels, Stepping
    <2>2. leaving # "gone" /\ e = Last(active) BY <2>1, DrivenAlone DEF Driven
    <2>3. QED BY <1>3, <2>1, <2>2 DEF Cancels, Doom, Revived
  <1>4. CASE ShutdownEvaluation(c)
    <2>1. active \o c = c BY <1>1, <1>4, ConcatEmptySeq DEF ShutdownEvaluation
    <2>2. QED BY <1>4, <2>1 DEF ShutdownEvaluation, Doom, Revived
  <1>5. QED BY <1>2, <1>3, <1>4

\* The end of an evaluation, for the others.
LEMMA FinishEffects ==
  ASSUME TypeOK, ChainInv, NEW e \in Evaluations, Finish(e)
  PROVE  LET rest == SubSeq(active, 1, Len(active) - 1)
         IN  /\ Driven(e) /\ pending[e] = None /\ mode[e] \in Begun
             /\ parked' = parked /\ active' = rest
             /\ mode'[e] = "over"
             /\ \A d \in Evaluations \ {e} :
                  /\ rest = <<>> \/ d # Last(rest) => mode'[d] = mode[d]
                  /\ rest # <<>> /\ d = Last(rest) => mode'[d] \in {"body", "unwinding"}
             /\ ops' = [ops EXCEPT ![e] = [b \in Branches |-> None]]
             /\ queue' = [queue EXCEPT ![e] = <<>>]
             /\ UNCHANGED <<pending, leaving, table>>
  <1> DEFINE rest == SubSeq(active, 1, Len(active) - 1)
             over == [mode EXCEPT ![e] = "over"]
  <1>1. /\ Driven(e) /\ pending[e] = None /\ mode[e] \in Begun
        /\ parked' = parked /\ active' = rest
        /\ ops' = [ops EXCEPT ![e] = [b \in Branches |-> None]]
        /\ queue' = [queue EXCEPT ![e] = <<>>]
        /\ UNCHANGED <<pending, leaving, table>>
    BY DEF Finish, Begun
  <1>2. \/ rest = <<>> /\ mode' = over
        \/ rest # <<>> /\ \E m \in {"body", "unwinding"} : mode' = [over EXCEPT ![Last(rest)] = m]
    BY DEF Finish, Continues
  <1>3. rest # <<>> => Last(rest) # e BY <1>1, ShortenedChain
  <1>4. QED BY <1>1, <1>2, <1>3 DEF TypeOK

\* The chains stay apart.
LEMMA ChainStep ==
  ASSUME TypeOK, ChainInv, RestInv, [Next]_vars
  PROVE  ChainInv'
  <1>1. ASSUME NEW e \in Evaluations, Local(e)
        PROVE  ChainInv'
    <2>1. UNCHANGED Chains /\ leaving' # "gone"
      BY <1>1, DrivenAlone DEF Local, Chains
    <2>2. \A d \in Evaluations : mode'[d] \in Begun <=> mode[d] \in Begun
      BY <1>1, DrivenAlone DEF Local
    <2>3. \A c \in Chains : \A i \in 1..Len(c) - 1 : pending'[c[i]] = None
      <3>1. TAKE c \in Chains
      <3>2. TAKE i \in 1..Len(c) - 1
      <3>3. c \in Seq(Evaluations) BY DEF TypeOK, Chains
      <3>4. PICK n \in Nat : n = Len(c) BY <3>3
      <3>5. i \in 1..Len(c) /\ i # Len(c) BY <3>4
      <3>6. c[i] \in Evaluations /\ c[i] # e BY <1>1, <3>3, <3>5, DrivenAlone DEF Local
      <3>7. QED BY <1>1, <3>6 DEF Local, ChainInv
    <2>4. UNCHANGED <<active, parked>> BY <1>1 DEF Local
    <2>5. QED BY <2>1, <2>2, <2>3, <2>4 DEF ChainInv, Chained
  <1>2. ASSUME NEW e \in Evaluations, Evaluate(e)
        PROVE  ChainInv'
    <2>1. /\ active = <<>> /\ leaving = "no" /\ mode[e] = "new"
          /\ active' = <<e>> /\ mode' = [mode EXCEPT ![e] = "body"]
          /\ UNCHANGED <<parked, pending, leaving>>
      BY <1>2 DEF Evaluate
    <2>2. ~Chained(e) BY <2>1 DEF ChainInv, Begun
    <2>3. Members(<<e>>) = {e} /\ Members(<<>>) = {} /\ Len(<<e>>) = 1 /\ <<e>>[1] = e
          /\ <<e>> # <<>>
      BY DEF Members
    <2>4. \A d : Chained(d)' <=> Chained(d) \/ d = e
      <3>1. \A d : Chained(d)' <=> (\E x \in parked : d \in Members(x)) \/ d \in Members(<<e>>)
        BY <2>1 DEF Chained, Chains
      <3>2. \A d : Chained(d) <=> (\E x \in parked : d \in Members(x)) \/ d \in Members(<<>>)
        BY <2>1 DEF Chained, Chains
      <3>3. QED BY <2>3, <3>1, <3>2
    <2>5. \A x \in parked : \A i \in 1..Len(x) : x[i] # e
      BY <2>2 DEF Chained, Chains, Members
    <2>6. Disjoint(Chains')
      <3>1. SUFFICES ASSUME NEW x \in Chains', NEW y \in Chains', NEW i \in 1..Len(x),
                            NEW j \in 1..Len(y), x[i] = y[j]
                     PROVE  x = y /\ i = j
        BY DEF Disjoint
      <3>2. \A z \in Chains' : z \in parked \/ z = <<e>> BY <2>1 DEF Chains
      <3>3. CASE x = <<e>> /\ y = <<e>> BY <2>3, <3>3
      <3>4. CASE x = <<e>> /\ y \in parked BY <2>3, <2>5, <3>1, <3>4
      <3>5. CASE x \in parked /\ y = <<e>> BY <2>3, <2>5, <3>1, <3>5
      <3>6. CASE x \in parked /\ y \in parked BY <3>1, <3>6 DEF ChainInv, Chains
      <3>7. QED BY <3>2, <3>3, <3>4, <3>5, <3>6
    <2>7. active' \notin parked
      <3>1. 1 \in 1..Len(<<e>>) BY <2>3
      <3>2. QED BY <2>1, <2>3, <2>5, <3>1
    <2>8. \A d \in Evaluations : mode'[d] \in Begun <=> mode[d] \in Begun \/ d = e
      BY <2>1 DEF TypeOK, Begun
    <2>9. \A x \in Chains' : \A i \in 1..Len(x) - 1 : pending'[x[i]] = None
      <3>1. \A i \in 1..Len(<<e>>) - 1 : FALSE BY <2>3
      <3>2. \A z \in Chains' : z \in parked \/ z = <<e>> BY <2>1 DEF Chains
      <3>3. QED BY <2>1, <3>1, <3>2 DEF ChainInv, Chains
    <2>10. QED BY <2>1, <2>4, <2>6, <2>7, <2>8, <2>9 DEF ChainInv, Disjoint
  <1>3. ASSUME NEW e \in Evaluations, Park(e)
        PROVE  ChainInv'
    <2>1. /\ Driven(e) /\ mode[e] = "body"
          /\ parked' = parked \union {active} /\ active' = <<>>
          /\ UNCHANGED <<mode, leaving>>
          /\ \A d \in Evaluations \ {e} : pending'[d] = pending[d]
      BY <1>3 DEF Park, TypeOK
    <2>2. Chains' = Chains \union {<<>>} /\ active # <<>> /\ leaving # "gone"
      BY <2>1, DrivenAlone DEF Chains
    <2>3. Members(<<>>) = {} /\ \A i \in 1..Len(<<>>) : FALSE BY DEF Members
    <2>4. \A d : Chained(d)' <=> Chained(d) BY <2>2, <2>3 DEF Chained
    <2>5. Disjoint(Chains')
      <3>1. Disjoint(Chains) BY DEF ChainInv, Disjoint
      <3>2. QED BY <2>2, <2>3, <3>1 DEF Disjoint
    <2>6. \A c \in Chains' : \A i \in 1..Len(c) - 1 : pending'[c[i]] = None
      <3>1. TAKE c \in Chains'
      <3>2. TAKE i \in 1..Len(c) - 1
      <3>3. c \in Chains
        <4>1. \A k \in 1..Len(<<>>) - 1 : FALSE OBVIOUS
        <4>2. QED BY <2>2, <3>2, <4>1
      <3>4. c \in Seq(Evaluations) BY <3>3 DEF TypeOK, Chains
      <3>5. PICK n \in Nat : n = Len(c) BY <3>4
      <3>6. i \in 1..Len(c) /\ i # Len(c) BY <3>5
      <3>7. c[i] \in Evaluations /\ c[i] # e BY <2>1, <3>3, <3>4, <3>6, DrivenAlone
      <3>8. QED BY <2>1, <3>3, <3>7 DEF ChainInv
    <2>7. QED BY <2>1, <2>2, <2>4, <2>5, <2>6 DEF ChainInv, Disjoint
  <1>4. ASSUME NEW c \in parked, Revived(c)
        PROVE  ChainInv'
    <2>1. /\ active' = active \o c /\ parked' = parked \ {c}
          /\ active # <<>> => mode[Last(active)] = "body" /\ pending[Last(active)] = None
          /\ leaving' = leaving /\ leaving # "gone"
      BY <1>4 DEF Revived
    <2>2. Last(c) \in Suspended /\ Last(c) \in Evaluations /\ Chained(Last(c))
      BY <2>1, JoinedChains, SuspendedMembers
    <2>3. \A d \in Evaluations : mode'[d] \in Begun <=> mode[d] \in Begun
      <3>1. mode[Last(c)] \in Begun BY <2>2 DEF ChainInv
      <3>2. PICK m \in {"body", "unwinding"} : mode' = [mode EXCEPT ![Last(c)] = m]
        BY <1>4 DEF Revived
      <3>3. QED BY <2>2, <3>1, <3>2 DEF TypeOK, Begun
    <2>4. \A d \in Evaluations : pending[d] = None => pending'[d] = None
      BY <1>4 DEF Revived, TypeOK
    <2>5. \A x \in Chains' : \A i \in 1..Len(x) - 1 : pending'[x[i]] = None
      <3>1. TAKE x \in Chains'
      <3>2. TAKE i \in 1..Len(x) - 1
      <3>3. CASE active # <<>> /\ x[i] = Last(active)
        <4>1. Last(active) \in Evaluations BY <3>3, LastProperties DEF TypeOK
        <4>2. QED BY <2>1, <2>4, <3>3, <4>1
      <3>4. ASSUME NEW y \in Chains, NEW j \in 1..Len(y) - 1, x[i] = y[j]
            PROVE  pending'[x[i]] = None
        <4>1. y \in Seq(Evaluations) BY DEF TypeOK, Chains
        <4>2. PICK n \in Nat : n = Len(y) BY <4>1
        <4>3. j \in 1..Len(y) BY <4>2
        <4>4. y[j] \in Evaluations BY <4>1, <4>3
        <4>5. QED BY <2>4, <3>4, <4>4 DEF ChainInv
      <3>5. QED BY <2>1, <3>3, <3>4, JoinedChains
    <2>6. /\ active' # <<>> /\ <<>> \notin parked' /\ active' \notin parked'
          /\ Disjoint(Chains') /\ \A d : Chained(d)' <=> Chained(d)
      BY <2>1, JoinedChains
    <2>7. QED BY <2>1, <2>3, <2>5, <2>6 DEF ChainInv, Disjoint
  <1>5. ASSUME NEW e \in Evaluations, Finish(e)
        PROVE  ChainInv'
    <2>1. /\ Driven(e) /\ parked' = parked /\ active' = SubSeq(active, 1, Len(active) - 1)
          /\ mode'[e] = "over" /\ UNCHANGED <<pending, leaving>>
      BY <1>5, FinishEffects
    <2>2. /\ active' \notin parked' /\ Disjoint(Chains')
          /\ \A d : Chained(d)' <=> Chained(d) /\ d # e
          /\ active' # <<>> => Last(active') \in Suspended
      BY <2>1, ShortenedChain
    <2>3. \A d \in Evaluations : mode'[d] \in Begun <=> mode[d] \in Begun /\ d # e
      <3>1. TAKE d \in Evaluations
      <3>2. CASE d = e BY <2>1, <3>2 DEF Begun
      <3>3. CASE d # e /\ active' # <<>> /\ d = Last(active')
        <4>1. mode'[d] \in {"body", "unwinding"} BY <1>5, <2>1, <3>3, FinishEffects
        <4>2. mode[d] \in Begun BY <2>2, <3>3, SuspendedMembers DEF ChainInv
        <4>3. QED BY <3>3, <4>1, <4>2 DEF Begun
      <3>4. CASE d # e /\ ~(active' # <<>> /\ d = Last(active'))
        BY <1>5, <2>1, <3>4, FinishEffects
      <3>5. QED BY <3>2, <3>3, <3>4
    <2>4. \A x \in Chains' : \A i \in 1..Len(x) - 1 : pending'[x[i]] = None
      BY <2>1, ShortenedChain DEF ChainInv
    <2>5. leaving # "gone" BY <2>1, DrivenAlone
    <2>6. QED BY <2>1, <2>2, <2>3, <2>4, <2>5 DEF ChainInv, Disjoint
  <1>6. ASSUME Quiet, leaving' \in {leaving, "exit"} \/ ShutdownJobs
        PROVE  ChainInv'
    <2>1. leaving' = "gone" => active = <<>> /\ parked = {}
      BY <1>6 DEF ChainInv, ShutdownJobs
    <2>2. QED BY <1>6, <2>1 DEF Quiet, ChainInv, Chains, Chained
  <1>7. QED BY <1>1, <1>2, <1>3, <1>4, <1>5, <1>6, StepKinds, RevivedSteps

\* Who is suspended after a step.
LEMMA SuspendedAfter ==
  ASSUME TypeOK, ChainInv, TypeOK', ChainInv'
  PROVE  /\ \A e \in Evaluations : Local(e) => Suspended' = Suspended /\ e \notin Suspended
         /\ \A e \in Evaluations : Evaluate(e) => Suspended' = Suspended /\ e \notin Suspended
         /\ \A e \in Evaluations : Park(e) => Suspended' = Suspended \union {e}
         /\ \A c \in parked : Revived(c) =>
              Suspended' = (Suspended \ {Last(c)}) \union {d \in Evaluations : Driven(d)}
         /\ \A e \in Evaluations : Finish(e) =>
              /\ Suspended' = {d \in Suspended : ~Driven(d)'}
              /\ e \notin Suspended
         /\ Quiet => Suspended' = Suspended
  <1>1. /\ Suspended = {d \in Evaluations : Chained(d) /\ ~Driven(d)}
        /\ Suspended' = {d \in Evaluations : Chained(d)' /\ ~Driven(d)'}
    <2>1. (TypeOK /\ ChainInv => Suspended = {d \in Evaluations : Chained(d) /\ ~Driven(d)})'
      BY SuspendedMembers, PTL
    <2>2. QED BY <2>1, SuspendedMembers
  <1>2. ASSUME NEW e \in Evaluations, Local(e)
        PROVE  Suspended' = Suspended /\ e \notin Suspended
    BY <1>1, <1>2 DEF Local, Chained, Chains, Driven
  <1>3. ASSUME NEW e \in Evaluations, Evaluate(e)
        PROVE  Suspended' = Suspended /\ e \notin Suspended
    <2>1. active = <<>> /\ mode[e] = "new" /\ active' = <<e>> /\ parked' = parked
      BY <1>3 DEF Evaluate
    <2>2. Members(<<>>) = {} /\ Members(<<e>>) = {e} /\ Last(<<e>>) = e /\ <<e>> # <<>>
      BY DEF Members, Last
    <2>3. e \notin Suspended BY <1>1, <2>1 DEF ChainInv, Begun
    <2>4. \A d : Driven(d)' <=> d = e BY <2>1, <2>2 DEF Driven
    <2>5. \A d : ~Driven(d) BY <2>1 DEF Driven
    <2>6. \A d : Chained(d)' <=> Chained(d) \/ d = e
      <3>1. \A d : Chained(d)' <=> (\E x \in parked : d \in Members(x)) \/ d \in Members(<<e>>)
        BY <2>1 DEF Chained, Chains
      <3>2. \A d : Chained(d) <=> (\E x \in parked : d \in Members(x)) \/ d \in Members(<<>>)
        BY <2>1 DEF Chained, Chains
      <3>3. QED BY <2>2, <3>1, <3>2
    <2>7. QED BY <1>1, <2>3, <2>4, <2>5, <2>6
  <1>4. ASSUME NEW e \in Evaluations, Park(e)
        PROVE  Suspended' = Suspended \union {e}
    <2>1. Driven(e) /\ parked' = parked \union {active} /\ active' = <<>> BY <1>4 DEF Park
    <2>2. Members(<<>>) = {} BY DEF Members
    <2>3. \A d : Chained(d)' <=> Chained(d)
      <3>1. \A d : Chained(d)' <=> \/ \E x \in parked \union {active} : d \in Members(x)
                                   \/ d \in Members(<<>>)
        BY <2>1 DEF Chained, Chains
      <3>2. QED BY <2>2, <3>1 DEF Chained, Chains
    <2>4. \A d : ~Driven(d)' BY <2>1 DEF Driven
    <2>5. Chained(e) BY <2>1, DrivenTypes DEF Chained, Chains
    <2>6. \A d \in Evaluations : Driven(d) <=> d = e BY <2>1, DrivenAlone
    <2>7. QED BY <1>1, <2>3, <2>4, <2>5, <2>6
  <1>5. ASSUME NEW c \in parked, Revived(c)
        PROVE  Suspended' = (Suspended \ {Last(c)}) \union {d \in Evaluations : Driven(d)}
    <2>1. active' = active \o c /\ parked' = parked \ {c} BY <1>5 DEF Revived
    <2>2. /\ \A d : Chained(d)' <=> Chained(d)
          /\ \A d : Driven(d)' <=> d = Last(c)
          /\ Last(c) \in Suspended
      BY <2>1, JoinedChains
    <2>3. \A d \in Evaluations : Driven(d) => Chained(d)
      BY DrivenTypes DEF Chained, Chains
    <2>4. QED BY <1>1, <2>2, <2>3
  <1>6. ASSUME NEW e \in Evaluations, Finish(e)
        PROVE  Suspended' = {d \in Suspended : ~Driven(d)'} /\ e \notin Suspended
    <2>1. /\ Driven(e) /\ parked' = parked /\ active' = SubSeq(active, 1, Len(active) - 1)
      BY <1>6, FinishEffects
    <2>2. \A d : Chained(d)' <=> Chained(d) /\ d # e BY <2>1, ShortenedChain
    <2>3. \A d \in Evaluations : Driven(d) <=> d = e BY <2>1, DrivenAlone
    <2>4. QED BY <1>1, <2>1, <2>2, <2>3
  <1>7. ASSUME Quiet
        PROVE  Suspended' = Suspended
    BY <1>1, <1>7 DEF Quiet, Chained, Chains, Driven
  <1>8. QED BY <1>2, <1>3, <1>4, <1>5, <1>6, <1>7

\* Evaluations that do not run keep still.
LEMMA RestStep ==
  ASSUME TypeOK, ChainInv, RestInv, TypeOK', ChainInv', [Next]_vars
  PROVE  RestInv'
  <1>1. /\ \A e \in Suspended : Rests(e)
        /\ \A e \in Evaluations : Begins(e)
        /\ \A e \in Evaluations : Idles(e)
    BY DEF RestInv
  <1>2. ASSUME NEW d \in Evaluations, UNCHANGED <<mode[d], pending[d], ops[d]>>
        PROVE  /\ Rests(d)' <=> Rests(d)
               /\ Begins(d)'
               /\ Idles(d)'
    BY <1>1, <1>2 DEF Deferred, Rests, Begins, Idles
  <1>3. Suspended \subseteq Evaluations BY DEF Suspended
  <1>4. ASSUME NEW e \in Evaluations, Local(e)
        PROVE  RestInv'
    <2>1. Suspended' = Suspended /\ e \notin Suspended BY <1>4, SuspendedAfter
    <2>2. \A d \in Evaluations \ {e} : UNCHANGED <<mode[d], pending[d], ops[d]>>
      BY <1>4 DEF Local
    <2>3. Begins(e)' /\ Idles(e)' BY <1>4 DEF Local, Begins, Idles, Begun
    <2>4. QED BY <1>1, <1>2, <1>3, <2>1, <2>2, <2>3 DEF RestInv
  <1>5. ASSUME NEW e \in Evaluations, Evaluate(e)
        PROVE  RestInv'
    <2>1. Suspended' = Suspended /\ e \notin Suspended BY <1>5, SuspendedAfter
    <2>2. \A d \in Evaluations \ {e} : UNCHANGED <<mode[d], pending[d], ops[d]>>
      BY <1>5 DEF Evaluate, TypeOK
    <2>3. Begins(e)' /\ Idles(e)'
      <3>1. mode'[e] = "body" /\ pending' = pending BY <1>5 DEF Evaluate, TypeOK
      <3>2. QED BY <1>1, <3>1 DEF Begins, Idles
    <2>4. QED BY <1>1, <1>2, <1>3, <2>1, <2>2, <2>3 DEF RestInv
  <1>6. ASSUME NEW e \in Evaluations, Park(e)
        PROVE  RestInv'
    <2>1. Suspended' = Suspended \union {e} BY <1>6, SuspendedAfter
    <2>2. \A d \in Evaluations \ {e} : UNCHANGED <<mode[d], pending[d], ops[d]>>
      BY <1>6 DEF Park, TypeOK
    <2>3. mode[e] = "body" /\ mode' = mode /\ ops' = ops BY <1>6 DEF Park
    <2>4. /\ pending[e] = None \/ OwnsGroup(pending[e]) => pending' = pending
          /\ pending[e] # None /\ ~OwnsGroup(pending[e]) =>
               pending'[e] = [pending[e] EXCEPT !.started = FALSE]
      BY <1>6 DEF Park, TypeOK
    <2>5. Rests(e)' /\ Begins(e)' /\ Idles(e)'
      <3>1. CASE pending[e] = None \/ OwnsGroup(pending[e])
        BY <1>1, <2>3, <2>4, <3>1 DEF Rests, Begins, Idles
      <3>2. CASE pending[e] # None /\ ~OwnsGroup(pending[e])
        <4>1. ~pending'[e].started /\ ~OwnsGroup(pending'[e])
          <5>1. pending[e] \in Operation BY <3>2, UnsettledTypes
          <5>2. pending'[e] = [pending[e] EXCEPT !.started = FALSE] BY <2>4, <3>2
          <5>3. /\ [pending[e] EXCEPT !.started = FALSE].kind = pending[e].kind
                /\ [pending[e] EXCEPT !.started = FALSE].started = FALSE
            BY <5>1, OperationFields
          <5>4. QED BY <3>2, <5>2, <5>3 DEF OwnsGroup
        <4>2. QED BY <2>3, <4>1 DEF Rests, Begins, Idles
      <3>3. QED BY <3>1, <3>2
    <2>6. QED BY <1>1, <1>2, <1>3, <2>1, <2>2, <2>5 DEF RestInv
  <1>7. ASSUME NEW c \in parked, Revived(c)
        PROVE  RestInv'
    <2>1. Suspended' = (Suspended \ {Last(c)}) \union {d \in Evaluations : Driven(d)}
      BY <1>7, SuspendedAfter
    <2>2. \A d \in Evaluations \ {Last(c)} : UNCHANGED <<mode[d], pending[d], ops[d]>>
      BY <1>7 DEF Revived, TypeOK
    <2>3. Last(c) \in Suspended /\ \A d \in Evaluations : Driven(d) => d # Last(c)
      BY <1>7, JoinedChains, SuspendedMembers DEF Revived
    <2>4. \A d \in Evaluations : Driven(d) => Rests(d)
      BY <1>7 DEF Revived, Rests, Driven
    <2>5. Begins(Last(c))' /\ Idles(Last(c))'
      <3>1. Last(c) \in Evaluations BY <1>3, <2>3
      <3>2. mode'[Last(c)] \in {"body", "unwinding"}
            /\ pending'[Last(c)] \in {pending[Last(c)], None}
        BY <1>7, <3>1 DEF Revived, TypeOK
      <3>3. QED BY <1>1, <3>1, <3>2 DEF Begins, Idles
    <2>6. QED BY <1>1, <1>2, <1>3, <2>1, <2>2, <2>3, <2>4, <2>5 DEF RestInv
  <1>8. ASSUME NEW e \in Evaluations, Finish(e)
        PROVE  RestInv'
    <2>1. /\ Driven(e) /\ pending[e] = None /\ mode'[e] = "over" /\ pending' = pending
          /\ ops' = [ops EXCEPT ![e] = [b \in Branches |-> None]]
          /\ parked' = parked /\ active' = SubSeq(active, 1, Len(active) - 1)
      BY <1>8, FinishEffects
    <2>2. Suspended' = {d \in Suspended : ~Driven(d)'} /\ e \notin Suspended
      BY <1>8, SuspendedAfter
    <2>3. \A d : Driven(d)' <=> active' # <<>> /\ d = Last(active') BY DEF Driven
    <2>4. \A d \in Evaluations \ {e} : ~Driven(d)' => UNCHANGED <<mode[d], pending[d], ops[d]>>
      <3>1. \A d \in Evaluations \ {e} : active' = <<>> \/ d # Last(active') => mode'[d] = mode[d]
        BY <1>8, <2>1, FinishEffects
      <3>2. QED BY <2>1, <2>3, <3>1
    <2>5. \A d \in Evaluations \ {e} : Driven(d)' => Begins(d)' /\ Idles(d)'
      <3>1. \A d \in Evaluations \ {e} : Driven(d)' => mode'[d] \in {"body", "unwinding"}
        BY <1>8, <2>1, <2>3, FinishEffects
      <3>2. QED BY <1>1, <2>1, <3>1 DEF Begins, Idles
    <2>6. Begins(e)' /\ Idles(e)'
      <3>1. Deferred(e)' = {} BY <2>1 DEF Deferred, TypeOK
      <3>2. QED BY <2>1, <3>1 DEF Begins, Idles
    <2>7. QED BY <1>1, <1>2, <1>3, <2>2, <2>4, <2>5, <2>6 DEF RestInv
  <1>9. ASSUME Quiet
        PROVE  RestInv'
    <2>1. Suspended' = Suspended BY <1>9, SuspendedAfter
    <2>2. \A d \in Evaluations : UNCHANGED <<mode[d], pending[d], ops[d]>> BY <1>9 DEF Quiet
    <2>3. QED BY <1>1, <1>2, <1>3, <2>1, <2>2 DEF RestInv
  <1>10. QED BY <1>4, <1>5, <1>6, <1>7, <1>8, <1>9, StepKinds, RevivedSteps

-----------------------------------------------------------------------------
(* The queue *)

\* The steps that change operations or the queue.
LEMMA OperationSteps ==
  ASSUME [Next]_vars
  PROVE  \/ UNCHANGED <<ops, queue>>
         \/ \E e \in Evaluations :
              \/ \E b \in Branches :
                   \/ \E g \in Groups, kind \in Callbacks : Defer(e, b, kind, g)
                   \/ Advance(e, b) \/ Collect(e, b)
                   \/ \E asked, interrupted \in BOOLEAN : Complete(e, b, asked, interrupted)
              \/ \E B : B \subseteq Deferred(e) /\ Closed(e, B)
              \/ Finish(e)
  <1> USE DEF program, session
  <1>1. ASSUME NEW e \in Evaluations, Program(e)
        PROVE  \/ UNCHANGED <<ops, queue>>
               \/ \E b \in Branches, g \in Groups, kind \in Callbacks : Defer(e, b, kind, g)
               \/ \E B : B \subseteq Deferred(e) /\ Closed(e, B)
    BY <1>1 DEF Program, Start, ControlNow, Control, Run, Snapshots, Release, Close,
                Foregrounds, Cancels, Exit
  <1>2. ASSUME NEW e \in Evaluations, Coordinator(e)
        PROVE  \/ UNCHANGED <<ops, queue>>
               \/ \E b \in Branches :
                    \/ Advance(e, b) \/ Collect(e, b)
                    \/ \E asked, interrupted \in BOOLEAN : Complete(e, b, asked, interrupted)
               \/ \E B : B \subseteq Deferred(e) /\ Closed(e, B)
               \/ Finish(e)
    BY <1>2 DEF Coordinator, Returns, Reissue, Unwind
  <1>3. ASSUME NEW e \in Evaluations, Evaluate(e) \/ Interrupt(e) \/ Park(e)
        PROVE  UNCHANGED <<ops, queue>>
    BY <1>3 DEF Evaluate, Interrupt, Park
  <1>4. ASSUME NEW c, ShutdownEvaluation(c)
        PROVE  UNCHANGED <<ops, queue>>
    BY <1>4 DEF ShutdownEvaluation
  <1>5. ASSUME Leave \/ ShutdownJobs \/ Over \/ UNCHANGED vars
                 \/ \E g \in Groups : Notify(g) \/ GroupEnds(g) \/ GroupStops(g) \/ GroupSetsModes(g)
        PROVE  UNCHANGED <<ops, queue>>
    BY <1>5 DEF Leave, ShutdownJobs, Over, Notify, GroupEnds, GroupStops, GroupSetsModes, vars
  <1>6. QED BY <1>1, <1>2, <1>3, <1>4, <1>5 DEF Next

\* Operations leave with their places.
LEMMA DroppedFits ==
  ASSUME TypeOK, NEW e \in Evaluations, QueueFits(e), NEW B,
         queue'[e] = Without(queue[e], B),
         \A b \in Branches \ B : ops'[e][b] = ops[e][b],
         \A b \in Branches \intersect B : ops'[e][b] \in {None, Settled}
  PROVE  QueueFits(e)'
  <1>1. /\ queue[e] \in Seq(Branches)
        /\ \A i, j \in 1..Len(queue[e]) : queue[e][i] = queue[e][j] => i = j
    BY DEF TypeOK, QueueFits
  <1>2. /\ Members(queue'[e]) = Members(queue[e]) \ B
        /\ \A i, j \in 1..Len(queue'[e]) : queue'[e][i] = queue'[e][j] => i = j
        /\ queue[e] # <<>> /\ Head(queue[e]) \notin B =>
             queue'[e] # <<>> /\ Head(queue'[e]) = Head(queue[e])
    BY <1>1, WithoutProperties
  <1>3. /\ Unsettled(e)' = Unsettled(e) \ B
        /\ \A b \in Unsettled(e)' : ops'[e][b] = ops[e][b]
    <2>1. \A b \in Branches : b \in Unsettled(e)' <=> b \in Unsettled(e) /\ b \notin B
      BY DEF Unsettled, Deferred
    <2>2. Unsettled(e) \subseteq Branches /\ Unsettled(e)' \subseteq Branches
      BY DEF Unsettled, Deferred
    <2>3. QED BY <2>1, <2>2
  <1>4. Members(queue[e]) = {b \in Unsettled(e) : Interactive(ops[e][b])} BY DEF QueueFits
  <1>5. \A b \in Unsettled(e)' : Interactive(ops'[e][b]) <=> Interactive(ops[e][b]) BY <1>3
  <1>6. Members(queue'[e]) = {b \in Unsettled(e)' : Interactive(ops'[e][b])}
    BY <1>2, <1>3, <1>4, <1>5
  <1>7. ASSUME NEW b \in Unsettled(e)', Interactive(ops'[e][b]), ops'[e][b].started
        PROVE  InFront(e, b)'
    <2>1. b \in Unsettled(e) /\ b \notin B /\ Interactive(ops[e][b]) /\ ops[e][b].started
      BY <1>3, <1>7
    <2>2. InFront(e, b) BY <2>1 DEF QueueFits
    <2>3. QED BY <1>2, <2>1, <2>2 DEF InFront
  <1>8. QED BY <1>2, <1>6, <1>7 DEF QueueFits

LEMMA ClosedFits ==
  ASSUME TypeOK, QueueInv, NEW e \in Evaluations, NEW B, B \subseteq Deferred(e), Closed(e, B)
  PROVE  QueueFits(e)'
  <1>1. queue'[e] = Without(queue[e], B) BY DEF Closed, Dequeued, TypeOK
  <1>2. \A b \in Branches : ops'[e][b] = IF b \in B THEN None ELSE ops[e][b]
    BY DEF Closed, TypeOK
  <1>3. QED BY <1>1, <1>2, DroppedFits DEF QueueInv

\* A queue and an operation at its end.
LEMMA DeferredFits ==
  ASSUME TypeOK, QueueInv, NEW e \in Evaluations, NEW b \in Branches, NEW kind \in Callbacks,
         NEW g \in Groups, Defer(e, b, kind, g)
  PROVE  QueueFits(e)'
  <1> DEFINE q == queue[e]
             op == NewOperation(kind, g)
  <1>1. /\ op \in Operation /\ op.kind = kind /\ ~op.started
    BY KindsKnown, OperationFields DEF Kinds
  <1>2. /\ ops[e][b] = None /\ ops'[e][b] = op
        /\ \A a \in Branches \ {b} : ops'[e][a] = ops[e][a]
        /\ queue'[e] = IF kind \in {"run", "fg"} THEN Append(q, b) ELSE q
    BY DEF Defer, TypeOK
  <1>3. /\ b \notin Unsettled(e) /\ Unsettled(e)' = Unsettled(e) \union {b}
        /\ \A a \in Unsettled(e) : ops'[e][a] = ops[e][a]
    <2>1. op \notin {None, Settled} BY <1>1, ValuesDiffer
    <2>2. \A a \in Branches : a \in Unsettled(e)' <=> a \in Unsettled(e) \/ a = b
      BY <1>2, <2>1 DEF Unsettled, Deferred
    <2>3. Unsettled(e) \subseteq Branches /\ Unsettled(e)' \subseteq Branches
      BY DEF Unsettled, Deferred
    <2>4. b \notin Unsettled(e) BY <1>2 DEF Unsettled, Deferred
    <2>5. QED BY <1>2, <2>2, <2>3, <2>4
  <1>4. Interactive(op) <=> kind \in {"run", "fg"} BY <1>1 DEF Interactive
  <1>5. /\ q \in Seq(Branches) /\ Members(q) = {a \in Unsettled(e) : Interactive(ops[e][a])}
        /\ \A i, j \in 1..Len(q) : q[i] = q[j] => i = j
        /\ \A a \in Unsettled(e) : Interactive(ops[e][a]) /\ ops[e][a].started => InFront(e, a)
    BY DEF TypeOK, QueueInv, QueueFits
  <1>6. PICK n \in Nat : n = Len(q) BY <1>5
  <1>7. CASE kind \in {"run", "fg"}
    <2>1. /\ queue'[e] = Append(q, b) /\ Len(queue'[e]) = n + 1 /\ queue'[e][n + 1] = b
          /\ \A i \in 1..n : queue'[e][i] = q[i]
      BY <1>2, <1>5, <1>6, <1>7
    <2>2. \A i \in 1..n + 1 : i \in 1..n \/ i = n + 1 BY <1>6
    <2>3. \A i \in 1..n : q[i] # b /\ q[i] \in Members(q)
      BY <1>3, <1>5, <1>6 DEF Members
    <2>4. \A i, j \in 1..Len(queue'[e]) : queue'[e][i] = queue'[e][j] => i = j
      BY <1>5, <1>6, <2>1, <2>2, <2>3
    <2>5. Members(queue'[e]) = Members(q) \union {b}
      <3>1. n + 1 \in 1..n + 1 /\ \A i \in 1..n : i \in 1..n + 1 BY <1>6
      <3>2. \A a : a \in Members(queue'[e]) <=> \E i \in 1..n + 1 : a = queue'[e][i]
        BY <2>1 DEF Members
      <3>3. \A a : a \in Members(q) <=> \E i \in 1..n : a = q[i] BY <1>6 DEF Members
      <3>4. \A a : a \in Members(queue'[e]) <=> a \in Members(q) \/ a = b
        BY <2>1, <2>2, <3>1, <3>2, <3>3
      <3>5. QED BY <3>4
    <2>6. Members(queue'[e]) = {a \in Unsettled(e)' : Interactive(ops'[e][a])}
      BY <1>2, <1>3, <1>4, <1>5, <1>7, <2>5
    <2>7. ASSUME NEW a \in Unsettled(e)', Interactive(ops'[e][a]), ops'[e][a].started
          PROVE  InFront(e, a)'
      <3>1. a \in Unsettled(e) /\ InFront(e, a) BY <1>1, <1>2, <1>3, <1>5, <2>7
      <3>2. queue'[e] # <<>> /\ Head(queue'[e]) = Head(q)
        BY <1>5, <2>1, <3>1, HeadTailAppend DEF InFront
      <3>3. QED BY <3>1, <3>2 DEF InFront
    <2>8. QED BY <2>4, <2>6, <2>7 DEF QueueFits
  <1>8. CASE kind \notin {"run", "fg"}
    <2>1. queue'[e] = q BY <1>2, <1>8
    <2>2. Members(q) = {a \in Unsettled(e)' : Interactive(ops'[e][a])}
      BY <1>2, <1>3, <1>4, <1>5, <1>8
    <2>3. ASSUME NEW a \in Unsettled(e)', Interactive(ops'[e][a]), ops'[e][a].started
          PROVE  InFront(e, a)'
      <3>1. a \in Unsettled(e) /\ InFront(e, a) BY <1>1, <1>2, <1>3, <1>5, <2>3
      <3>2. QED BY <2>1, <3>1 DEF InFront
    <2>4. QED BY <1>5, <2>1, <2>2, <2>3 DEF QueueFits
  <1>9. QED BY <1>7, <1>8

\* Every step keeps the queue and the operations together.
LEMMA QueueStep ==
  ASSUME TypeOK, QueueInv, [Next]_vars
  PROVE  QueueInv'
  <1>1. ASSUME NEW d \in Evaluations, ops'[d] = ops[d], queue'[d] = queue[d]
        PROVE  QueueFits(d)'
    BY <1>1 DEF QueueInv, QueueFits, Unsettled, Deferred, InFront
  <1>2. CASE UNCHANGED <<ops, queue>> BY <1>1, <1>2 DEF QueueInv
  <1>3. ASSUME NEW e \in Evaluations, NEW b \in Branches, NEW g \in Groups, NEW kind \in Callbacks,
               Defer(e, b, kind, g)
        PROVE  QueueInv'
    <2>1. \A d \in Evaluations \ {e} : ops'[d] = ops[d] /\ queue'[d] = queue[d]
      BY <1>3 DEF Defer, TypeOK
    <2>2. QED BY <1>1, <1>3, <2>1, DeferredFits DEF QueueInv
  <1>4. ASSUME NEW e \in Evaluations, NEW b \in Branches, Advance(e, b)
        PROVE  QueueInv'
    <2>1. /\ b \in Unsettled(e) /\ Turn(e, b)
          /\ ops' = [ops EXCEPT ![e][b].started = TRUE] /\ queue' = queue
      BY <1>4 DEF Advance
    <2>2. \A d \in Evaluations \ {e} : ops'[d] = ops[d] /\ queue'[d] = queue[d]
      BY <2>1 DEF TypeOK
    <2>3. ops[e][b] \in Operation BY <2>1, UnsettledTypes
    <2>4. /\ ops'[e][b] = [ops[e][b] EXCEPT !.started = TRUE]
          /\ \A a \in Branches \ {b} : ops'[e][a] = ops[e][a]
      BY <2>1 DEF TypeOK
    <2>5. ops'[e][b] \in Operation /\ ops'[e][b].kind = ops[e][b].kind
      <3>1. /\ [ops[e][b] EXCEPT !.started = TRUE] \in Operation
            /\ [ops[e][b] EXCEPT !.started = TRUE].kind = ops[e][b].kind
        BY <2>3, OperationFields
      <3>2. QED BY <2>4, <3>1
    <2>6. Unsettled(e)' = Unsettled(e)
      <3>1. \A a \in Branches : a \in Unsettled(e)' <=> a \in Unsettled(e)
        BY <2>1, <2>4, <2>5, ValuesDiffer DEF Unsettled, Deferred
      <3>2. Unsettled(e) \subseteq Branches /\ Unsettled(e)' \subseteq Branches
        BY DEF Unsettled, Deferred
      <3>3. QED BY <3>1, <3>2
    <2>7. Unsettled(e) \subseteq Branches BY DEF Unsettled, Deferred
    <2>8. \A a \in Unsettled(e) : Interactive(ops'[e][a]) <=> Interactive(ops[e][a])
      BY <2>4, <2>5, <2>7 DEF Interactive
    <2>9. ASSUME NEW a \in Unsettled(e)', Interactive(ops'[e][a]), ops'[e][a].started
          PROVE  InFront(e, a)'
      <3>1. CASE a = b BY <2>1, <2>6, <2>8, <2>9, <3>1 DEF Turn, InFront
      <3>2. CASE a # b
        <4>1. a \in Unsettled(e) /\ ops'[e][a] = ops[e][a] BY <2>4, <2>6, <2>7, <2>9, <3>2
        <4>2. InFront(e, a) BY <2>9, <4>1 DEF QueueInv, QueueFits
        <4>3. QED BY <2>1, <4>2 DEF InFront
      <3>3. QED BY <3>1, <3>2
    <2>10. QueueFits(e)'
      <3>1. QueueFits(e) /\ queue'[e] = queue[e] BY <2>1 DEF QueueInv
      <3>2. Members(queue[e]) = {a \in Unsettled(e)' : Interactive(ops'[e][a])}
        BY <2>6, <2>8, <3>1 DEF QueueFits
      <3>3. QED BY <2>9, <3>1, <3>2 DEF QueueFits
    <2>11. QED BY <1>1, <2>2, <2>10 DEF QueueInv
  <1>5. ASSUME NEW e \in Evaluations, NEW b \in Branches, Collect(e, b)
        PROVE  QueueInv'
    <2>1. /\ ops[e][b] = Settled /\ ops' = [ops EXCEPT ![e][b] = None] /\ queue' = queue
      BY <1>5 DEF Collect
    <2>2. \A d \in Evaluations \ {e} : ops'[d] = ops[d] /\ queue'[d] = queue[d]
      BY <2>1 DEF TypeOK
    <2>3. Unsettled(e)' = Unsettled(e) /\ \A a \in Unsettled(e) : ops'[e][a] = ops[e][a]
      <3>1. \A a \in Branches : a \in Unsettled(e)' <=> a \in Unsettled(e)
        BY <2>1 DEF TypeOK, Unsettled, Deferred
      <3>2. Unsettled(e) \subseteq Branches /\ Unsettled(e)' \subseteq Branches
        BY DEF Unsettled, Deferred
      <3>3. b \notin Unsettled(e) BY <2>1 DEF Unsettled
      <3>4. QED BY <2>1, <3>1, <3>2, <3>3 DEF TypeOK
    <2>4. QueueFits(e)'
      <3>1. QueueFits(e) /\ queue'[e] = queue[e] BY <2>1 DEF QueueInv
      <3>2. Members(queue[e]) = {a \in Unsettled(e)' : Interactive(ops'[e][a])}
        BY <2>3, <3>1 DEF QueueFits
      <3>3. ASSUME NEW a \in Unsettled(e)', Interactive(ops'[e][a]), ops'[e][a].started
            PROVE  InFront(e, a)'
        <4>1. InFront(e, a) BY <2>3, <3>1, <3>3 DEF QueueFits
        <4>2. QED BY <3>1, <4>1 DEF InFront
      <3>4. QED BY <3>1, <3>2, <3>3 DEF QueueFits
    <2>5. QED BY <1>1, <2>2, <2>4 DEF QueueInv
  <1>6. ASSUME NEW e \in Evaluations, NEW b \in Branches, NEW asked \in BOOLEAN,
               NEW interrupted \in BOOLEAN, Complete(e, b, asked, interrupted)
        PROVE  QueueInv'
    <2>1. /\ queue' = [queue EXCEPT ![e] = Without(queue[e], {b})]
          /\ ops' = [ops EXCEPT ![e][b] = IF asked \/ interrupted THEN None ELSE Settled]
      BY <1>6 DEF Complete, Dequeued
    <2>2. \A d \in Evaluations \ {e} : ops'[d] = ops[d] /\ queue'[d] = queue[d]
      BY <2>1 DEF TypeOK
    <2>3. /\ queue'[e] = Without(queue[e], {b})
          /\ \A a \in Branches \ {b} : ops'[e][a] = ops[e][a]
          /\ ops'[e][b] \in {None, Settled}
      BY <2>1 DEF TypeOK
    <2>4. QueueFits(e)' BY <2>3, DroppedFits DEF QueueInv
    <2>5. QED BY <1>1, <2>2, <2>4 DEF QueueInv
  <1>7. ASSUME NEW e \in Evaluations, NEW B, B \subseteq Deferred(e), Closed(e, B)
        PROVE  QueueInv'
    <2>1. \A d \in Evaluations \ {e} : ops'[d] = ops[d] /\ queue'[d] = queue[d]
      BY <1>7 DEF Closed, Dequeued, TypeOK
    <2>2. QED BY <1>1, <1>7, <2>1, ClosedFits DEF QueueInv
  <1>8. ASSUME NEW e \in Evaluations, Finish(e)
        PROVE  QueueInv'
    <2>1. /\ ops' = [ops EXCEPT ![e] = [b \in Branches |-> None]]
          /\ queue' = [queue EXCEPT ![e] = <<>>]
      BY <1>8 DEF Finish
    <2>2. \A d \in Evaluations \ {e} : ops'[d] = ops[d] /\ queue'[d] = queue[d]
      BY <2>1 DEF TypeOK
    <2>3. Unsettled(e)' = {} BY <2>1 DEF TypeOK, Unsettled, Deferred
    <2>4. queue'[e] = <<>> /\ Members(<<>>) = {} /\ Len(<<>>) = 0
      BY <2>1 DEF TypeOK, Members
    <2>5. QueueFits(e)' BY <2>3, <2>4 DEF QueueFits
    <2>6. QED BY <1>1, <2>2, <2>5 DEF QueueInv
  <1>9. QED BY <1>2, <1>3, <1>4, <1>5, <1>6, <1>7, <1>8, OperationSteps


-----------------------------------------------------------------------------
(* The owners *)

\* From r to q no group comes to life.
Alive == {"held", "running", "stopped"}
Fades(r, q) ==
  \A g \in Groups : (q[g] = "unused" => r[g] = "unused") /\ (q[g] \in Alive => r[g] \in Alive)

LEMMA FadingEffects ==
  ASSUME NEW r, NEW S, NEW q, Fades(r, q)
  PROVE  /\ Fades(r, Continued(q, S)) /\ Fades(r, Stopped(q, S))
         /\ Fades(r, Ended(q, S)) /\ Fades(r, Reaped(q, S)) /\ Fades(r, r)
         /\ \A g \in Groups : g \in S => Ended(q, S)[g] \notin Alive
         /\ \A g \in Groups : q[g] \notin Alive => /\ Continued(q, S)[g] \notin Alive
                                                   /\ Ended(q, S)[g] \notin Alive
                                                   /\ Reaped(q, S)[g] \notin Alive
  BY DEF Fades, Continued, Stopped, Ended, Reaped, Alive

\* An operation is the same operation for its group.
Same(x, y) == x.kind = y.kind /\ x.group = y.group

\* What an evaluation owns it keeps, or it is over; its new operations are of jobs.
OpsKept(d) ==
  /\ \A b \in Unsettled(d)' :
       \/ b \in Unsettled(d) /\ Same(ops'[d][b], ops[d][b])
       \/ ~OwnsGroup(ops'[d][b]) /\ ops'[d][b].group \in table
  /\ \A b \in Unsettled(d) : OwnsGroup(ops[d][b]) =>
       run'[ops[d][b].group] \notin Alive \/ (b \in Unsettled(d)' /\ Same(ops'[d][b], ops[d][b]))
PendingKept(d) ==
  /\ pending'[d] # None =>
       \/ pending[d] # None /\ Same(pending'[d], pending[d])
       \/ ~OwnsGroup(pending'[d]) /\ pending'[d].group \in table
  /\ pending[d] # None /\ OwnsGroup(pending[d]) =>
       run'[pending[d].group] \notin Alive \/ (pending'[d] # None /\ Same(pending'[d], pending[d]))

LEMMA KeptWhole ==
  ASSUME NEW d \in Evaluations
  PROVE  /\ ops'[d] = ops[d] => OpsKept(d)
         /\ pending'[d] = pending[d] => PendingKept(d)
  BY DEF OpsKept, PendingKept, Same, Unsettled, Deferred

\* As long as owners are only lost with their groups, every group has its owner.
LEMMA OwnersStay ==
  ASSUME TypeOK, OwnerInv, TableInv, table' = table, Fades(run, run'),
         \A d \in Evaluations : OpsKept(d) /\ PendingKept(d),
         leaving' = "gone" => leaving = "gone"
  PROVE  OwnerInv' /\ TableInv'
  <1>1. \A g \in Groups : (run'[g] = "unused" => run[g] = "unused") /\ (Live(g)' => Live(g))
    BY DEF Fades, Alive, Live
  <1>2. \A e \in Evaluations, b \in Branches, g \in Groups : Owned(e, b, g)' => Owned(e, b, g)
    <2>1. SUFFICES ASSUME NEW e \in Evaluations, NEW b \in Branches, NEW g \in Groups,
                          Owned(e, b, g)'
                   PROVE  Owned(e, b, g)
      OBVIOUS
    <2>2. b \in Unsettled(e)' /\ OwnsGroup(ops'[e][b]) /\ ops'[e][b].group = g
      BY <2>1 DEF Owned
    <2>3. b \in Unsettled(e) /\ Same(ops'[e][b], ops[e][b]) BY <2>2 DEF OpsKept
    <2>4. QED BY <2>2, <2>3 DEF Owned, Same, OwnsGroup
  <1>3. \A e \in Evaluations, g \in Groups : Awaited(e, g)' => Awaited(e, g)
    <2>1. SUFFICES ASSUME NEW e \in Evaluations, NEW g \in Groups, Awaited(e, g)'
                   PROVE  Awaited(e, g)
      OBVIOUS
    <2>2. pending'[e] # None /\ OwnsGroup(pending'[e]) /\ pending'[e].group = g
      BY <2>1 DEF Awaited
    <2>3. pending[e] # None /\ Same(pending'[e], pending[e]) BY <2>2 DEF PendingKept
    <2>4. QED BY <2>2, <2>3 DEF Awaited, Same, OwnsGroup
  <1>4. \A g \in Groups, e \in Evaluations, b \in Branches :
          Live(g)' /\ Owned(e, b, g) => Owned(e, b, g)'
    <2>1. SUFFICES ASSUME NEW e \in Evaluations, NEW b \in Branches, NEW g \in Groups,
                          Owned(e, b, g), Live(g)'
                   PROVE  Owned(e, b, g)'
      OBVIOUS
    <2>2. b \in Unsettled(e) /\ OwnsGroup(ops[e][b]) /\ ops[e][b].group = g BY <2>1 DEF Owned
    <2>3. b \in Unsettled(e)' /\ Same(ops'[e][b], ops[e][b])
      BY <2>1, <2>2 DEF OpsKept, Live, Alive
    <2>4. QED BY <2>2, <2>3 DEF Owned, Same, OwnsGroup
  <1>5. \A g \in Groups, e \in Evaluations : Live(g)' /\ Awaited(e, g) => Awaited(e, g)'
    <2>1. SUFFICES ASSUME NEW e \in Evaluations, NEW g \in Groups, Awaited(e, g), Live(g)'
                   PROVE  Awaited(e, g)'
      OBVIOUS
    <2>2. pending[e] # None /\ OwnsGroup(pending[e]) /\ pending[e].group = g BY <2>1 DEF Awaited
    <2>3. pending'[e] # None /\ Same(pending'[e], pending[e])
      BY <2>1, <2>2 DEF PendingKept, Live, Alive
    <2>4. QED BY <2>2, <2>3 DEF Awaited, Same, OwnsGroup
  <1>6. OwnerInv' BY <1>1, <1>2, <1>3, <1>4, <1>5 DEF OwnerInv
  <1>7. ASSUME NEW e \in Evaluations, NEW b \in Unsettled(e)', ~OwnsGroup(ops'[e][b])
        PROVE  ops'[e][b].group \in table
    <2>1. CASE b \in Unsettled(e) /\ Same(ops'[e][b], ops[e][b])
      <3>1. ~OwnsGroup(ops[e][b]) BY <1>7, <2>1 DEF Same, OwnsGroup
      <3>2. QED BY <2>1, <3>1 DEF TableInv, Same
    <2>2. QED BY <1>7, <2>1 DEF OpsKept
  <1>8. ASSUME NEW e \in Evaluations, pending'[e] # None, ~OwnsGroup(pending'[e])
        PROVE  pending'[e].group \in table
    <2>1. CASE pending[e] # None /\ Same(pending'[e], pending[e])
      <3>1. ~OwnsGroup(pending[e]) BY <1>8, <2>1 DEF Same, OwnsGroup
      <3>2. QED BY <2>1, <3>1 DEF TableInv, Same
    <2>2. QED BY <1>8, <2>1 DEF PendingKept
  <1>9. table \subseteq Groups BY DEF TypeOK
  <1>10. TableInv' BY <1>1, <1>7, <1>8, <1>9 DEF TableInv
  <1>11. QED BY <1>6, <1>10

\* Closed operations end with the groups they own.
LEMMA ClosedKeeps ==
  ASSUME TypeOK, NEW e \in Evaluations, NEW B, B \subseteq Deferred(e), Closed(e, B)
  PROVE  Fades(run, run') /\ \A d \in Evaluations : OpsKept(d)
  <1>1. Fades(run, run') /\ \A b \in B \intersect Attached(e) : run'[ops[e][b].group] \notin Alive
    <2> DEFINE S == {ops[e][b].group : b \in B \intersect Attached(e)}
    <2>1. run' = Ended(run, S) BY DEF Closed
    <2>2. \A b \in B \intersect Attached(e) : ops[e][b].group \in Groups
      BY UnsettledTypes, OperationFields DEF Attached, AttachedControls
    <2>3. Fades(run, run) BY DEF Fades
    <2>4. Fades(run, run') /\ \A g \in Groups : g \in S => run'[g] \notin Alive
      BY <2>1, <2>3, FadingEffects
    <2>5. \A b \in B \intersect Attached(e) : ops[e][b].group \in S OBVIOUS
    <2>6. QED BY <2>2, <2>4, <2>5
  <1>2. \A b \in Branches : ops'[e][b] = IF b \in B THEN None ELSE ops[e][b]
    BY DEF Closed, TypeOK
  <1>3. \A d \in Evaluations \ {e} : ops'[d] = ops[d] BY DEF Closed, TypeOK
  <1>4. /\ \A b \in Unsettled(e)' : b \in Unsettled(e) /\ ops'[e][b] = ops[e][b]
        /\ \A b \in Unsettled(e) : b \in B \/ (b \in Unsettled(e)' /\ ops'[e][b] = ops[e][b])
    BY <1>2 DEF Unsettled, Deferred
  <1>5. \A b \in Unsettled(e) : OwnsGroup(ops[e][b]) => b \in Attached(e) BY DEF Attached
  <1>6. OpsKept(e) BY <1>1, <1>4, <1>5 DEF OpsKept, Same
  <1>7. QED BY <1>1, <1>3, <1>6, KeptWhole


\* A group that nobody has used yet has no owner and is no job.
LEMMA UnusedIsFree ==
  ASSUME TypeOK, OwnerInv, TableInv, NEW g \in Groups, run[g] = "unused"
  PROVE  /\ g \notin table
         /\ \A e \in Evaluations : ~Awaited(e, g) /\ \A b \in Branches : ~Owned(e, b, g)
  BY DEF OwnerInv, TableInv

\* A run and a capture are new groups with one owner; a start makes a job.
LEMMA NewOwners ==
  ASSUME TypeOK, ChainInv, OwnerInv, TableInv, NEW e \in Evaluations, NEW g \in Groups
  PROVE  /\ Start(e, g) => OwnerInv' /\ TableInv'
         /\ \A kind \in {"run", "capture"} : Run(e, kind, g) => OwnerInv' /\ TableInv'
         /\ \A kind \in {"run", "capture"}, b \in Branches :
              Defer(e, b, kind, g) => OwnerInv' /\ TableInv'
  <1> USE DEF program, session
  <1>1. ASSUME run[g] = "unused", run' \in {[run EXCEPT ![g] = "running"], [run EXCEPT ![g] = "held"]}
        PROVE  /\ \A h \in Groups \ {g} : run'[h] = run[h]
               /\ run'[g] # "unused" /\ Live(g)'
               /\ \A d \in Evaluations : ~Awaited(d, g) /\ \A b \in Branches : ~Owned(d, b, g)
               /\ g \notin table
    BY <1>1, UnusedIsFree DEF TypeOK, Live
  <1>2. ASSUME Start(e, g)
        PROVE  OwnerInv' /\ TableInv'
    <2>1. /\ table' = table \union {g} /\ UNCHANGED <<ops, pending>> /\ leaving' = leaving
          /\ \A h \in Groups \ {g} : run'[h] = run[h]
          /\ run'[g] # "unused"
          /\ \A d \in Evaluations : ~Awaited(d, g) /\ \A b \in Branches : ~Owned(d, b, g)
      BY <1>1, <1>2 DEF Start
    <2>2. /\ \A d \in Evaluations, b \in Branches, h \in Groups : Owned(d, b, h)' <=> Owned(d, b, h)
          /\ \A d \in Evaluations, h \in Groups : Awaited(d, h)' <=> Awaited(d, h)
          /\ \A d \in Evaluations : Unsettled(d)' = Unsettled(d)
      BY <2>1 DEF Owned, Awaited, Unsettled, Deferred
    <2>3. \A h \in Groups \ {g} : Live(h)' <=> Live(h) BY <2>1 DEF Live
    <2>4. OwnerInv' BY <2>1, <2>2, <2>3 DEF OwnerInv
    <2>5. leaving # "gone"
      BY <1>2, DrivenAlone DEF Start, Stepping
    <2>6. TableInv' BY <2>1, <2>2, <2>5 DEF TableInv, TypeOK
    <2>7. QED BY <2>4, <2>6
  <1>3. ASSUME NEW kind \in {"run", "capture"}, Run(e, kind, g)
        PROVE  OwnerInv' /\ TableInv'
    <2> DEFINE op == [NewOperation(kind, g) EXCEPT !.started = TRUE]
    <2>1. /\ UNCHANGED <<table, ops, leaving>> /\ pending[e] = None /\ pending'[e] = op
          /\ \A d \in Evaluations \ {e} : pending'[d] = pending[d]
      BY <1>3 DEF Run, Stepping, TypeOK
    <2>2. /\ \A h \in Groups \ {g} : run'[h] = run[h]
          /\ run'[g] # "unused" /\ g \notin table
          /\ \A d \in Evaluations : ~Awaited(d, g) /\ \A b \in Branches : ~Owned(d, b, g)
      BY <1>1, <1>3 DEF Run
    <2>3. op # None /\ op.group = g /\ OwnsGroup(op)
      <3>1. /\ NewOperation(kind, g) \in Operation
            /\ NewOperation(kind, g).group = g /\ NewOperation(kind, g).kind = kind
        BY <1>3, OperationFields DEF Kinds
      <3>2. op \in Operation /\ op.group = g /\ op.kind = kind BY <3>1, OperationFields
      <3>3. QED BY <1>3, <3>2, ValuesDiffer DEF OwnsGroup
    <2>4. /\ \A d \in Evaluations, b \in Branches, h \in Groups : Owned(d, b, h)' <=> Owned(d, b, h)
          /\ \A d \in Evaluations : Unsettled(d)' = Unsettled(d)
      BY <2>1 DEF Owned, Unsettled, Deferred
    <2>5. \A d \in Evaluations, h \in Groups : Awaited(d, h)' <=> Awaited(d, h) \/ (d = e /\ h = g)
      BY <2>1, <2>3 DEF Awaited
    <2>6. \A h \in Groups \ {g} : Live(h)' <=> Live(h) BY <2>2 DEF Live
    <2>7. OwnerInv' BY <2>1, <2>2, <2>4, <2>5, <2>6 DEF OwnerInv
    <2>8. leaving # "gone" BY <1>3, DrivenAlone DEF Run, Stepping
    <2>9. TableInv'
      <3>1. \A d \in Evaluations : \A b \in Unsettled(d)' :
              ~OwnsGroup(ops'[d][b]) => ops'[d][b].group \in table
        BY <2>1, <2>4 DEF TableInv
      <3>2. \A d \in Evaluations : pending'[d] # None /\ ~OwnsGroup(pending'[d])
                                      => pending'[d].group \in table
        BY <2>1, <2>3 DEF TableInv
      <3>3. \A h \in table : run'[h] # "unused" BY <2>2 DEF TableInv, TypeOK
      <3>4. QED BY <2>1, <2>8, <3>1, <3>2, <3>3 DEF TableInv
    <2>10. QED BY <2>7, <2>9
  <1>4. ASSUME NEW kind \in {"run", "capture"}, NEW b \in Branches, Defer(e, b, kind, g)
        PROVE  OwnerInv' /\ TableInv'
    <2> DEFINE op == NewOperation(kind, g)
    <2>1. /\ UNCHANGED <<table, pending, leaving>> /\ ops[e][b] = None /\ ops'[e][b] = op
          /\ \A a \in Branches \ {b} : ops'[e][a] = ops[e][a]
          /\ \A d \in Evaluations \ {e} : ops'[d] = ops[d]
      BY <1>4 DEF Defer, TypeOK
    <2>2. /\ \A h \in Groups \ {g} : run'[h] = run[h]
          /\ run'[g] # "unused" /\ g \notin table
          /\ \A d \in Evaluations : ~Awaited(d, g) /\ \A a \in Branches : ~Owned(d, a, g)
      BY <1>1, <1>4 DEF Defer
    <2>3. op # None /\ op # Settled /\ op.group = g /\ OwnsGroup(op)
      <3>1. op \in Operation /\ op.group = g /\ op.kind = kind
        BY <1>4, OperationFields DEF Kinds
      <3>2. QED BY <1>4, <3>1, ValuesDiffer DEF OwnsGroup
    <2>4. /\ b \notin Unsettled(e)
          /\ \A d \in Evaluations, a \in Branches :
               a \in Unsettled(d)' <=> a \in Unsettled(d) \/ (d = e /\ a = b)
      BY <2>1, <2>3 DEF Unsettled, Deferred
    <2>5. \A d \in Evaluations, a \in Branches, h \in Groups :
            Owned(d, a, h)' <=> Owned(d, a, h) \/ (d = e /\ a = b /\ h = g)
      BY <2>1, <2>3, <2>4 DEF Owned
    <2>6. \A d \in Evaluations, h \in Groups : Awaited(d, h)' <=> Awaited(d, h)
      BY <2>1 DEF Awaited
    <2>7. \A h \in Groups \ {g} : Live(h)' <=> Live(h) BY <2>2 DEF Live
    <2>8. OwnerInv' BY <2>1, <2>2, <2>5, <2>6, <2>7 DEF OwnerInv
    <2>9. leaving # "gone" BY <1>4, DrivenAlone DEF Defer, Stepping
    <2>10. \A d \in Evaluations : \A a \in Unsettled(d)' :
             ~OwnsGroup(ops'[d][a]) => ops'[d][a].group \in table
      <3>1. TAKE d \in Evaluations
      <3>2. TAKE a \in Unsettled(d)'
      <3>3. HAVE ~OwnsGroup(ops'[d][a])
      <3>4. a \in Branches BY DEF Unsettled, Deferred
      <3>5. a \in Unsettled(d) /\ ops'[d][a] = ops[d][a] BY <2>1, <2>3, <2>4, <3>3, <3>4
      <3>6. QED BY <3>3, <3>5 DEF TableInv
    <2>11. TableInv' BY <2>1, <2>2, <2>9, <2>10 DEF TableInv, TypeOK
    <2>12. QED BY <2>8, <2>11
  <1>5. QED BY <1>2, <1>3, <1>4


\* A resumption, and its failure, which ends the run of the evaluation.
LEMMA ResumedRuns ==
  ASSUME NEW d, NEW q, NEW r, NEW s, Fades(q, r), Resumed(d, r, s)
  PROVE  /\ Fades(q, run')
         /\ ~Resumable(d) => \E p : Fades(q, p) /\ run' = Ended(p, Held(d))
  <1>1. CASE Resumable(d)
    <2>1. \E S : run' = Continued(r, S) BY <1>1 DEF Resumed
    <2>2. QED BY <1>1, <2>1, FadingEffects
  <1>2. CASE ~Resumable(d)
    <2>1. PICK S : run' = Ended(Continued(r, S), Held(d)) BY <1>2 DEF Resumed
    <2>2. Fades(q, Continued(r, S)) BY FadingEffects
    <2>3. Fades(q, run') BY <2>1, <2>2, FadingEffects
    <2>4. QED BY <2>1, <2>2, <2>3
  <1>3. QED BY <1>1, <1>2

\* An evaluation that is cancelled loses its run with the processes.
LEMMA HeldEnds ==
  ASSUME TypeOK, NEW d \in Evaluations, NEW q, Fades(run, q), run' = Ended(q, Held(d)),
         pending' = [pending EXCEPT ![d] = None]
  PROVE  Fades(run, run') /\ \A x \in Evaluations : PendingKept(x)
  <1>1. Fades(run, run') BY FadingEffects
  <1>2. \A x \in Evaluations \ {d} : PendingKept(x) BY KeptWhole DEF TypeOK
  <1>3. ASSUME pending[d] # None, OwnsGroup(pending[d])
        PROVE  run'[pending[d].group] \notin Alive
    <2>1. pending[d].group \in Groups BY <1>3, UnsettledTypes, OperationFields
    <2>2. pending[d].group \in Held(d) BY <1>3 DEF Held, OwnsGroup
    <2>3. QED BY <2>1, <2>2, FadingEffects
  <1>4. PendingKept(d) BY <1>3 DEF PendingKept, TypeOK
  <1>5. QED BY <1>1, <1>2, <1>4

\* Every other step of a program loses an owner only with its group ...
LEMMA ProgramOwners ==
  ASSUME TypeOK, ChainInv, RestInv, OwnerInv, TableInv, NEW e \in Evaluations, Program(e)
  PROVE  OwnerInv' /\ TableInv'
  <1> USE DEF program, session
  <1>1. Fades(run, run) BY DEF Fades
  <1>2. ASSUME Fades(run, run'), UNCHANGED <<table, ops, pending>>,
               leaving' = "gone" => leaving = "gone"
        PROVE  OwnerInv' /\ TableInv'
    BY <1>2, KeptWhole, OwnersStay
  <1>3. Driven(e) /\ leaving # "gone"
    BY DrivenAlone DEF Program, Start, Defer, ControlNow, Control, Run, Snapshots, Release,
                       Close, Foregrounds, Cancels, Exit, Stepping
  <1>4. ASSUME NEW kind \in Callbacks \intersect {"fg", "wait"}, NEW b \in Branches,
               NEW g \in Groups, Defer(e, b, kind, g)
        PROVE  OwnerInv' /\ TableInv'
    <2> DEFINE op == NewOperation(kind, g)
    <2>1. /\ op \notin {None, Settled} /\ op.group = g /\ ~OwnsGroup(op)
      <3>1. op \in Operation /\ op.group = g /\ op.kind = kind
        BY <1>4, OperationFields DEF Kinds
      <3>2. QED BY <1>4, <3>1, ValuesDiffer DEF OwnsGroup
    <2>2. /\ g \in table /\ UNCHANGED <<run, table, pending, leaving>> /\ ops[e][b] = None
          /\ ops'[e][b] = op /\ \A a \in Branches \ {b} : ops'[e][a] = ops[e][a]
          /\ \A d \in Evaluations \ {e} : ops'[d] = ops[d]
      BY <1>4 DEF Defer, TypeOK
    <2>3. \A a \in Branches : a \in Unsettled(e)' <=> a \in Unsettled(e) \/ a = b
      BY <2>1, <2>2 DEF Unsettled, Deferred
    <2>4. b \notin Unsettled(e) /\ Unsettled(e) \subseteq Branches /\ Unsettled(e)' \subseteq Branches
      BY <2>2 DEF Unsettled, Deferred
    <2>5. OpsKept(e) BY <2>1, <2>2, <2>3, <2>4 DEF OpsKept, Same
    <2>6. QED BY <1>1, <2>2, <2>5, KeptWhole, OwnersStay
  <1>5. ASSUME NEW kind, NEW g \in Groups, ControlNow(e, kind, g)
        PROVE  OwnerInv' /\ TableInv'
    <2>1. /\ run' \in {Continued(run, {g}), run, Ended(run, {g})}
          /\ UNCHANGED <<table, ops, pending, leaving>>
      BY <1>5 DEF ControlNow
    <2>2. Fades(run, run') BY <1>1, <2>1, FadingEffects
    <2>3. QED BY <1>2, <2>1, <2>2
  <1>6. ASSUME NEW kind \in {"fg", "wait"}, NEW g \in Groups, Control(e, kind, g)
        PROVE  OwnerInv' /\ TableInv'
    <2> DEFINE op == [NewOperation(kind, g) EXCEPT !.started = TRUE]
    <2>1. op.group = g /\ ~OwnsGroup(op)
      <3>1. /\ NewOperation(kind, g) \in Operation
            /\ NewOperation(kind, g).group = g /\ NewOperation(kind, g).kind = kind
        BY <1>6, OperationFields DEF Kinds
      <3>2. op.group = g /\ op.kind = kind BY <3>1, OperationFields
      <3>3. QED BY <1>6, <3>2 DEF OwnsGroup
    <2>2. /\ g \in table /\ UNCHANGED <<table, ops, leaving>> /\ pending[e] = None
          /\ pending'[e] = op /\ \A d \in Evaluations \ {e} : pending'[d] = pending[d]
          /\ run' \in {Continued(run, {g}), run}
      BY <1>6 DEF Control, Stepping, TypeOK
    <2>3. Fades(run, run') BY <1>1, <2>2, FadingEffects
    <2>4. PendingKept(e) BY <2>1, <2>2 DEF PendingKept
    <2>5. QED BY <2>2, <2>3, <2>4, KeptWhole, OwnersStay
  <1>7. CASE Snapshots(e)
    <2>1. Fades(run, run') BY <1>1, <1>7, FadingEffects DEF Snapshots
    <2>2. QED BY <1>2, <1>7, <2>1 DEF Snapshots
  <1>8. CASE Release(e) BY <1>1, <1>2, <1>8 DEF Release
  <1>9. ASSUME NEW B, Close(e, B)
        PROVE  OwnerInv' /\ TableInv'
    <2>1. Fades(run, run') /\ \A d \in Evaluations : OpsKept(d)
      BY <1>9, ClosedKeeps DEF Close
    <2>2. QED BY <1>9, <2>1, KeptWhole, OwnersStay DEF Close
  <1>10. ASSUME NEW force, Exit(e, force)
         PROVE  OwnerInv' /\ TableInv'
    <2>1. Fades(run, run') BY <1>1, <1>10, FadingEffects DEF Exit
    <2>2. QED BY <1>2, <1>10, <2>1 DEF Exit
  <1>11. ASSUME NEW c \in parked, Foregrounds(e, c) \/ Cancels(e, c)
         PROVE  OwnerInv' /\ TableInv'
    <2> DEFINE d == Last(c)
    <2>1. d \in Evaluations BY <1>11, JoinedChains, RevivedSteps DEF Revived, Suspended
    <2>2. Fades(run, run) /\ Fades(run, Stopped(run, Frozen(e)))
      <3>1. Fades(run, run) BY <1>1
      <3>2. QED BY <3>1, FadingEffects
    <2>3. UNCHANGED <<table, ops, leaving>> BY <1>11 DEF Foregrounds, Cancels, Doom
    <2>4. Fades(run, run') /\ \A x \in Evaluations : PendingKept(x)
      <3>1. CASE Cancels(e, c) BY <2>1, <2>2, <3>1, HeldEnds DEF Cancels, Doom
      <3>2. CASE Foregrounds(e, c)
        <4>1. /\ \E s : Resumed(d, Stopped(run, Frozen(e)), s)
              /\ pending' = IF Resumable(d) THEN pending ELSE [pending EXCEPT ![d] = None]
          BY <3>2 DEF Foregrounds
        <4>2. CASE Resumable(d) BY <2>2, <4>1, <4>2, ResumedRuns, KeptWhole
        <4>3. CASE ~Resumable(d)
          <5>1. PICK p : Fades(run, p) /\ run' = Ended(p, Held(d))
            BY <2>2, <4>1, <4>3, ResumedRuns
          <5>2. QED BY <2>1, <4>1, <4>3, <5>1, HeldEnds
        <4>4. QED BY <4>2, <4>3
      <3>3. QED BY <1>11, <3>1, <3>2
    <2>5. QED BY <1>3, <2>3, <2>4, KeptWhole, OwnersStay
  <1>12. ASSUME NEW g \in Groups, NEW kind \in {"run", "capture"},
                \/ Run(e, kind, g) \/ Start(e, g)
                \/ \E b \in Branches : Defer(e, b, kind, g)
         PROVE  OwnerInv' /\ TableInv'
    BY <1>12, NewOwners
  <1>13. Callbacks \subseteq {"run", "capture"} \union {"fg", "wait"} BY KindsKnown
  <1>14. QED
    BY <1>4, <1>5, <1>6, <1>7, <1>8, <1>9, <1>10, <1>11, <1>12, <1>13 DEF Program


\* ... and so does every step of the coordinator ...
LEMMA CoordinatorOwners ==
  ASSUME TypeOK, ChainInv, RestInv, OwnerInv, TableInv, NEW e \in Evaluations,
         Coordinator(e) \/ Interrupt(e) \/ Park(e)
  PROVE  OwnerInv' /\ TableInv'
  <1> USE DEF program, session
  <1>1. Fades(run, run) BY DEF Fades
  <1>2. ASSUME NEW d \in Evaluations, pending[d] # None
        PROVE  pending[d] \in Operation /\ pending[d].group \in Groups
    BY <1>2, UnsettledTypes, OperationFields
  <1>3. ASSUME NEW b \in Branches, Advance(e, b)
        PROVE  OwnerInv' /\ TableInv'
    <2> DEFINE op == ops[e][b]
               new == [op EXCEPT !.started = TRUE]
    <2>1. op \in Operation /\ b \in Unsettled(e) BY <1>3, UnsettledTypes DEF Advance
    <2>2. new \in Operation /\ Same(new, op) BY <2>1, OperationFields DEF Same
    <2>3. /\ UNCHANGED <<table, pending, leaving>> /\ ops'[e][b] = new
          /\ \A a \in Branches \ {b} : ops'[e][a] = ops[e][a]
          /\ \A d \in Evaluations \ {e} : ops'[d] = ops[d]
      BY <1>3 DEF Advance, TypeOK
    <2>4. Fades(run, run')
      <3>1. CASE op.kind = "fg"
        <4>1. run' = Continued(run, {op.group}) BY <1>3, <3>1 DEF Advance
        <4>2. QED BY <1>1, <4>1, FadingEffects
      <3>2. CASE op.kind # "fg"
        <4>1. run' = [run EXCEPT ![op.group] = IF @ = "held" THEN "running" ELSE @]
          BY <1>3, <3>2 DEF Advance
        <4>2. QED BY <4>1 DEF Fades, Alive, TypeOK
      <3>3. QED BY <3>1, <3>2
    <2>5. \A a \in Branches : /\ a \in Unsettled(e)' <=> a \in Unsettled(e)
                              /\ a \in Unsettled(e) => Same(ops'[e][a], ops[e][a])
      BY <2>1, <2>2, <2>3, ValuesDiffer DEF Unsettled, Deferred, Same
    <2>6. Unsettled(e) \subseteq Branches /\ Unsettled(e)' \subseteq Branches
      BY DEF Unsettled, Deferred
    <2>7. OpsKept(e) BY <2>5, <2>6 DEF OpsKept
    <2>8. QED BY <2>3, <2>4, <2>7, KeptWhole, OwnersStay DEF Advance
  <1>4. ASSUME NEW b \in Branches, Collect(e, b)
        PROVE  OwnerInv' /\ TableInv'
    <2>1. /\ UNCHANGED <<run, table, pending, leaving>> /\ ops[e][b] = Settled /\ ops'[e][b] = None
          /\ \A a \in Branches \ {b} : ops'[e][a] = ops[e][a]
          /\ \A d \in Evaluations \ {e} : ops'[d] = ops[d]
      BY <1>4 DEF Collect, TypeOK
    <2>2. \A a \in Branches : /\ a \in Unsettled(e)' <=> a \in Unsettled(e)
                              /\ a \in Unsettled(e) => ops'[e][a] = ops[e][a]
      BY <2>1 DEF Unsettled, Deferred
    <2>3. Unsettled(e) \subseteq Branches /\ Unsettled(e)' \subseteq Branches
      BY DEF Unsettled, Deferred
    <2>4. OpsKept(e) BY <2>2, <2>3 DEF OpsKept, Same
    <2>5. QED BY <1>1, <2>1, <2>4, KeptWhole, OwnersStay
  <1>5. ASSUME NEW b \in Branches, NEW asked, NEW interrupted, Complete(e, b, asked, interrupted)
        PROVE  OwnerInv' /\ TableInv'
    <2> DEFINE op == ops[e][b]
    <2>1. op \in Operation /\ b \in Unsettled(e) /\ op.group \in Groups
      BY <1>5, UnsettledTypes, OperationFields DEF Complete
    <2>2. /\ UNCHANGED <<table, pending, leaving>> /\ ops'[e][b] \in {None, Settled}
          /\ \A a \in Branches \ {b} : ops'[e][a] = ops[e][a]
          /\ \A d \in Evaluations \ {e} : ops'[d] = ops[d]
      BY <1>5 DEF Complete, TypeOK
    <2>3. Fades(run, run') /\ (OwnsGroup(op) => run'[op.group] \notin Alive)
      <3>1. CASE WouldBlock(op)
        <4>1. run' = Ended(run, {op.group}) BY <1>5, <3>1 DEF Complete
        <4>2. QED BY <1>1, <2>1, <4>1, FadingEffects
      <3>2. CASE ~WouldBlock(op)
        <4>1. run' = Reaped(run, {op.group}) /\ Answerable(op) BY <1>5, <3>2 DEF Complete
        <4>2. OwnsGroup(op) => run[op.group] \notin Alive
          BY <4>1 DEF Answerable, OwnsGroup, Gone, Alive
        <4>3. QED BY <1>1, <2>1, <4>1, <4>2, FadingEffects
      <3>3. QED BY <3>1, <3>2
    <2>4. \A a \in Branches : /\ a \in Unsettled(e)' <=> a \in Unsettled(e) /\ a # b
                              /\ a # b => ops'[e][a] = ops[e][a]
      BY <2>2 DEF Unsettled, Deferred
    <2>5. Unsettled(e) \subseteq Branches /\ Unsettled(e)' \subseteq Branches
      BY DEF Unsettled, Deferred
    <2>6. OpsKept(e) BY <2>3, <2>4, <2>5 DEF OpsKept, Same
    <2>7. QED BY <2>2, <2>3, <2>6, KeptWhole, OwnersStay
  <1>6. ASSUME NEW interrupted, Returns(e, interrupted)
        PROVE  OwnerInv' /\ TableInv'
    <2> DEFINE op == pending[e]
    <2>1. /\ UNCHANGED <<table, ops, leaving>> /\ op # None /\ pending'[e] = None
          /\ \A d \in Evaluations \ {e} : pending'[d] = pending[d]
      BY <1>6 DEF Returns, TypeOK
    <2>2. op.group \in Groups BY <1>2, <2>1
    <2>3. Fades(run, run') /\ (OwnsGroup(op) => run'[op.group] \notin Alive)
      <3>1. CASE run[op.group] = "stopped" /\ OwnsGroup(op)
        <4>1. run' = Ended(run, {op.group}) BY <1>6, <3>1 DEF Returns
        <4>2. QED BY <1>1, <2>2, <4>1, FadingEffects
      <3>2. CASE ~(run[op.group] = "stopped" /\ OwnsGroup(op))
        <4>1. /\ run' = Reaped(run, {op.group})
              /\ Gone(op.group) \/ run[op.group] = "stopped"
          BY <1>6, <3>2 DEF Returns
        <4>2. OwnsGroup(op) => run[op.group] \notin Alive BY <3>2, <4>1 DEF Gone, Alive
        <4>3. QED BY <1>1, <2>2, <4>1, <4>2, FadingEffects
      <3>3. QED BY <3>1, <3>2
    <2>4. PendingKept(e) BY <2>1, <2>3 DEF PendingKept
    <2>5. QED BY <2>1, <2>3, <2>4, KeptWhole, OwnersStay
  <1>7. CASE Reissue(e)
    <2> DEFINE op == pending[e]
               new == [op EXCEPT !.started = TRUE]
    <2>1. /\ UNCHANGED <<table, ops, leaving>> /\ op # None /\ ~op.started
          /\ pending'[e] = None \/ pending'[e] = new
          /\ \A d \in Evaluations \ {e} : pending'[d] = pending[d]
          /\ run' \in {run, Continued(run, {op.group})}
      BY <1>7 DEF Reissue, TypeOK
    <2>2. ~OwnsGroup(op) BY <2>1 DEF RestInv, Begins
    <2>3. new # None /\ Same(new, op)
      <3>1. op \in Operation BY <1>2, <2>1
      <3>2. new \in Operation /\ Same(new, op) BY <3>1, OperationFields DEF Same
      <3>3. QED BY <3>2, ValuesDiffer
    <2>4. PendingKept(e) BY <2>1, <2>2, <2>3 DEF PendingKept
    <2>5. Fades(run, run') BY <1>1, <2>1, FadingEffects
    <2>6. QED BY <2>1, <2>4, <2>5, KeptWhole, OwnersStay
  <1>8. CASE Unwind(e)
    <2>1. Fades(run, run') /\ \A d \in Evaluations : OpsKept(d)
      BY <1>8, ClosedKeeps DEF Unwind
    <2>2. QED BY <1>8, <2>1, KeptWhole, OwnersStay DEF Unwind
  <1>9. CASE Finish(e)
    <2> DEFINE S == {ops[e][b].group : b \in Attached(e)}
               closed == Ended(run, S)
    <2>1. /\ UNCHANGED <<table, pending, leaving>>
          /\ ops' = [ops EXCEPT ![e] = [b \in Branches |-> None]]
      BY <1>9 DEF Finish
    <2>2. Fades(closed, run') /\ Fades(run, run')
      <3>1. Fades(run, closed) BY <1>1, FadingEffects
      <3>2. Fades(closed, closed) BY DEF Fades
      <3>3. run' = closed \/ \E d : Resumed(d, closed, saved) BY <1>9 DEF Finish
      <3> HIDE DEF closed
      <3>4. QED BY <3>1, <3>2, <3>3, ResumedRuns
    <2>3. \A b \in Unsettled(e) : OwnsGroup(ops[e][b]) => run'[ops[e][b].group] \notin Alive
      <3>1. TAKE b \in Unsettled(e)
      <3>2. HAVE OwnsGroup(ops[e][b])
      <3>3. ops[e][b].group \in S /\ ops[e][b].group \in Groups
        BY <3>2, UnsettledTypes, OperationFields DEF Attached
      <3>4. closed[ops[e][b].group] \notin Alive BY <1>1, <3>3, FadingEffects
      <3>5. QED BY <2>2, <3>3, <3>4 DEF Fades
    <2>4. Unsettled(e)' = {} /\ \A d \in Evaluations \ {e} : ops'[d] = ops[d]
      BY <2>1 DEF Unsettled, Deferred, TypeOK
    <2>5. OpsKept(e) BY <2>3, <2>4 DEF OpsKept
    <2>6. QED BY <2>1, <2>2, <2>4, <2>5, KeptWhole, OwnersStay
  <1>10. CASE Interrupt(e)
    <2> DEFINE op == pending[e]
    <2>1. /\ UNCHANGED <<table, ops, leaving>> /\ pending'[e] = None
          /\ \A d \in Evaluations \ {e} : pending'[d] = pending[d]
      BY <1>10 DEF Interrupt, TypeOK
    <2>2. /\ Fades(run, run')
          /\ op # None /\ OwnsGroup(op) => run'[op.group] \notin Alive
      <3>1. CASE op = None \/ op.kind = "wait"
        <4>1. run' = run BY <1>10, <3>1 DEF Interrupt
        <4>2. QED BY <1>1, <3>1, <4>1 DEF OwnsGroup
      <3>2. CASE op # None /\ op.kind # "wait"
        <4>1. run' = Ended(run, {op.group}) BY <1>10, <3>2 DEF Interrupt
        <4>2. QED BY <1>1, <1>2, <3>2, <4>1, FadingEffects
      <3>3. QED BY <3>1, <3>2
    <2>3. PendingKept(e) BY <2>1, <2>2 DEF PendingKept
    <2>4. QED BY <2>1, <2>2, <2>3, KeptWhole, OwnersStay
  <1>11. CASE Park(e)
    <2> DEFINE op == pending[e]
               new == [op EXCEPT !.started = FALSE]
    <2>1. /\ UNCHANGED <<table, ops, leaving>> /\ run' = Stopped(run, Frozen(e))
          /\ pending'[e] = op \/ (op # None /\ pending'[e] = new)
          /\ \A d \in Evaluations \ {e} : pending'[d] = pending[d]
      BY <1>11 DEF Park, FreezeActive, TypeOK
    <2>2. op # None => new # None /\ Same(new, op)
      <3>1. HAVE op # None
      <3>2. op \in Operation BY <1>2, <3>1
      <3>3. new \in Operation /\ Same(new, op) BY <3>2, OperationFields DEF Same
      <3>4. QED BY <3>3, ValuesDiffer
    <2>3. PendingKept(e) BY <2>1, <2>2 DEF PendingKept, Same
    <2>4. Fades(run, run') BY <1>1, <2>1, FadingEffects
    <2>5. QED BY <2>1, <2>3, <2>4, KeptWhole, OwnersStay
  <1>12. QED BY <1>3, <1>4, <1>5, <1>6, <1>7, <1>8, <1>9, <1>10, <1>11 DEF Coordinator

\* ... and of the session and the processes.
LEMMA OwnerStep ==
  ASSUME TypeOK, ChainInv, RestInv, OwnerInv, TableInv, [Next]_vars
  PROVE  OwnerInv' /\ TableInv'
  <1> USE DEF program, session
  <1>1. Fades(run, run) BY DEF Fades
  <1>2. ASSUME Fades(run, run'), UNCHANGED <<table, ops, pending>>,
               leaving' = "gone" => leaving = "gone"
        PROVE  OwnerInv' /\ TableInv'
    BY <1>2, KeptWhole, OwnersStay
  <1>3. ASSUME NEW e \in Evaluations, Evaluate(e)
        PROVE  OwnerInv' /\ TableInv'
    BY <1>1, <1>2, <1>3 DEF Evaluate
  <1>4. ASSUME NEW c \in parked, ShutdownEvaluation(c)
        PROVE  OwnerInv' /\ TableInv'
    <2>1. Last(c) \in Evaluations BY <1>4, JoinedChains, RevivedSteps DEF Revived, Suspended
    <2>2. Fades(run, run') /\ \A x \in Evaluations : PendingKept(x)
      BY <1>1, <1>4, <2>1, HeldEnds DEF ShutdownEvaluation, Doom
    <2>3. QED BY <1>4, <2>2, KeptWhole, OwnersStay DEF ShutdownEvaluation, Doom
  <1>5. CASE Leave BY <1>1, <1>2, <1>5 DEF Leave
  <1>6. CASE ShutdownJobs
    <2>1. /\ active = <<>> /\ parked = {} /\ run' = Ended(run, table)
          /\ UNCHANGED <<table, ops, pending>>
      BY <1>6 DEF ShutdownJobs
    <2>2. \A e \in Evaluations : Deferred(e) = {} /\ pending[e] = None
      <3>1. TAKE e \in Evaluations
      <3>2. Members(<<>>) = {} BY DEF Members
      <3>3. mode[e] \notin Begun BY <2>1, <3>2 DEF ChainInv, Chained, Chains
      <3>4. mode[e] \in Modes BY DEF TypeOK, Modes
      <3>5. QED BY <3>3, <3>4 DEF RestInv, Idles, Begun, Modes
    <2>3. \A e \in Evaluations, g \in Groups :
            ~Awaited(e, g) /\ \A b \in Branches : ~Owned(e, b, g)
      BY <2>2 DEF Awaited, Owned, Unsettled
    <2>4. \A g \in Groups : Live(g) => g \in table BY <2>3 DEF OwnerInv
    <2>5. Fades(run, run') /\ \A g \in Groups : g \in table => run'[g] \notin Alive
      BY <1>1, <2>1, FadingEffects
    <2>6. \A g \in Groups : ~Live(g)' BY <2>4, <2>5 DEF Fades, Live, Alive
    <2>7. /\ \A e \in Evaluations, b \in Branches, g \in Groups : ~Owned(e, b, g)'
          /\ \A e \in Evaluations, g \in Groups : ~Awaited(e, g)'
          /\ \A e \in Evaluations : Unsettled(e)' = {} /\ pending'[e] = None
      BY <2>1, <2>2 DEF Owned, Awaited, Unsettled, Deferred
    <2>8. OwnerInv' BY <2>6, <2>7 DEF OwnerInv
    <2>9. \A g \in table : run'[g] # "unused" BY <2>5 DEF TableInv, TypeOK, Fades
    <2>10. TableInv' BY <2>1, <2>6, <2>7, <2>9 DEF TableInv
    <2>11. QED BY <2>8, <2>10
  <1>7. ASSUME NEW g \in Groups, Notify(g) \/ GroupEnds(g) \/ GroupStops(g) \/ GroupSetsModes(g)
        PROVE  OwnerInv' /\ TableInv'
    <2>1. Fades(run, run')
      <3>1. CASE Notify(g) BY <1>1, <3>1, FadingEffects DEF Notify
      <3>2. CASE GroupEnds(g) BY <3>2 DEF GroupEnds, Fades, Alive, TypeOK
      <3>3. CASE GroupStops(g) BY <3>3 DEF GroupStops, Fades, Alive, TypeOK
      <3>4. CASE GroupSetsModes(g) BY <1>1, <3>4 DEF GroupSetsModes
      <3>5. QED BY <1>7, <3>1, <3>2, <3>3, <3>4
    <2>2. UNCHANGED <<table, ops, pending, leaving>>
      BY <1>7 DEF Notify, GroupEnds, GroupStops, GroupSetsModes
    <2>3. QED BY <1>2, <2>1, <2>2
  <1>8. CASE UNCHANGED vars BY <1>1, <1>2, <1>8 DEF vars
  <1>9. QED
    BY <1>3, <1>4, <1>5, <1>6, <1>7, <1>8, ProgramOwners, CoordinatorOwners DEF Next, Over


-----------------------------------------------------------------------------
(* The terminal *)

\* The operation in front that has, or will have again, the terminal.
Fronts(e, b, g) ==
  /\ b \in Unsettled(e) /\ InFront(e, b) /\ ops[e][b].group = g
  /\ ops[e][b].kind = "run" \/ (ops[e][b].kind = "fg" /\ ops[e][b].started)

LEMMA ReturningFronts ==
  \A e, g : g \in Returning(e) <=> \E b : Fronts(e, b, g)
  BY DEF Returning, Fronts, Attached, AttachedControls, Interactive, OwnsGroup

LEMMA RecordedFronts ==
  \A e, g : g \in Recorded(e) <=>
    \/ \E b : Fronts(e, b, g)
    \/ pending[e] # None /\ Interactive(pending[e]) /\ g = pending[e].group
  <1>1. \A e, g : g \in Recorded(e) <=>
          \/ g \in Returning(e)
          \/ pending[e] # None /\ Interactive(pending[e]) /\ g = pending[e].group
    BY DEF Recorded, Returning, Held, Interactive
  <1>2. QED BY <1>1, ReturningFronts

\* The terminal may always go back to the shell.
LEMMA TerminalBack ==
  ASSUME tty' = Baseline
  PROVE  TerminalInv'
  BY DEF TerminalInv, Baseline

\* It stays with whoever has it as long as that one has its turn ...
LEMMA TerminalKept ==
  ASSUME TypeOK, ChainInv, TerminalInv, NEW e \in Evaluations, Driven(e), active' = active,
         tty'.owner = tty.owner, \A b : Fronts(e, b, tty.owner) => Fronts(e, b, tty.owner)',
         \/ pending'[e] = pending[e]
         \/ /\ pending'[e] = None \/ pending'[e].started
            /\ pending[e] = None \/ ~Interactive(pending[e]) \/ ~pending[e].started
  PROVE  TerminalInv'
  <1>1. active # <<>> /\ \A d \in Evaluations : Driven(d) <=> d = e BY DrivenAlone
  <1>2. active' # <<>> /\ \A d \in Evaluations : Driven(d)' <=> d = e BY <1>1 DEF Driven
  <1>3. \A d, g : g \in Returning(d) <=> \E b : Fronts(d, b, g) BY ReturningFronts
  <1>4. \A d, g : g \in Returning(d)' <=> \E b : Fronts(d, b, g)'
    BY DEF Returning, Fronts, Attached, AttachedControls, Interactive, OwnsGroup
  <1>5. \A g : g \in Recorded(e)' <=>
          \/ \E b : Fronts(e, b, g)'
          \/ pending'[e] # None /\ Interactive(pending'[e]) /\ g = pending'[e].group
    <2>1. \A g : g \in Recorded(e)' <=>
            \/ g \in Returning(e)'
            \/ pending'[e] # None /\ Interactive(pending'[e]) /\ g = pending'[e].group
      BY DEF Recorded, Returning, Held, Interactive
    <2>2. QED BY <1>4, <2>1
  <1>6. ASSUME tty.owner # Shell
        PROVE  tty.owner \in Recorded(e)'
    <2>1. tty.owner \in Recorded(e) BY <1>1, <1>6 DEF TerminalInv
    <2>2. CASE \E b : Fronts(e, b, tty.owner) BY <1>5, <2>2
    <2>3. CASE ~\E b : Fronts(e, b, tty.owner)
      <3>1. pending[e] # None /\ Interactive(pending[e]) /\ tty.owner = pending[e].group
        BY <2>1, <2>3, RecordedFronts
      <3>2. pending[e].started BY <1>1, <1>3, <1>6, <2>3, <3>1 DEF TerminalInv
      <3>3. pending'[e] = pending[e] BY <3>1, <3>2
      <3>4. QED BY <1>5, <3>1, <3>3
    <2>4. QED BY <2>2, <2>3
  <1>7. ASSUME pending'[e] # None, ~pending'[e].started
        PROVE  tty.owner \in {Shell} \union Returning(e)'
    <2>1. pending[e] # None /\ ~pending[e].started BY <1>7
    <2>2. tty.owner \in {Shell} \union Returning(e) BY <1>1, <2>1 DEF TerminalInv
    <2>3. QED BY <1>3, <1>4, <2>2
  <1>8. QED BY <1>2, <1>6, <1>7 DEF TerminalInv

\* ... and is given to whoever's turn it is.
LEMMA TerminalGiven ==
  ASSUME NEW e \in Evaluations, \A d \in Evaluations : Driven(d)' <=> d = e, active' # <<>>,
         \/ \E b : Fronts(e, b, tty.owner)'
         \/ /\ pending'[e] # None /\ pending'[e].started /\ Interactive(pending'[e])
            /\ tty'.owner = pending'[e].group
  PROVE  TerminalInv'
  <1>1. \A d, g : g \in Returning(d)' <=> \E b : Fronts(d, b, g)'
    BY DEF Returning, Fronts, Attached, AttachedControls, Interactive, OwnsGroup
  <1>2. \A g : g \in Recorded(e)' <=>
          \/ \E b : Fronts(e, b, g)'
          \/ pending'[e] # None /\ Interactive(pending'[e]) /\ g = pending'[e].group
    <2>1. \A g : g \in Recorded(e)' <=>
            \/ g \in Returning(e)'
            \/ pending'[e] # None /\ Interactive(pending'[e]) /\ g = pending'[e].group
      BY DEF Recorded, Returning, Held, Interactive
    <2>2. QED BY <1>1, <2>1
  <1>3. PICK g : g = tty'.owner OBVIOUS
  <1>4. g \in Recorded(e)' BY <1>2, <1>3
  <1>5. pending'[e] # None /\ ~pending'[e].started => g \in Returning(e)' BY <1>1, <1>3
  <1>6. QED BY <1>3, <1>4, <1>5 DEF TerminalInv

\* Whose group ends, stops or changes its modes makes no difference.
LEMMA TerminalAlone ==
  ASSUME TerminalInv, tty'.owner = tty.owner, active = <<>> => tty' = tty,
         UNCHANGED <<ops, queue, pending, active>>
  PROVE  TerminalInv'
  <1>1. \A d : Recorded(d)' = Recorded(d) /\ Returning(d)' = Returning(d)
    BY DEF Recorded, Returning, Attached, AttachedControls, Unsettled, Deferred, InFront, Held
  <1>2. QED BY <1>1 DEF TerminalInv, Driven


\* Operations that leave from behind change nobody's turn.
LEMMA FrontsKept ==
  ASSUME TypeOK, QueueInv, NEW e \in Evaluations, NEW B, queue'[e] = Without(queue[e], B),
         \A b \in Branches \ B : ops'[e][b] = ops[e][b], ~\E b \in B : InFront(e, b),
         NEW b, Fronts(e, b, tty.owner), tty'.owner = tty.owner
  PROVE  Fronts(e, b, tty.owner)'
  <1>1. /\ queue[e] \in Seq(Branches)
        /\ \A i, j \in 1..Len(queue[e]) : queue[e][i] = queue[e][j] => i = j
    BY DEF TypeOK, QueueInv, QueueFits
  <1>2. b \in Branches /\ b \notin B /\ queue[e] # <<>> /\ Head(queue[e]) = b
    BY DEF Fronts, InFront, Unsettled, Deferred
  <1>3. queue'[e] # <<>> /\ Head(queue'[e]) = b BY <1>1, <1>2, WithoutProperties
  <1>4. ops'[e][b] = ops[e][b] BY <1>2
  <1>5. QED BY <1>2, <1>3, <1>4 DEF Fronts, InFront, Unsettled, Deferred

\* A resumption gives the terminal to the operation in front, to the pending run or
\* to nobody.
LEMMA ResumedTerminal ==
  ASSUME TypeOK, RestInv, NEW e \in Evaluations, NEW r, NEW s, Resumed(e, r, s),
         \A d \in Evaluations : Driven(d)' <=> d = e, active' # <<>>,
         ops'[e] = ops[e], queue'[e] = queue[e],
         pending' = pending \/ ~Resumable(e)
  PROVE  TerminalInv'
  <1> DEFINE given == IF Returning(e) = {} THEN Baseline
                      ELSE Given(s, Baseline, CHOOSE g \in Returning(e) : TRUE)
  <1>1. CASE ~Resumable(e) BY <1>1, TerminalBack DEF Resumed
  <1>2. CASE Resumable(e) /\ pending[e] # None /\ OwnsGroup(pending[e]) /\ Interactive(pending[e])
    <2>1. tty' = Given(s, given, pending[e].group) BY <1>2 DEF Resumed
    <2>2. tty'.owner = pending[e].group BY <2>1 DEF Given
    <2>3. pending[e].started BY <1>2 DEF RestInv, Begins
    <2>4. QED BY <1>2, <2>2, <2>3, TerminalGiven
  <1>3. CASE Resumable(e) /\ ~(pending[e] # None /\ OwnsGroup(pending[e]) /\ Interactive(pending[e]))
    <2>1. tty' = given BY <1>3 DEF Resumed
    <2>2. CASE Returning(e) = {} BY <2>1, <2>2, TerminalBack
    <2>3. CASE Returning(e) # {}
      <3>1. PICK g \in Returning(e) : tty' = Given(s, Baseline, g) BY <2>1, <2>3
      <3>2. tty'.owner = g BY <3>1 DEF Given
      <3>3. PICK b : Fronts(e, b, g) BY <3>1, ReturningFronts
      <3>4. Fronts(e, b, tty.owner)' BY <3>2, <3>3 DEF Fronts, Unsettled, Deferred, InFront
      <3>5. QED BY <3>4, TerminalGiven
    <2>4. QED BY <2>2, <2>3
  <1>4. QED BY <1>1, <1>2, <1>3

\* Every step leaves the terminal with the shell or with whose turn it is.
LEMMA TerminalStep ==
  ASSUME TypeOK, ChainInv, RestInv, QueueInv, TerminalInv, [Next]_vars
  PROVE  TerminalInv'
  <1> USE DEF program, session
  <1>1. ASSUME tty' = tty, UNCHANGED <<ops, queue, pending, active>>
        PROVE  TerminalInv'
    BY <1>1, TerminalAlone
  <1>2. ASSUME NEW e \in Evaluations, Evaluate(e)
        PROVE  TerminalInv'
    BY <1>2, TerminalBack DEF Evaluate, TerminalInv
  <1>3. ASSUME NEW e \in Evaluations,
               \/ \E g \in Groups : Start(e, g) \/ \E kind : ControlNow(e, kind, g)
               \/ Snapshots(e) \/ Release(e) \/ \E force : Exit(e, force)
        PROVE  TerminalInv'
    BY <1>1, <1>3 DEF Start, ControlNow, Snapshots, Release, Exit
  <1>4. ASSUME NEW e \in Evaluations, NEW b \in Branches, NEW kind \in Callbacks, NEW g \in Groups,
               Defer(e, b, kind, g)
        PROVE  TerminalInv'
    <2>1. /\ Driven(e) /\ ops[e][b] = None /\ UNCHANGED <<tty, active, pending>>
          /\ \A a \in Branches \ {b} : ops'[e][a] = ops[e][a]
          /\ queue'[e] = IF kind \in {"run", "fg"} THEN Append(queue[e], b) ELSE queue[e]
          /\ queue[e] \in Seq(Branches)
      BY <1>4 DEF Defer, Stepping, TypeOK
    <2>2. queue[e] # <<>> => queue'[e] # <<>> /\ Head(queue'[e]) = Head(queue[e])
      BY <2>1, HeadTailAppend
    <2>3. ASSUME NEW a, Fronts(e, a, tty.owner)
          PROVE  Fronts(e, a, tty.owner)'
      <3>1. a \in Branches /\ a # b BY <2>1, <2>3 DEF Fronts, Unsettled, Deferred
      <3>2. QED BY <2>1, <2>2, <2>3, <3>1 DEF Fronts, InFront, Unsettled, Deferred
    <2>4. QED BY <2>1, <2>3, TerminalKept
  <1>5. ASSUME NEW e \in Evaluations, NEW kind \in {"fg", "wait", "run", "capture"}, NEW g \in Groups,
               Control(e, kind, g) \/ Run(e, kind, g)
        PROVE  TerminalInv'
    <2> DEFINE op == [NewOperation(kind, g) EXCEPT !.started = TRUE]
    <2>1. /\ Driven(e) /\ pending[e] = None /\ pending'[e] = op /\ UNCHANGED <<ops, queue, active>>
          /\ tty'.owner = tty.owner \/ (tty'.owner = g /\ kind \in {"fg", "run"})
      <3>1. CASE Control(e, kind, g)
        <4>1. Driven(e) /\ pending[e] = None /\ pending' = [pending EXCEPT ![e] = op]
          BY <3>1 DEF Control, Stepping
        <4>2. UNCHANGED <<ops, queue, active>> /\ (tty' = tty \/ (kind = "fg" /\ tty' = Given(saved, tty, g)))
          BY <3>1 DEF Control
        <4>3. Given(saved, tty, g).owner = g BY DEF Given
        <4>4. pending'[e] = op BY <4>1 DEF TypeOK
        <4>5. QED BY <4>1, <4>2, <4>3, <4>4
      <3>2. CASE Run(e, kind, g)
        <4>1. Driven(e) /\ pending[e] = None /\ pending' = [pending EXCEPT ![e] = op]
          BY <3>2 DEF Run, Stepping
        <4>2. /\ UNCHANGED <<ops, queue, active>>
              /\ tty' = tty \/ (kind = "run" /\ tty' = [tty EXCEPT !.owner = g])
          BY <3>2 DEF Run
        <4>3. [tty EXCEPT !.owner = g].owner = g BY DEF TypeOK
        <4>4. pending'[e] = op BY <4>1 DEF TypeOK
        <4>5. QED BY <4>1, <4>2, <4>3, <4>4
      <3>3. QED BY <1>5, <3>1, <3>2
    <2>2. op # None /\ op.group = g /\ op.started /\ op.kind = kind
      <3>1. /\ NewOperation(kind, g) \in Operation
            /\ NewOperation(kind, g).group = g /\ NewOperation(kind, g).kind = kind
        BY <1>5, OperationFields DEF Kinds
      <3>2. op \in Operation /\ op.group = g /\ op.started /\ op.kind = kind
        BY <3>1, OperationFields
      <3>3. QED BY <3>2, ValuesDiffer
    <2>3. CASE tty'.owner = tty.owner
      <3>1. \A b : Fronts(e, b, tty.owner) => Fronts(e, b, tty.owner)'
        BY <2>1, <2>3 DEF Fronts, InFront, Unsettled, Deferred
      <3>2. QED BY <2>1, <2>2, <2>3, <3>1, TerminalKept
    <2>4. CASE tty'.owner = g /\ kind \in {"fg", "run"}
      <3>1. active' # <<>> /\ \A d \in Evaluations : Driven(d)' <=> d = e
        BY <2>1, DrivenAlone DEF Driven
      <3>2. Interactive(op) BY <2>2, <2>4 DEF Interactive
      <3>3. QED BY <2>1, <2>2, <2>4, <3>1, <3>2, TerminalGiven
    <2>5. QED BY <2>1, <2>3, <2>4
  <1>6. CASE \E e \in Evaluations : Reissue(e)
    <2>1. PICK e \in Evaluations : Reissue(e) BY <1>6
    <2> DEFINE op == pending[e]
               new == [op EXCEPT !.started = TRUE]
    <2>2. /\ Driven(e) /\ op # None /\ ~op.started /\ UNCHANGED <<ops, queue, active>>
          /\ \/ pending'[e] = None /\ tty' = tty
             \/ pending'[e] = new /\ tty' = tty
             \/ pending'[e] = new /\ op.kind = "fg" /\ tty'.owner = op.group
      <3>1. /\ Driven(e) /\ op # None /\ ~op.started /\ UNCHANGED <<ops, queue, active>>
            /\ \/ pending' = [pending EXCEPT ![e] = None] /\ tty' = tty
               \/ /\ pending' = [pending EXCEPT ![e].started = TRUE]
                  /\ tty' = tty \/ (op.kind = "fg" /\ tty' = Given(saved, tty, op.group))
        BY <2>1 DEF Reissue
      <3>2. Given(saved, tty, op.group).owner = op.group BY DEF Given
      <3>3. pending'[e] = None \/ pending'[e] = new BY <3>1 DEF TypeOK
      <3>4. pending'[e] = new \/ (pending'[e] = None /\ tty' = tty) BY <3>1 DEF TypeOK
      <3>5. QED BY <3>1, <3>2, <3>3, <3>4
    <2>3. new # None /\ new.started /\ new.kind = op.kind /\ new.group = op.group
      <3>1. op \in Operation BY <2>2, UnsettledTypes
      <3>2. new \in Operation /\ new.started /\ new.kind = op.kind /\ new.group = op.group
        BY <3>1, OperationFields
      <3>3. QED BY <3>2, ValuesDiffer
    <2>4. CASE tty' = tty
      <3>1. \A b : Fronts(e, b, tty.owner) => Fronts(e, b, tty.owner)'
        BY <2>2, <2>4 DEF Fronts, InFront, Unsettled, Deferred
      <3>2. QED BY <2>2, <2>3, <2>4, <3>1, TerminalKept
    <2>5. CASE pending'[e] = new /\ op.kind = "fg" /\ tty'.owner = op.group
      <3>1. active' # <<>> /\ \A d \in Evaluations : Driven(d)' <=> d = e
        BY <2>2, DrivenAlone DEF Driven
      <3>2. Interactive(new) BY <2>3, <2>5 DEF Interactive
      <3>3. QED BY <2>3, <2>5, <3>1, <3>2, TerminalGiven
    <2>6. QED BY <2>2, <2>4, <2>5
  <1>7. ASSUME NEW e \in Evaluations, NEW b \in Branches, Advance(e, b)
        PROVE  TerminalInv'
    <2> DEFINE op == ops[e][b]
               new == [op EXCEPT !.started = TRUE]
    <2>1. op \in Operation /\ b \in Unsettled(e) BY <1>7, UnsettledTypes DEF Advance
    <2>2. /\ new \in Operation /\ new # None /\ new # Settled /\ new.started
          /\ new.kind = op.kind /\ new.group = op.group
      <3>1. /\ new \in Operation /\ new.started /\ new.kind = op.kind /\ new.group = op.group
        BY <2>1, OperationFields
      <3>2. QED BY <3>1, ValuesDiffer
    <2>3. /\ Driven(e) /\ UNCHANGED <<active, pending, queue>> /\ ops'[e][b] = new
          /\ \A a \in Branches \ {b} : ops'[e][a] = ops[e][a]
          /\ Turn(e, b) /\ op.kind # "wait"
          /\ \/ tty' = tty
             \/ op.kind \in {"fg", "run"} /\ tty'.owner = op.group
      BY <1>7 DEF Advance, Stepping, Given, TypeOK
    <2>4. CASE tty' = tty
      <3>1. ASSUME NEW a, Fronts(e, a, tty.owner)
            PROVE  Fronts(e, a, tty.owner)'
        <4>1. a \in Branches BY <3>1 DEF Fronts, Unsettled, Deferred
        <4>2. CASE a = b
          BY <2>2, <2>3, <2>4, <3>1, <4>2 DEF Fronts, InFront, Unsettled, Deferred
        <4>3. CASE a # b
          BY <2>3, <2>4, <3>1, <4>1, <4>3 DEF Fronts, InFront, Unsettled, Deferred
        <4>4. QED BY <4>2, <4>3
      <3>2. QED BY <2>3, <2>4, <3>1, TerminalKept
    <2>5. CASE op.kind \in {"fg", "run"} /\ tty'.owner = op.group
      <3>1. active' # <<>> /\ \A d \in Evaluations : Driven(d)' <=> d = e
        BY <2>3, DrivenAlone DEF Driven
      <3>2. InFront(e, b) BY <2>3, <2>5 DEF Turn, Interactive
      <3>3. Fronts(e, b, tty.owner)'
        BY <2>2, <2>3, <2>5, <3>2 DEF Fronts, InFront, Unsettled, Deferred
      <3>4. QED BY <3>1, <3>3, TerminalGiven
    <2>6. QED BY <2>3, <2>4, <2>5
  <1>8. ASSUME NEW e \in Evaluations, NEW b \in Branches, Collect(e, b)
        PROVE  TerminalInv'
    <2>1. /\ Driven(e) /\ UNCHANGED <<active, pending, queue, tty>> /\ ops[e][b] = Settled
          /\ \A a \in Branches \ {b} : ops'[e][a] = ops[e][a]
      BY <1>8 DEF Collect, Stepping, TypeOK
    <2>2. ASSUME NEW a, Fronts(e, a, tty.owner)
          PROVE  Fronts(e, a, tty.owner)'
      <3>1. a \in Branches /\ a # b BY <2>1, <2>2 DEF Fronts, Unsettled, Deferred
      <3>2. QED BY <2>1, <2>2, <3>1 DEF Fronts, InFront, Unsettled, Deferred
    <2>3. QED BY <2>1, <2>2, TerminalKept
  <1>9. ASSUME NEW e \in Evaluations, NEW B, Driven(e), tty' = Restored(e, B),
               queue' = Dequeued(e, B), active' = active, pending' = pending,
               \A a \in Branches \ B : ops'[e][a] = ops[e][a]
        PROVE  TerminalInv'
    <2>1. CASE \E b \in B : InFront(e, b) BY <1>9, <2>1, TerminalBack DEF Restored
    <2>2. CASE ~\E b \in B : InFront(e, b)
      <3>1. tty' = tty /\ queue'[e] = Without(queue[e], B)
        BY <1>9, <2>2 DEF Restored, Dequeued, TypeOK
      <3>2. \A b : Fronts(e, b, tty.owner) => Fronts(e, b, tty.owner)'
        BY <1>9, <2>2, <3>1, FrontsKept
      <3>3. QED BY <1>9, <3>1, <3>2, TerminalKept
    <2>3. QED BY <2>1, <2>2
  <1>10. ASSUME NEW e \in Evaluations, NEW b \in Branches, NEW asked, NEW interrupted,
                Complete(e, b, asked, interrupted)
         PROVE  TerminalInv'
    <2>1. \A a \in Branches \ {b} : ops'[e][a] = ops[e][a] BY <1>10 DEF Complete, TypeOK
    <2>2. QED BY <1>9, <1>10, <2>1 DEF Complete, Stepping
  <1>11. ASSUME NEW e \in Evaluations, (\E B : Close(e, B)) \/ Unwind(e)
         PROVE  TerminalInv'
    <2>1. /\ \E B : Closed(e, B)
          /\ Driven(e) /\ UNCHANGED <<active, pending>>
      BY <1>11 DEF Close, Unwind, Stepping
    <2>2. PICK B : Closed(e, B) BY <2>1
    <2>3. /\ tty' = Restored(e, B) /\ queue' = Dequeued(e, B)
          /\ \A a \in Branches \ B : ops'[e][a] = ops[e][a]
      BY <2>2 DEF Closed, TypeOK
    <2>4. QED BY <1>9, <2>1, <2>3
  <1>12. ASSUME NEW e \in Evaluations, NEW c \in parked, Foregrounds(e, c)
         PROVE  TerminalInv'
    <2>1. /\ active' = active \o c /\ parked' = parked \ {c} /\ UNCHANGED <<ops, queue>>
          /\ \E r, s : Resumed(Last(c), r, s)
          /\ Resumable(Last(c)) => pending' = pending
      BY <1>12 DEF Foregrounds
    <2>2. /\ active' # <<>> /\ \A d \in Evaluations : Driven(d)' <=> d = Last(c)
          /\ Last(c) \in Evaluations
      BY <2>1, JoinedChains DEF Suspended
    <2>3. QED BY <2>1, <2>2, ResumedTerminal
  <1>13. ASSUME NEW e \in Evaluations, NEW c \in parked, Cancels(e, c)
         PROVE  TerminalInv'
    BY <1>13, TerminalBack DEF Cancels
  <1>14. ASSUME NEW e \in Evaluations, Finish(e)
         PROVE  TerminalInv'
    <2> DEFINE rest == SubSeq(active, 1, Len(active) - 1)
    <2>1. CASE tty' = Baseline BY <2>1, TerminalBack
    <2>2. CASE tty' # Baseline
      <3>1. /\ rest # <<>> /\ active' = rest /\ \E r, s : Resumed(Last(rest), r, s)
            /\ ops' = [ops EXCEPT ![e] = [b \in Branches |-> None]]
            /\ queue' = [queue EXCEPT ![e] = <<>>] /\ pending' = pending
        BY <1>14, <2>2 DEF Finish
      <3>2. \A d \in Evaluations : Driven(d)' <=> d = Last(rest) BY <3>1 DEF Driven
      <3>3. Last(rest) # e /\ Last(rest) \in Evaluations
        BY <1>14, <3>1, FinishEffects, ShortenedChain DEF Suspended
      <3>4. ops'[Last(rest)] = ops[Last(rest)] /\ queue'[Last(rest)] = queue[Last(rest)]
        BY <3>1, <3>3 DEF TypeOK
      <3>5. PICK r, s : Resumed(Last(rest), r, s) BY <3>1
      <3>6. QED BY <3>1, <3>2, <3>3, <3>4, <3>5, ResumedTerminal
    <2>3. QED BY <2>1, <2>2
  <1>15. ASSUME NEW e \in Evaluations, (\E interrupted : Returns(e, interrupted)) \/ Interrupt(e)
         PROVE  TerminalInv'
    <2>1. CASE tty' = Baseline BY <2>1, TerminalBack
    <2>2. CASE tty' # Baseline
      <3>1. /\ Driven(e) /\ tty' = tty /\ UNCHANGED <<ops, queue, active>> /\ pending'[e] = None
            /\ pending[e] = None \/ pending[e].kind = "wait"
        BY <1>15, <2>2 DEF Returns, Interrupt, TypeOK
      <3>2. \A b : Fronts(e, b, tty.owner) => Fronts(e, b, tty.owner)'
        BY <3>1 DEF Fronts, InFront, Unsettled, Deferred
      <3>3. QED BY <3>1, <3>2, TerminalKept DEF Interactive
    <2>3. QED BY <2>1, <2>2
  <1>16. ASSUME NEW e \in Evaluations, Park(e)
         PROVE  TerminalInv'
    BY <1>16, TerminalBack DEF Park, FreezeActive
  <1>17. ASSUME NEW c, ShutdownEvaluation(c)
         PROVE  TerminalInv'
    BY <1>17, TerminalBack DEF ShutdownEvaluation, TerminalInv
  <1>18. CASE Leave BY <1>1, <1>18 DEF Leave
  <1>19. CASE ShutdownJobs BY <1>19, TerminalBack DEF ShutdownJobs
  <1>20. ASSUME NEW g \in Groups, Notify(g) \/ GroupEnds(g) \/ GroupStops(g)
         PROVE  TerminalInv'
    BY <1>1, <1>20 DEF Notify, GroupEnds, GroupStops
  <1>21. ASSUME NEW g \in Groups, GroupSetsModes(g)
         PROVE  TerminalInv'
    <2>1. /\ tty' = [tty EXCEPT !.modes = g] /\ tty.owner = g /\ UNCHANGED <<ops, queue, pending, active>>
      BY <1>21 DEF GroupSetsModes
    <2>2. tty'.owner = tty.owner BY <2>1 DEF TypeOK
    <2>3. active # <<>> BY <2>1, ValuesDiffer DEF TerminalInv, Baseline
    <2>4. QED BY <2>1, <2>2, <2>3, TerminalAlone
  <1>22. CASE UNCHANGED vars BY <1>1, <1>22 DEF vars
  <1>23. ASSUME NEW e \in Evaluations, Program(e)
         PROVE  TerminalInv'
    BY <1>3, <1>4, <1>5, <1>11, <1>12, <1>13, <1>23 DEF Program
  <1>24. ASSUME NEW e \in Evaluations, Coordinator(e)
         PROVE  TerminalInv'
    BY <1>6, <1>7, <1>8, <1>10, <1>11, <1>14, <1>15, <1>24 DEF Coordinator
  <1>25. QED
    BY <1>2, <1>15, <1>16, <1>17, <1>18, <1>19, <1>20, <1>21, <1>22, <1>23, <1>24 DEF Next, Over


-----------------------------------------------------------------------------
(* The theorems, whatever use a program makes of the terminal *)

LEMMA Initially ==
  ASSUME Init
  PROVE  IInv
  <1>1. TypeOK
    <2>1. Baseline \in Terminals BY DEF Baseline, Terminals
    <2>2. <<>> \in Seq(Branches) /\ <<>> \in Seq(Evaluations) OBVIOUS
    <2>3. 0 \in 0..MaxEvents BY EventBound
    <2>4. QED BY <2>1, <2>2, <2>3 DEF Init, TypeOK, Terminals
  <1>2. /\ Members(<<>>) = {} /\ Len(<<>>) = 0 BY DEF Members
  <1>3. /\ \A e \in Evaluations : Deferred(e) = {} /\ Unsettled(e) = {} /\ pending[e] = None
        /\ \A e : ~Driven(e)
    BY DEF Init, Deferred, Unsettled, Driven
  <1>4. ChainInv
    <2>1. Chains = {<<>>} BY DEF Init, Chains
    <2>2. \A c \in Chains : \A i \in 1..Len(c) : FALSE BY <1>2, <2>1
    <2>3. \A c \in Chains : \A i \in 1..Len(c) - 1 : FALSE BY <1>2, <2>1
    <2>4. \A e : ~Chained(e) BY <1>2, <2>1 DEF Chained
    <2>5. \A e \in Evaluations : mode[e] \notin Begun BY DEF Init, Begun
    <2>6. QED BY <2>2, <2>3, <2>4, <2>5 DEF ChainInv, Init
  <1>5. RestInv
    <2>1. Suspended = {} BY <1>2 DEF Suspended, Init
    <2>2. QED BY <1>3, <2>1 DEF RestInv, Begins, Idles
  <1>6. QueueInv
    <2>1. \A e \in Evaluations : queue[e] = <<>> BY DEF Init
    <2>2. QED BY <1>2, <1>3, <2>1 DEF QueueInv, QueueFits
  <1>7. OwnerInv /\ TableInv
    <2>1. \A g \in Groups : run[g] = "unused" /\ ~Live(g) BY DEF Init, Live
    <2>2. \A e \in Evaluations, g \in Groups :
            ~Awaited(e, g) /\ \A b \in Branches : ~Owned(e, b, g)
      BY <1>3 DEF Awaited, Owned
    <2>3. table = {} BY DEF Init
    <2>4. OwnerInv BY <2>1, <2>2 DEF OwnerInv
    <2>5. TableInv BY <1>3, <2>1, <2>3 DEF TableInv
    <2>6. QED BY <2>4, <2>5
  <1>8. TerminalInv BY <1>3 DEF TerminalInv, Init, Baseline
  <1>9. QED BY <1>1, <1>4, <1>5, <1>6, <1>7, <1>8 DEF IInv

LEMMA Always == Spec => []IInv
  <1>1. Init => IInv BY Initially
  <1>2. IInv /\ [Next]_vars => IInv'
    <2>1. SUFFICES ASSUME IInv, [Next]_vars PROVE IInv' OBVIOUS
    <2>2. TypeOK /\ ChainInv /\ RestInv /\ QueueInv /\ OwnerInv /\ TableInv /\ TerminalInv
      BY <2>1 DEF IInv
    <2>3. TypeOK' BY <2>1, <2>2, TypesStep
    <2>4. ChainInv' BY <2>1, <2>2, ChainStep
    <2>5. RestInv' BY <2>1, <2>2, <2>3, <2>4, RestStep
    <2>6. QueueInv' BY <2>1, <2>2, QueueStep
    <2>7. OwnerInv' /\ TableInv' BY <2>1, <2>2, OwnerStep
    <2>8. TerminalInv' BY <2>1, <2>2, TerminalStep
    <2>9. QED BY <2>3, <2>4, <2>5, <2>6, <2>7, <2>8 DEF IInv
  <1>3. QED BY <1>1, <1>2, PTL DEF Spec

\* Every variable keeps its type.
THEOREM ForegroundTypes == Spec => []TypeOK
  <1>1. IInv => TypeOK BY DEF IInv
  <1>2. QED BY <1>1, Always, PTL

\* Nothing is lost: the queue of an evaluation holds every interactive operation
\* that has still to be answered, once (defer, close, complete_operation), and a
\* process that lives is a job of the session or of exactly one operation, until
\* the session has gone.
THEOREM NothingLostAlways == Spec => []NothingLost
  <1>1. IInv => NothingLost
    <2>1. SUFFICES ASSUME IInv PROVE NothingLost OBVIOUS
    <2>2. QueueInStep BY <2>1 DEF IInv, QueueInv, QueueFits, QueueInStep, Members
    <2> DEFINE owned == {o \in Evaluations \X Branches :
                           o[2] \in Unsettled(o[1]) /\ OwnsGroup(ops[o[1]][o[2]])}
               direct == {e \in Evaluations : pending[e] # None /\ OwnsGroup(pending[e])}
               Owners(g) == {o \in owned : ops[o[1]][o[2]].group = g}
               Awaiting(g) == {e \in direct : pending[e].group = g}
    <2>3. ASSUME NEW g \in Groups, Live(g), g \notin table
          PROVE  Cardinality(Owners(g)) + Cardinality(Awaiting(g)) = 1
      <3>1. \A o : o \in Owners(g) <=>
              \E e \in Evaluations, b \in Branches : o = <<e, b>> /\ Owned(e, b, g)
        BY DEF Owned
      <3>2. \A e : e \in Awaiting(g) <=> e \in Evaluations /\ Awaited(e, g) BY DEF Awaited
      <3>3. OwnerInv BY <2>1 DEF IInv
      <3> HIDE DEF owned, direct, Owners, Awaiting
      <3>4. Cardinality({}) = 0 /\ \A x : Cardinality({x}) = 1 BY FS_EmptySet, FS_Singleton
      <3>5. PICK e \in Evaluations : (\E b \in Branches : Owned(e, b, g)) \/ Awaited(e, g)
        BY <2>3, <3>3 DEF OwnerInv
      <3>6. CASE \E b \in Branches : Owned(e, b, g)
        <4>1. PICK b \in Branches : Owned(e, b, g) BY <3>6
        <4>2. \A d \in Evaluations, a \in Branches : Owned(d, a, g) => d = e /\ a = b
          BY <3>3, <4>1 DEF OwnerInv
        <4>3. \A d \in Evaluations : ~Awaited(d, g) BY <3>3, <4>1 DEF OwnerInv
        <4>4. Owners(g) = {<<e, b>>} BY <3>1, <4>1, <4>2
        <4>5. Awaiting(g) = {} BY <3>2, <4>3
        <4>6. Cardinality(Owners(g)) = 1 BY <3>4, <4>4
        <4>7. Cardinality(Awaiting(g)) = 0 BY <3>4, <4>5
        <4>8. QED BY <4>6, <4>7
      <3>7. CASE Awaited(e, g)
        <4>1. \A d \in Evaluations, a \in Branches : ~Owned(d, a, g)
          BY <3>3, <3>7 DEF OwnerInv
        <4>2. \A d \in Evaluations : Awaited(d, g) => d = e BY <3>3, <3>7 DEF OwnerInv
        <4>3. Owners(g) = {} BY <3>1, <4>1
        <4>4. Awaiting(g) = {e} BY <3>2, <3>7, <4>2
        <4>5. Cardinality(Owners(g)) = 0 BY <3>4, <4>3
        <4>6. Cardinality(Awaiting(g)) = 1 BY <3>4, <4>4
        <4>7. QED BY <4>5, <4>6
      <3>8. QED BY <3>5, <3>6, <3>7
    <2>4. NoOrphan BY <2>1, <2>3 DEF IInv, RestInv, Idles, TableInv, NoOrphan
    <2>5. QED BY <2>2, <2>4 DEF NothingLost
  <1>2. QED BY <1>1, Always, PTL

\* At the prompt the shell has the terminal in its own modes, and otherwise nobody
\* has it but the shell and whose turn it is (park, finish_resources).
THEOREM PromptAlways == Spec => []PromptIsTheShells
  <1>1. IInv => PromptIsTheShells BY DEF IInv, TerminalInv, PromptIsTheShells, Recorded, Returning
  <1>2. QED BY <1>1, Always, PTL
================================================================================
