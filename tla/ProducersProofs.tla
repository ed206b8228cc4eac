---------------------------- MODULE ProducersProofs ----------------------------
(***************************************************************************)
(* Proofs about Producers, for any number of producers, items, resources,  *)
(* attempts and errors: the shape of the machine's stack and the types of  *)
(* its variables, and that nobody closes or enters a producer behind the   *)
(* back of its own callback.                                               *)
(***************************************************************************)
EXTENDS Producers, FiniteSetTheorems, SequenceTheorems, WellFoundedInduction, TLAPS

-----------------------------------------------------------------------------
(* The shape of the stack.                                                 *)

Phases == {"none", "new", "acquiring", "ready", "stepping", "closing", "closed"}
Jobs == {"entry", "ended", "attempt", "acquire", "step", "release", "reason",
         "transform", "fold"}
Callbacks == {"acquire", "step", "release", "reason"}
Stages == {"pull", "acquire", "step", "transform", "exhausted", "consume", "fold",
           "settle", "done"}

\* The producer that the consumer's demand reaches.
Demanded(task) == IF task.inner = 0 THEN task.outer ELSE task.inner

\* A callback runs in the scope of its producer.
Bodies ==
  {f \in [kind : {"body"}, job : Jobs, of : Scope, owner : Scope, made : Scope,
          opened : 0..MaxResources] :
     f.job \in Callbacks => f.of # 0 /\ f.owner = f.of}

\* A consumer owns producers of its graph, and asks the one that demand reaches.
TaskFrames ==
  {f \in [kind : {"task"}, owner : Scope, consumer : Consumers, flat : BOOLEAN,
          outer : Scope, inner : Scope, from : Scope, owned : SUBSET Producer,
          graph : SUBSET Producer, at : Stages] :
     /\ f.owned \subseteq f.graph
     /\ {f.outer, f.inner} \subseteq f.graph \cup {0}
     /\ f.at \notin {"settle", "done"} => f.outer # 0
     /\ f.at \in {"acquire", "step", "exhausted"} => f.from = Demanded(f)}

Actions ==
  [do : {"producer", "second", "check", "scope", "finish"}, on : Producer]
    \cup [do : {"close"}, on : SUBSET (1..MaxResources)]

\* The second application and its check come first and stand before the scope
\* of their producer, which stands before its finish.
Shape(a) ==
  \A k \in 1..Len(a) :
    /\ a[k].do = "scope" => k < Len(a) /\ a[k + 1] = Act("finish", a[k].on)
    /\ a[k].do = "second" => k = 1 /\ Len(a) > 1 /\ a[2] = Act("check", a[1].on)
    /\ a[k].do = "check" => /\ k = 1 \/ (k = 2 /\ a[1].do = "second")
                            /\ k < Len(a) /\ a[k + 1] = Act("scope", a[k].on)

\* What cleanup may retain.
Causes == {e \in Errors : e.kind # "ok"}

CleanupFrames ==
  {f \in [kind : {"cleanup"}, reason : Reason, after : {"resume", "boundary", "unwind"},
          error : Causes, actions : Seq(Actions)] : Shape(f.actions)}

Frame == Bodies \cup TaskFrames \cup CleanupFrames

\* What stands on what: an attempt, a transform and a fold in the scope of the frame
\* below, a callback on the consumer or the cleanup that applied it.
Above(f, g) ==
  /\ g.kind = "body" =>
       /\ g.job \notin {"entry", "ended"}
       /\ g.job = "attempt" => f.kind = "body" /\ f.job # "ended" /\ g.owner = f.owner
       /\ g.job \in {"acquire", "step"} => f.kind = "task" /\ f.at = g.job /\ g.of = f.from
       /\ g.job \in {"transform", "fold"} =>
            f.kind = "task" /\ f.at = g.job /\ g.owner = f.owner
       /\ g.job = "release" =>
            f.kind = "cleanup" /\ f.actions # <<>> /\ f.actions[1] = Act("second", g.of)
       /\ g.job = "reason" =>
            f.kind = "cleanup" /\ f.actions # <<>> /\ f.actions[1] = Act("check", g.of)
  /\ g.kind = "task" => f.kind = "body" /\ f.job # "ended" /\ g.owner = f.owner
  /\ g.kind = "cleanup" =>
       /\ g.after = "resume" => f.kind = "task" /\ f.at \in {"pull", "exhausted", "done"}
       /\ g.after = "boundary" => f.kind = "body" /\ f.job = "ended"
       /\ g.after = "unwind" => f.kind # "cleanup" /\ g.error.kind # "none"

Bottom(f) == f.kind = "body" /\ f.job \in {"entry", "ended"} /\ f.owner = 0

Stacked(fs) ==
  /\ fs # <<>> => Bottom(fs[1])
  /\ \A i \in 2..Len(fs) : Above(fs[i - 1], fs[i])

VarInv ==
  /\ phase \in [Producer -> Phases]
  /\ parent \in [Producer -> Scope]
  /\ token \in [Producer -> BOOLEAN]
  /\ items \in [Producer -> NoState..MaxItems]
  /\ resources \in Seq(Scope) /\ Len(resources) <= MaxResources
  /\ live \subseteq 1..Len(resources)
  /\ aborting \in BOOLEAN
  /\ outcome \in Errors
  /\ errors \in 0..MaxTroubles
  /\ stops \in Seq({"cancel", "exit"})
  /\ caught \subseteq Errors
  /\ releases \in [Producer -> Seq(Int \cup Reason)]

TypeInv == frames \in Seq(Frame) /\ VarInv

ShapeInv == TypeInv /\ Stacked(frames)

\* gs is fs up to its frame m, which has become f ...
Rebased(fs, gs, m, f) ==
  /\ m \in 1..Len(fs) /\ Len(gs) = m /\ gs[m] = f
  /\ \A i \in 1..m - 1 : gs[i] = fs[i]

\* ... and has g on top of it.
Grown(fs, gs, m, f, g) ==
  /\ m \in 1..Len(fs) /\ Len(gs) = m + 1 /\ gs[m] = f /\ gs[m + 1] = g
  /\ \A i \in 1..m - 1 : gs[i] = fs[i]

-----------------------------------------------------------------------------
(* Stacks.                                                                 *)

LEMMA Bounds ==
  /\ MaxProducers \in Nat /\ MaxItems \in Nat /\ MaxResources \in Nat
  /\ MaxTroubles \in Nat /\ Flat \subseteq BOOLEAN
  BY BoundsNatural

LEMMA RebasedSeq ==
  ASSUME NEW S, NEW fs \in Seq(S), NEW m \in 1..Len(fs), NEW f \in S
  PROVE  LET gs == Append(SubSeq(fs, 1, m - 1), f)
         IN  gs \in Seq(S) /\ Rebased(fs, gs, m, f)
  <1> DEFINE b == SubSeq(fs, 1, m - 1)
  <1>1. Len(fs) \in Nat /\ m \in Int /\ m - 1 \in Int /\ m >= 1 BY LenProperties
  <1>2. \A i \in 1..m - 1 : fs[i] \in S BY <1>1, ElementOfSeq
  <1>3. /\ b \in Seq(S) /\ Len(b) = m - 1
        /\ \A i \in 1..m - 1 : b[i] = fs[i]
    <2>1. /\ b \in Seq(S) /\ Len(b) = IF 1 <= m - 1 THEN (m - 1) - 1 + 1 ELSE 0
          /\ \A i \in 1..(m - 1) - 1 + 1 : b[i] = fs[1 + i - 1]
      BY <1>1, <1>2, SubSeqProperties
    <2>2. QED BY <1>1, <2>1
  <1> HIDE DEF b
  <1>4. /\ Append(b, f) \in Seq(S) /\ Len(Append(b, f)) = Len(b) + 1
        /\ \A i \in 1..Len(b) : Append(b, f)[i] = b[i]
        /\ Append(b, f)[Len(b) + 1] = f
    BY <1>3, AppendProperties
  <1>5. Rebased(fs, Append(b, f), m, f) BY <1>1, <1>3, <1>4 DEF Rebased
  <1>6. QED BY <1>4, <1>5 DEF b

LEMMA GrownSeq ==
  ASSUME NEW S, NEW fs \in Seq(S), NEW m \in 1..Len(fs), NEW f \in S, NEW g \in S,
         NEW gs \in Seq(S), Rebased(fs, gs, m, f)
  PROVE  /\ Append(gs, g) \in Seq(S) /\ Grown(fs, Append(gs, g), m, f, g)
         /\ gs \o <<g>> = Append(gs, g)
  <1>1. /\ Append(gs, g) \in Seq(S) /\ Len(Append(gs, g)) = Len(gs) + 1
        /\ \A i \in 1..Len(gs) : Append(gs, g)[i] = gs[i]
        /\ Append(gs, g)[Len(gs) + 1] = g
    BY AppendProperties
  <1>2. gs \o <<g>> = Append(gs, g) BY AppendIsConcat
  <1>3. Len(fs) \in Nat BY LenProperties
  <1>4. Grown(fs, Append(gs, g), m, f, g) BY <1>1, <1>3 DEF Grown, Rebased
  <1>5. QED BY <1>1, <1>2, <1>4

LEMMA CutSeq ==
  ASSUME NEW S, NEW fs \in Seq(S), NEW m \in 1..Len(fs)
  PROVE  /\ SubSeq(fs, 1, m) \in Seq(S)
         /\ Rebased(fs, SubSeq(fs, 1, m), m, fs[m])
  <1>1. Len(fs) \in Nat /\ m \in Int /\ m >= 1 /\ m <= Len(fs) BY LenProperties
  <1>2. \A i \in 1..m : fs[i] \in S BY <1>1, ElementOfSeq
  <1>3. /\ SubSeq(fs, 1, m) \in Seq(S)
        /\ Len(SubSeq(fs, 1, m)) = IF 1 <= m THEN m - 1 + 1 ELSE 0
        /\ \A i \in 1..m - 1 + 1 : SubSeq(fs, 1, m)[i] = fs[1 + i - 1]
    BY <1>1, <1>2, SubSeqProperties
  <1>4. QED BY <1>1, <1>3 DEF Rebased

\* The stack operations of the actions, n being the place of the running frame.
LEMMA StackMoves ==
  ASSUME NEW S, frames \in Seq(S), frames # <<>>
  PROVE  \E n \in Nat \ {0} :
           /\ n = Len(frames) /\ Top = frames[n] /\ Top \in S /\ DOMAIN frames = 1..n
           /\ \A g \in S : Pushed(g) \in Seq(S) /\ Grown(frames, Pushed(g), n, Top, g)
           /\ \A f \in S : Replaced(f) \in Seq(S) /\ Rebased(frames, Replaced(f), n, f)
           /\ \A f, g \in S : /\ Replaced(f) \o <<g>> \in Seq(S)
                              /\ Grown(frames, Replaced(f) \o <<g>>, n, f, g)
           /\ n > 1 =>
                /\ Below(frames) \in Seq(S) /\ Rebased(frames, Below(frames), n - 1, frames[n - 1])
                /\ Caller = frames[n - 1] /\ Caller \in S
                /\ \A f \in S : Answered(f) \in Seq(S) /\ Rebased(frames, Answered(f), n - 1, f)
                /\ \A f, g \in S : /\ Answered(f) \o <<g>> \in Seq(S)
                                   /\ Grown(frames, Answered(f) \o <<g>>, n - 1, f, g)
  <1>1. PICK n \in Nat \ {0} : n = Len(frames) BY EmptySeq
  <1>2. Top = frames[n] /\ Top \in S /\ DOMAIN frames = 1..n
    BY <1>1, ElementOfSeq, LenProperties DEF Top, Last
  <1>3. Rebased(frames, frames, n, Top) BY <1>1, <1>2 DEF Rebased
  <1>4. ASSUME NEW g \in S
        PROVE  Pushed(g) \in Seq(S) /\ Grown(frames, Pushed(g), n, Top, g)
    BY <1>1, <1>2, <1>3, <1>4, GrownSeq DEF Pushed
  <1>5. ASSUME NEW f \in S
        PROVE  Replaced(f) \in Seq(S) /\ Rebased(frames, Replaced(f), n, f)
    <2>1. n \in 1..Len(frames) BY <1>1
    <2>2. Replaced(f) = Append(SubSeq(frames, 1, n - 1), f)
      BY <1>1 DEF Replaced, Below, Front
    <2>3. QED BY <1>5, <2>1, <2>2, RebasedSeq
  <1>6. ASSUME NEW f \in S, NEW g \in S
        PROVE  /\ Replaced(f) \o <<g>> \in Seq(S)
               /\ Grown(frames, Replaced(f) \o <<g>>, n, f, g)
    <2> DEFINE b == Replaced(f)
    <2>1. n \in 1..Len(frames) BY <1>1
    <2>2. b \in Seq(S) /\ Rebased(frames, b, n, f) BY <1>5
    <2> HIDE DEF b
    <2>3. /\ Append(b, g) \in Seq(S) /\ Grown(frames, Append(b, g), n, f, g)
          /\ b \o <<g>> = Append(b, g)
      BY <2>1, <2>2, GrownSeq
    <2>4. QED BY <2>3 DEF b
  <1>7. ASSUME n > 1
        PROVE  /\ Below(frames) \in Seq(S)
               /\ Rebased(frames, Below(frames), n - 1, frames[n - 1])
               /\ Caller = frames[n - 1] /\ Caller \in S
               /\ \A f \in S : Answered(f) \in Seq(S) /\ Rebased(frames, Answered(f), n - 1, f)
               /\ \A f, g \in S : /\ Answered(f) \o <<g>> \in Seq(S)
                                  /\ Grown(frames, Answered(f) \o <<g>>, n - 1, f, g)
    <2>1. n - 1 \in 1..Len(frames) BY <1>1, <1>7
    <2> DEFINE b == Below(frames)
    <2>2. b \in Seq(S) /\ Rebased(frames, b, n - 1, frames[n - 1])
      BY <1>1, <2>1, CutSeq DEF Below, Front
    <2>3. Len(b) = n - 1 /\ b[n - 1] = frames[n - 1] BY <2>2 DEF Rebased
    <2>4. Caller = frames[n - 1] /\ Caller \in S
      BY <1>1, <2>1, <2>3, ElementOfSeq DEF Caller, Last
    <2>5. ASSUME NEW f \in S
          PROVE  Answered(f) \in Seq(S) /\ Rebased(frames, Answered(f), n - 1, f)
      <3> HIDE DEF b
      <3>1. n - 1 \in 1..Len(b) BY <2>1, <2>3
      <3>2. Answered(f) = Append(SubSeq(b, 1, n - 1 - 1), f)
        BY <2>3 DEF Answered, Below, Front, b
      <3>3. Answered(f) \in Seq(S) /\ Rebased(b, Answered(f), n - 1, f)
        BY <2>2, <2>5, <3>1, <3>2, RebasedSeq
      <3>4. QED BY <1>1, <2>1, <2>2, <3>3 DEF Rebased
    <2>6. ASSUME NEW f \in S, NEW g \in S
          PROVE  /\ Answered(f) \o <<g>> \in Seq(S)
                 /\ Grown(frames, Answered(f) \o <<g>>, n - 1, f, g)
      <3> DEFINE c == Answered(f)
      <3>1. c \in Seq(S) /\ Rebased(frames, c, n - 1, f) BY <2>5
      <3> HIDE DEF b, c
      <3>2. /\ Append(c, g) \in Seq(S) /\ Grown(frames, Append(c, g), n - 1, f, g)
            /\ c \o <<g>> = Append(c, g)
        BY <2>1, <3>1, GrownSeq
      <3>3. QED BY <3>2 DEF c
    <2>7. QED BY <2>2, <2>4, <2>5, <2>6
  <1>8. QED BY <1>1, <1>2, <1>4, <1>5, <1>6, <1>7

-----------------------------------------------------------------------------
(* Places on the stack.                                                    *)

\* Every nonempty set of numbers has a least one, and a bounded one a greatest one.
LEMMA LeastNumber ==
  ASSUME NEW T, T \subseteq Nat, T # {}
  PROVE  \E x \in T : \A y \in T : x <= y
  <1> DEFINE R == OpToRel(<, Nat)
  <1>1. IsWellFoundedOn(R, Nat) BY NatLessThanWellFounded
  <1>2. \A x, y \in Nat : y < x => <<y, x>> \in R BY DEF OpToRel
  <1> HIDE DEF R
  <1>3. PICK x \in T : \A y \in T : ~(<<y, x>> \in R) BY <1>1, WFMin
  <1>4. \A y \in T : ~(y < x) BY <1>2, <1>3
  <1>5. QED BY <1>4

LEMMA MinOf ==
  ASSUME NEW T, T \subseteq Nat, T # {}
  PROVE  Min(T) \in T /\ \A i \in T : Min(T) <= i
  <1>1. \E x \in T : \A y \in T : x <= y BY LeastNumber
  <1>2. QED BY <1>1 DEF Min

LEMMA LastIs ==
  ASSUME NEW n \in Nat, NEW T, T \subseteq 1..n
  PROVE  /\ LastOf(T) \in 0..n
         /\ T = {} => LastOf(T) = 0
         /\ T # {} => LastOf(T) \in T
         /\ \A i \in T : i <= LastOf(T)
  <1>1. CASE T = {} BY <1>1 DEF LastOf
  <1>2. CASE T # {}
    <2> DEFINE U == {n - i : i \in T}
    <2>1. U \subseteq Nat /\ U # {}
      <3>1. \A i \in T : n - i \in Nat OBVIOUS
      <3>2. \E u : u \in U BY <1>2
      <3>3. QED BY <3>1, <3>2
    <2>2. PICK x \in U : \A y \in U : x <= y BY <2>1, LeastNumber
    <2>3. PICK j \in T : x = n - j BY <2>2
    <2>4. \A i \in T : n - j <= n - i BY <2>2, <2>3
    <2>5. \A i \in T : j >= i BY <2>3, <2>4
    <2>6. \E i \in T : \A k \in T : i >= k BY <2>5
    <2>7. Max(T) \in T /\ \A k \in T : Max(T) >= k BY <2>6 DEF Max
    <2> HIDE DEF U
    <2>8. LastOf(T) = Max(T) BY <1>2 DEF LastOf
    <2>9. LastOf(T) \in T /\ \A k \in T : LastOf(T) >= k BY <2>7, <2>8
    <2>10. LastOf(T) \in 0..n /\ \A k \in T : k <= LastOf(T)
      <3>1. \A k \in T : k \in 1..n OBVIOUS
      <3>2. LastOf(T) \in 1..n BY <2>9, <3>1
      <3>3. \A k \in T : k <= LastOf(T) BY <2>9, <3>1, <3>2
      <3>4. QED BY <3>2, <3>3
    <2>11. QED BY <1>2, <2>9, <2>10
  <1>3. QED BY <1>1, <1>2

Attempted(fs) == {i \in DOMAIN fs : IsAttempt(fs[i])}

\* An error goes to an attempt or to a cleanup frame; no cleanup frame is above it;
\* a machine that is aborting outside of cleanup has no such place.
LEMMA CheckpointIs ==
  ASSUME NEW fs \in Seq(Frame), NEW abort \in BOOLEAN
  PROVE  LET at == Checkpoint(fs, abort)
         IN  /\ at \in 0..Len(fs)
             /\ at > 0 => at \in Cleanups(fs) \/ IsAttempt(fs[at])
             /\ \A i \in Cleanups(fs) : i <= at
             /\ abort /\ Cleanups(fs) = {} => at = 0
             /\ Checkpoint(fs, TRUE) <= at
             /\ at <= Checkpoint(fs, FALSE)
  <1> DEFINE innermost == LastOf(Cleanups(fs))
             attempt == LastOf(Attempted(fs))
  <1>1. PICK n \in Nat : n = Len(fs) /\ DOMAIN fs = 1..n BY LenProperties
  <1>2. Cleanups(fs) \subseteq 1..n /\ Attempted(fs) \subseteq 1..n
    BY <1>1 DEF Cleanups, Attempted
  <1>3. /\ Checkpoint(fs, abort) =
             IF attempt > innermost /\ (~abort \/ innermost > 0) THEN attempt ELSE innermost
        /\ Checkpoint(fs, TRUE) =
             IF attempt > innermost /\ innermost > 0 THEN attempt ELSE innermost
        /\ Checkpoint(fs, FALSE) = IF attempt > innermost THEN attempt ELSE innermost
    BY DEF Checkpoint, Attempted
  <1>4. /\ innermost \in 0..n
        /\ Cleanups(fs) = {} => innermost = 0
        /\ innermost > 0 => innermost \in Cleanups(fs)
        /\ \A i \in Cleanups(fs) : i <= innermost
    BY <1>2, LastIs
  <1>5. attempt \in 0..n /\ (attempt > 0 => attempt \in Attempted(fs)) BY <1>2, LastIs
  <1>6. attempt > 0 => IsAttempt(fs[attempt]) BY <1>5 DEF Attempted
  <1> HIDE DEF innermost, attempt
  <1>7. Cleanups(fs) \subseteq Int BY <1>2
  <1>8. \A i \in Cleanups(fs) : i <= Checkpoint(fs, abort) BY <1>3, <1>4, <1>5, <1>7
  <1>9. /\ Checkpoint(fs, abort) \in 0..Len(fs)
        /\ Checkpoint(fs, abort) > 0 =>
             Checkpoint(fs, abort) \in Cleanups(fs) \/ IsAttempt(fs[Checkpoint(fs, abort)])
        /\ abort /\ Cleanups(fs) = {} => Checkpoint(fs, abort) = 0
        /\ Checkpoint(fs, TRUE) <= Checkpoint(fs, abort)
        /\ Checkpoint(fs, abort) <= Checkpoint(fs, FALSE)
    <2> DEFINE at == Checkpoint(fs, abort)
    <2>1. at = attempt \/ at = innermost BY <1>3
    <2>2. at \in 0..Len(fs) BY <1>1, <1>4, <1>5, <2>1
    <2>3. at > 0 => at \in Cleanups(fs) \/ IsAttempt(fs[at])
      BY <1>4, <1>5, <1>6, <2>1
    <2>4. abort /\ Cleanups(fs) = {} => at = 0 BY <1>3, <1>4
    <2>5. Checkpoint(fs, TRUE) <= at /\ at <= Checkpoint(fs, FALSE)
      <3>1. PICK yes : yes = Checkpoint(fs, TRUE) OBVIOUS
      <3>2. PICK no : no = Checkpoint(fs, FALSE) OBVIOUS
      <3>3. yes = IF attempt > innermost /\ innermost > 0 THEN attempt ELSE innermost
        BY <1>3, <3>1, Zenon
      <3>4. no = IF attempt > innermost THEN attempt ELSE innermost BY <1>3, <3>2, Zenon
      <3>5. yes \in Int /\ no \in Int /\ yes <= no BY <1>4, <1>5, <3>3, <3>4
      <3>6. at = yes \/ at = no
        <4>1. abort = TRUE \/ abort = FALSE OBVIOUS
        <4>2. QED BY <3>1, <3>2, <4>1, Zenon
      <3>7. yes <= at /\ at <= no
        <4> HIDE DEF at
        <4>1. QED BY <3>5, <3>6
      <3>8. QED BY <3>1, <3>2, <3>7, Zenon
    <2>6. QED BY <2>2, <2>3, <2>4, <2>5
  <1>10. QED BY <1>8, <1>9

\* It depends on the kinds of the frames and on where the attempts are.
LEMMA SameCheckpoint ==
  ASSUME NEW fs, NEW gs, DOMAIN fs = DOMAIN gs,
         \A i \in DOMAIN fs : /\ fs[i].kind = gs[i].kind
                              /\ IsAttempt(fs[i]) <=> IsAttempt(gs[i]),
         NEW abort
  PROVE  Checkpoint(fs, abort) = Checkpoint(gs, abort) /\ Cleanups(fs) = Cleanups(gs)
  <1>1. Cleanups(fs) = Cleanups(gs) BY DEF Cleanups
  <1>2. {i \in DOMAIN fs : IsAttempt(fs[i])} = {i \in DOMAIN gs : IsAttempt(gs[i])} OBVIOUS
  <1>3. QED BY <1>1, <1>2 DEF Checkpoint

-----------------------------------------------------------------------------
(* The orders in which producers are closed.                               *)

LEMMA ProducersFinite ==
  ASSUME NEW S, S \subseteq Producer
  PROVE  IsFiniteSet(S) /\ Cardinality(S) \in 0..MaxProducers
  <1>1. IsFiniteSet(Producer) /\ Cardinality(Producer) = MaxProducers
    BY Bounds, FS_Interval DEF Producer
  <1>2. IsFiniteSet(S) /\ Cardinality(S) <= Cardinality(Producer) BY <1>1, FS_Subset
  <1>3. Cardinality(S) \in Nat BY <1>2, FS_CardinalityType
  <1>4. QED BY <1>1, <1>2, <1>3, Bounds

\* InOrder lists the members of S and nothing else.
LEMMA InOrderLists ==
  ASSUME NEW S, S \subseteq Producer, NEW place \in [Producer -> Int]
  PROVE  /\ InOrder(S, place) \in Seq(S)
         /\ InOrder(S, place) = <<>> <=> S = {}
         /\ \A p \in S : \E i \in 1..Len(InOrder(S, place)) : InOrder(S, place)[i] = p
  <1> DEFINE upTo(p) == {q \in S : place[q] < place[p] \/ (place[q] = place[p] /\ q <= p)}
             position == [p \in S |-> Cardinality(upTo(p))]
             c == Cardinality(S)
  <1>1. IsFiniteSet(S) /\ c \in Nat BY ProducersFinite, Bounds
  <1>2. S \subseteq Int BY Bounds DEF Producer
  <1>3. \A p \in S : place[p] \in Int OBVIOUS
  <1>4. \A p \in S : /\ upTo(p) \subseteq S /\ p \in upTo(p)
                     /\ IsFiniteSet(upTo(p)) /\ Cardinality(upTo(p)) \in Nat
                     /\ Cardinality(upTo(p)) <= c
    <2> SUFFICES ASSUME NEW p \in S
                 PROVE  /\ upTo(p) \subseteq S /\ p \in upTo(p)
                        /\ IsFiniteSet(upTo(p)) /\ Cardinality(upTo(p)) \in Nat
                        /\ Cardinality(upTo(p)) <= c
      OBVIOUS
    <2>1. upTo(p) \subseteq S /\ p \in upTo(p) BY <1>2, <1>3
    <2>2. IsFiniteSet(upTo(p)) /\ Cardinality(upTo(p)) <= c BY <1>1, <2>1, FS_Subset
    <2>3. Cardinality(upTo(p)) \in Nat BY <2>2, FS_CardinalityType
    <2>4. QED BY <2>1, <2>2, <2>3
  <1>5. \A p \in S : Cardinality(upTo(p)) \in 1..c
    <2> SUFFICES ASSUME NEW p \in S PROVE Cardinality(upTo(p)) \in 1..c OBVIOUS
    <2>1. Cardinality(upTo(p)) \in Nat /\ Cardinality(upTo(p)) <= c
          /\ p \in upTo(p) /\ IsFiniteSet(upTo(p))
      BY <1>4
    <2> HIDE DEF upTo, c
    <2>2. Cardinality(upTo(p)) # 0 BY <2>1, FS_EmptySet
    <2>3. QED BY <1>1, <2>1, <2>2
  <1>6. \A p, q \in S : p # q /\ q \in upTo(p) => Cardinality(upTo(q)) < Cardinality(upTo(p))
    <2> SUFFICES ASSUME NEW p \in S, NEW q \in S, p # q, q \in upTo(p)
                 PROVE  Cardinality(upTo(q)) < Cardinality(upTo(p))
      OBVIOUS
    <2>1. upTo(q) \subseteq upTo(p) /\ p \notin upTo(q)
      <3>1. p \in Int /\ q \in Int /\ place[p] \in Int /\ place[q] \in Int BY <1>2, <1>3
      <3>2. place[q] < place[p] \/ (place[q] = place[p] /\ q < p) BY <3>1
      <3>3. p \notin upTo(q) BY <3>1, <3>2
      <3>4. ASSUME NEW r \in upTo(q) PROVE r \in upTo(p)
        <4>1. r \in S /\ r \in Int /\ place[r] \in Int BY <1>2, <1>3, <3>4
        <4>2. place[r] < place[q] \/ (place[r] = place[q] /\ r <= q) BY <3>4
        <4>3. QED BY <3>1, <3>2, <4>1, <4>2
      <3>5. QED BY <3>3, <3>4
    <2>2. upTo(q) # upTo(p) BY <1>4, <2>1
    <2>3. /\ Cardinality(upTo(q)) <= Cardinality(upTo(p))
          /\ Cardinality(upTo(p)) = Cardinality(upTo(q)) => upTo(p) = upTo(q)
      BY <1>4, <2>1, FS_Subset
    <2>4. Cardinality(upTo(p)) \in Nat /\ Cardinality(upTo(q)) \in Nat BY <1>4
    <2> HIDE DEF upTo
    <2>5. QED BY <2>2, <2>3, <2>4
  <1>7. \A p, q \in S : p \in upTo(q) \/ q \in upTo(p) BY <1>2, <1>3
  <1>8. position \in [S -> 1..c] BY <1>5
  <1>9. \A p, q \in S : position[p] = position[q] => p = q
    <2> SUFFICES ASSUME NEW p \in S, NEW q \in S, p # q PROVE position[p] # position[q]
      OBVIOUS
    <2>1. Cardinality(upTo(p)) \in Int /\ Cardinality(upTo(q)) \in Int BY <1>4
    <2>2. Cardinality(upTo(p)) # Cardinality(upTo(q)) BY <1>6, <1>7, <2>1
    <2>3. QED BY <2>2
  <1>10. position \in Injection(S, 1..c) BY <1>8, <1>9 DEF Injection, IsInjective
  <1>11. IsFiniteSet(1..c) /\ Cardinality(1..c) = c BY <1>1, FS_Interval
  <1>12. position \in Surjection(S, 1..c) BY <1>1, <1>10, <1>11, FS_Injection
  <1>13. \A i \in 1..c : \E p \in S : position[p] = i BY <1>12 DEF Surjection
  <1> DEFINE order == [i \in 1..c |-> CHOOSE p \in S : position[p] = i]
  <1>14. InOrder(S, place) = order
    <2>1. \A i \in 1..c : (CHOOSE p \in S : Cardinality(upTo(p)) = i)
                            = (CHOOSE p \in S : position[p] = i)
      OBVIOUS
    <2>2. InOrder(S, place) = [i \in 1..c |-> CHOOSE p \in S : Cardinality(upTo(p)) = i]
      BY DEF InOrder
    <2>3. QED BY <2>1, <2>2
  <1> HIDE DEF position, upTo
  <1>15. \A i \in 1..c : order[i] \in S /\ position[order[i]] = i BY <1>13
  <1>16. \A p \in S : position[p] \in 1..c /\ order[position[p]] = p BY <1>8, <1>9, <1>15
  <1>17. order \in [1..c -> S] BY <1>15
  <1>18. order \in Seq(S) /\ Len(order) = c
    <2>1. order \in Seq(S)
      <3> HIDE DEF order, c
      <3>1. order \in UNION {[1..m -> S] : m \in Nat} BY <1>1, <1>17
      <3>2. QED BY <3>1, SeqDef
    <2>2. DOMAIN order = 1..c BY <1>17
    <2>3. DOMAIN order = 1..Len(order) /\ Len(order) \in Nat BY <2>1, LenProperties
    <2> HIDE DEF order, c
    <2>4. QED BY <1>1, <2>1, <2>2, <2>3
  <1>19. order = <<>> <=> S = {}
    <2>1. S = {} => c = 0 BY FS_EmptySet
    <2>2. c = 0 => S = {} BY <1>1, FS_EmptySet
    <2>3. order = <<>> <=> c = 0 BY <1>1, <1>18, EmptySeq
    <2>4. QED BY <2>1, <2>2, <2>3
  <1> HIDE DEF order
  <1>20. QED BY <1>14, <1>16, <1>18, <1>19

-----------------------------------------------------------------------------
(* Actions of cleanup.                                                     *)

\* No application is under way.
Callless(a) == \A k \in 1..Len(a) : a[k].do \notin {"second", "check"}

\* c is x and then what a has after its first d actions.
Follows(a, c, d, x) ==
  /\ d \in 0..Len(a) /\ Len(c) = Len(x) + Len(a) - d
  /\ \A k \in 1..Len(x) : c[k] = x[k]
  /\ \A k \in 1..Len(a) - d : c[Len(x) + k] = a[k + d]

LEMMA TailActions ==
  ASSUME NEW a \in Seq(Actions), Shape(a), a # <<>>
  PROVE  /\ Tail(a) \in Seq(Actions) /\ Len(Tail(a)) = Len(a) - 1 /\ Len(a) \in Nat \ {0}
         /\ \A k \in 1..Len(a) - 1 : Tail(a)[k] = a[k + 1]
         /\ Head(a) = a[1] /\ a[1] \in Actions
         /\ Shape(Tail(a))
         /\ a[1].do # "second" => Callless(Tail(a))
  <1> DEFINE b == Tail(a)
  <1>1. PICK n \in Nat \ {0} : n = Len(a) BY EmptySeq
  <1>2. b \in Seq(Actions) /\ Len(b) = n - 1 /\ \A k \in 1..n - 1 : b[k] = a[k + 1]
    BY <1>1, HeadTailProperties
  <1>3. Head(a) = a[1] /\ a[1] \in Actions BY <1>1, ElementOfSeq
  <1> HIDE DEF b
  <1>4. ASSUME NEW k \in 1..n - 1
        PROVE  /\ b[k].do = "scope" => k < n - 1 /\ b[k + 1] = Act("finish", b[k].on)
               /\ b[k].do = "second" => k = 1 /\ n - 1 > 1 /\ b[2] = Act("check", b[1].on)
               /\ b[k].do = "check" => /\ k = 1 \/ (k = 2 /\ b[1].do = "second")
                                       /\ k < n - 1 /\ b[k + 1] = Act("scope", b[k].on)
               /\ a[1].do # "second" => b[k].do \notin {"second", "check"}
    <2>1. b[k] = a[k + 1] /\ (k < n - 1 => b[k + 1] = a[k + 2])
      <3>1. k < n - 1 => k + 1 \in 1..n - 1 /\ k + 1 + 1 = k + 2 OBVIOUS
      <3>2. QED BY <1>2, <3>1
    <2>2. k + 1 \in 1..n BY <1>1
    <2>3. /\ a[k + 1].do = "scope" => k + 1 < n /\ a[k + 1 + 1] = Act("finish", a[k + 1].on)
          /\ a[k + 1].do = "second" => k + 1 = 1
          /\ a[k + 1].do = "check" =>
               /\ k + 1 = 1 \/ (k + 1 = 2 /\ a[1].do = "second")
               /\ k + 1 < n /\ a[k + 1 + 1] = Act("scope", a[k + 1].on)
      BY <1>1, <2>2 DEF Shape
    <2>4. k + 1 + 1 = k + 2 /\ k + 1 # 1 /\ (k + 1 < n => k < n - 1) /\ (k + 1 = 2 => k = 1)
      BY <1>1
    <2>5. QED BY <2>1, <2>3, <2>4
  <1>5. Shape(b) BY <1>2, <1>4 DEF Shape
  <1>6. a[1].do # "second" => Callless(b) BY <1>2, <1>4 DEF Callless
  <1>7. QED BY <1>1, <1>2, <1>3, <1>5, <1>6 DEF b

LEMMA JoinActions ==
  ASSUME NEW x \in Seq(Actions), NEW b \in Seq(Actions), Shape(x), Shape(b), Callless(b)
  PROVE  /\ x \o b \in Seq(Actions) /\ Shape(x \o b)
         /\ Len(x \o b) = Len(x) + Len(b)
         /\ \A k \in 1..Len(x) : (x \o b)[k] = x[k]
         /\ \A k \in 1..Len(b) : (x \o b)[Len(x) + k] = b[k]
         /\ Callless(x) => Callless(x \o b)
  <1> DEFINE c == x \o b
  <1>1. PICK l \in Nat : l = Len(x) BY LenProperties
  <1>2. PICK n \in Nat : n = Len(b) BY LenProperties
  <1>3. /\ c \in Seq(Actions) /\ Len(c) = l + n
        /\ \A k \in 1..l + n : c[k] = IF k <= l THEN x[k] ELSE b[k - l]
    BY <1>1, <1>2, ConcatProperties
  <1> HIDE DEF c
  <1>4. \A k \in 1..l : c[k] = x[k] BY <1>1, <1>2, <1>3
  <1>5. \A k \in 1..n : c[l + k] = b[k]
    <2> SUFFICES ASSUME NEW k \in 1..n PROVE c[l + k] = b[k] OBVIOUS
    <2>1. l + k \in 1..l + n /\ ~(l + k <= l) /\ l + k - l = k BY <1>1, <1>2
    <2>2. QED BY <1>3, <2>1
  <1>6. ASSUME NEW k \in 1..l
        PROVE  /\ c[k].do = "scope" => k < l + n /\ c[k + 1] = Act("finish", c[k].on)
               /\ c[k].do = "second" => k = 1 /\ l + n > 1 /\ c[2] = Act("check", c[1].on)
               /\ c[k].do = "check" => /\ k = 1 \/ (k = 2 /\ c[1].do = "second")
                                       /\ k < l + n /\ c[k + 1] = Act("scope", c[k].on)
    <2>1. /\ x[k].do = "scope" => k < l /\ x[k + 1] = Act("finish", x[k].on)
          /\ x[k].do = "second" => k = 1 /\ l > 1 /\ x[2] = Act("check", x[1].on)
          /\ x[k].do = "check" => /\ k = 1 \/ (k = 2 /\ x[1].do = "second")
                                  /\ k < l /\ x[k + 1] = Act("scope", x[k].on)
      BY <1>1, <1>6 DEF Shape
    <2>2. /\ c[k] = x[k] /\ (k < l => c[k + 1] = x[k + 1]) /\ (l > 1 => c[2] = x[2])
          /\ c[1] = x[1]
      BY <1>1, <1>4
    <2>3. QED BY <1>1, <1>2, <2>1, <2>2
  <1>7. ASSUME NEW k \in 1..n
        PROVE  /\ c[l + k].do = "scope" =>
                    l + k < l + n /\ c[l + k + 1] = Act("finish", c[l + k].on)
               /\ c[l + k].do \notin {"second", "check"}
    <2>1. /\ b[k].do = "scope" => k < n /\ b[k + 1] = Act("finish", b[k].on)
          /\ b[k].do \notin {"second", "check"}
      BY <1>2, <1>7 DEF Shape, Callless
    <2>2. c[l + k] = b[k] /\ (k < n => c[l + k + 1] = b[k + 1])
      <3>1. k < n => k + 1 \in 1..n /\ l + (k + 1) = l + k + 1 BY <1>1, <1>2
      <3>2. QED BY <1>5, <3>1
    <2>3. QED BY <1>1, <1>2, <2>1, <2>2
  <1>8. \A k \in 1..l + n : k \in 1..l \/ \E i \in 1..n : k = l + i
    <2> SUFFICES ASSUME NEW k \in 1..l + n, k \notin 1..l PROVE \E i \in 1..n : k = l + i
      OBVIOUS
    <2>1. k - l \in 1..n /\ k = l + (k - l) BY <1>1, <1>2
    <2>2. QED BY <2>1
  <1>9. Shape(c)
    <2> SUFFICES ASSUME NEW k \in 1..l + n
                 PROVE  /\ c[k].do = "scope" => k < l + n /\ c[k + 1] = Act("finish", c[k].on)
                        /\ c[k].do = "second" =>
                             k = 1 /\ l + n > 1 /\ c[2] = Act("check", c[1].on)
                        /\ c[k].do = "check" =>
                             /\ k = 1 \/ (k = 2 /\ c[1].do = "second")
                             /\ k < l + n /\ c[k + 1] = Act("scope", c[k].on)
      BY <1>3 DEF Shape
    <2>1. CASE k \in 1..l BY <1>6, <2>1
    <2>2. CASE \E i \in 1..n : k = l + i
      <3>1. PICK i \in 1..n : k = l + i BY <2>2
      <3>2. QED BY <1>7, <3>1
    <2>3. QED BY <1>8, <2>1, <2>2
  <1>10. Callless(x) => Callless(c)
    <2> SUFFICES ASSUME Callless(x), NEW k \in 1..l + n PROVE c[k].do \notin {"second", "check"}
      BY <1>3 DEF Callless
    <2>1. CASE k \in 1..l BY <1>1, <1>4, <2>1 DEF Callless
    <2>2. CASE \E i \in 1..n : k = l + i BY <1>7, <2>2
    <2>3. QED BY <1>8, <2>1, <2>2
  <1>11. QED BY <1>1, <1>2, <1>3, <1>4, <1>5, <1>9, <1>10 DEF c

\* Without an application under way there is nothing to give up.
LEMMA UnappliedActions ==
  ASSUME NEW a \in Seq(Actions), Shape(a)
  PROVE  /\ Unapplied(a) \in Seq(Actions) /\ Shape(Unapplied(a)) /\ Callless(Unapplied(a))
         /\ Callless(a) => Unapplied(a) = a
         /\ \E d \in 0..2 : /\ Follows(a, Unapplied(a), d, <<>>)
                            /\ \A k \in 1..d : a[k].do \in {"second", "check"}
                            /\ Callless(a) => d = 0
  <1>1. PICK n \in Nat : n = Len(a) BY LenProperties
  <1>2. CASE a # <<>> /\ a[1].do = "second"
    <2> DEFINE b == Tail(a)
    <2>1. /\ b \in Seq(Actions) /\ Len(b) = n - 1 /\ n # 0 /\ Shape(b)
          /\ \A k \in 1..n - 1 : b[k] = a[k + 1]
      BY <1>1, <1>2, TailActions
    <2>2. n > 1 /\ a[2].do = "check"
      <3>1. 1 \in 1..n BY <1>1, <2>1
      <3>2. n > 1 /\ a[2] = Act("check", a[1].on) BY <1>1, <1>2, <3>1 DEF Shape
      <3>3. QED BY <3>2 DEF Act
    <2>3. b[1] = a[2]
      <3> HIDE DEF b
      <3>1. 1 \in 1..n - 1 BY <1>1, <2>2
      <3>2. b[1] = a[1 + 1] BY <2>1, <3>1
      <3>3. QED BY <3>2
    <2>4. b # <<>> BY <1>1, <2>1, <2>2
    <2> HIDE DEF b
    <2> DEFINE c == Tail(b)
    <2>5. /\ c \in Seq(Actions) /\ Len(c) = n - 1 - 1 /\ Shape(c) /\ Callless(c)
          /\ \A k \in 1..n - 1 - 1 : c[k] = b[k + 1]
      BY <2>1, <2>2, <2>3, <2>4, TailActions
    <2>6. \A k \in 1..n - 2 : c[k] = a[k + 2]
      <3> SUFFICES ASSUME NEW k \in 1..n - 2 PROVE c[k] = a[k + 2] OBVIOUS
      <3>1. k \in 1..n - 1 - 1 /\ k + 1 \in 1..n - 1 /\ k + 1 + 1 = k + 2 BY <1>1, <2>2
      <3>2. QED BY <2>1, <2>5, <3>1
    <2>7. Unapplied(a) = c BY <1>2 DEF Unapplied, b
    <2>8. ~Callless(a) BY <1>1, <1>2, <2>2 DEF Callless
    <2>9. Follows(a, c, 2, <<>>)
      <3>1. Len(<<>>) = 0 OBVIOUS
      <3>2. 2 \in 0..Len(a) /\ Len(c) = 0 + n - 2 BY <1>1, <2>2, <2>5
      <3> HIDE DEF c
      <3>3. \A k \in 1..n - 2 : c[0 + k] = a[k + 2]
        <4> SUFFICES ASSUME NEW k \in 1..n - 2 PROVE c[0 + k] = a[k + 2] OBVIOUS
        <4>1. 0 + k = k OBVIOUS
        <4>2. QED BY <2>6, <4>1
      <3>4. QED BY <1>1, <3>1, <3>2, <3>3 DEF Follows
    <2>10. \A k \in 1..2 : a[k].do \in {"second", "check"} BY <1>2, <2>2
    <2> HIDE DEF c
    <2>11. \E d \in 0..2 : /\ Follows(a, c, d, <<>>)
                           /\ \A k \in 1..d : a[k].do \in {"second", "check"}
                           /\ Callless(a) => d = 0
      BY <2>8, <2>9, <2>10
    <2>12. QED BY <2>5, <2>7, <2>8, <2>11
  <1>3. CASE a # <<>> /\ a[1].do = "check"
    <2> DEFINE b == Tail(a)
    <2>1. /\ b \in Seq(Actions) /\ Len(b) = n - 1 /\ n # 0 /\ Shape(b) /\ Callless(b)
          /\ \A k \in 1..n - 1 : b[k] = a[k + 1]
      BY <1>1, <1>3, TailActions
    <2>2. Unapplied(a) = b BY <1>3 DEF Unapplied
    <2>3. ~Callless(a) BY <1>1, <1>3, <2>1 DEF Callless
    <2> HIDE DEF b
    <2>4. Follows(a, b, 1, <<>>)
      <3>1. Len(<<>>) = 0 OBVIOUS
      <3>2. 1 \in 0..Len(a) /\ Len(b) = 0 + n - 1 BY <1>1, <2>1
      <3>3. \A k \in 1..n - 1 : b[0 + k] = a[k + 1] BY <2>1
      <3>4. QED BY <1>1, <3>1, <3>2, <3>3 DEF Follows
    <2>5. \A k \in 1..1 : a[k].do \in {"second", "check"} BY <1>3
    <2>6. QED BY <2>1, <2>2, <2>3, <2>4, <2>5
  <1>4. CASE ~(a # <<>> /\ a[1].do \in {"second", "check"})
    <2>1. Unapplied(a) = a BY <1>4 DEF Unapplied
    <2>2. Callless(a)
      <3> SUFFICES ASSUME NEW k \in 1..n, a[k].do \in {"second", "check"} PROVE FALSE
        BY <1>1 DEF Callless
      <3>1. a # <<>>
        <4>1. a = <<>> => n = 0 BY <1>1
        <4>2. QED BY <1>1, <4>1
      <3>2. a[1].do \in {"second", "check"} BY <1>1 DEF Shape
      <3>3. QED BY <1>4, <3>1, <3>2
    <2>3. Follows(a, a, 0, <<>>) BY <1>1 DEF Follows
    <2>4. QED BY <2>1, <2>2, <2>3
  <1>5. QED BY <1>2, <1>3, <1>4

-----------------------------------------------------------------------------
(* The frames that the actions make.                                       *)

LEMMA FrameKinds ==
  ASSUME NEW f \in Frame
  PROVE  /\ f.kind \in {"body", "task", "cleanup"}
         /\ f.kind = "body" => f \in Bodies
         /\ f.kind = "task" => f \in TaskFrames
         /\ f.kind = "cleanup" => f \in CleanupFrames
  BY DEF Frame, Bodies, TaskFrames, CleanupFrames

LEMMA KindFrames ==
  /\ \A f \in Bodies : f \in Frame /\ f.kind = "body"
  /\ \A f \in TaskFrames : f \in Frame /\ f.kind = "task"
  /\ \A f \in CleanupFrames : f \in Frame /\ f.kind = "cleanup"
  BY DEF Frame, Bodies, TaskFrames, CleanupFrames

LEMMA NotedIs ==
  ASSUME NEW e \in Errors, NEW s \in Errors
  PROVE  Noted(e, s) \in Errors /\ Noted(e, s).kind = e.kind /\ Noted(e, s).id = e.id
  <1>1. e.notes \cup {s.id} \cup s.notes \in SUBSET (0..MaxTroubles) BY DEF Errors
  <1>2. Noted(e, s) = [e EXCEPT !.notes = e.notes \cup {s.id} \cup s.notes] BY DEF Noted
  <1>3. QED BY <1>1, <1>2 DEF Errors

LEMMA ErrorIs ==
  ASSUME NEW kind \in {"none", "op", "cancel", "exit", "ok"}, NEW id \in 0..MaxTroubles
  PROVE  /\ Error(kind, id) \in Errors /\ Error(kind, id).kind = kind /\ Error(kind, id).id = id
         /\ None \in Errors /\ None.kind = "none"
         /\ [None EXCEPT !.kind = "ok"] \in Errors
  BY Bounds DEF Error, Errors, None

LEMMA SurvivesIs ==
  ASSUME NEW f \in CleanupFrames, NEW e \in Causes, e.kind # "none"
  PROVE  LET g == Survives(f, e)
         IN  /\ g \in CleanupFrames /\ g.kind = "cleanup"
             /\ g.reason = f.reason /\ g.after = f.after
             /\ g.actions = Unapplied(f.actions)
             /\ g.error = IF f.error.kind \in {"none", "exit"} THEN e ELSE Noted(f.error, e)
             /\ g.error.kind = IF f.error.kind \in {"none", "exit"} THEN e.kind ELSE f.error.kind
             /\ g.error.id = IF f.error.kind \in {"none", "exit"} THEN e.id ELSE f.error.id
             /\ g.error.kind # "none"
  <1> DEFINE a == Unapplied(f.actions)
             x == IF f.error.kind \in {"none", "exit"} THEN e ELSE Noted(f.error, e)
  <1>1. /\ f \in [kind : {"cleanup"}, reason : Reason, after : {"resume", "boundary", "unwind"},
                  error : Causes, actions : Seq(Actions)]
        /\ Shape(f.actions)
    BY DEF CleanupFrames
  <1>2. f.actions \in Seq(Actions) /\ f.error \in Errors /\ f.error.kind # "ok" /\ e \in Errors
    BY <1>1 DEF Causes
  <1>3. a \in Seq(Actions) /\ Shape(a) BY <1>1, <1>2, UnappliedActions
  <1>4. /\ x \in Causes /\ x.kind # "none"
        /\ x.kind = IF f.error.kind \in {"none", "exit"} THEN e.kind ELSE f.error.kind
        /\ x.id = IF f.error.kind \in {"none", "exit"} THEN e.id ELSE f.error.id
    BY <1>2, NotedIs DEF Causes
  <1>5. Survives(f, e) = [f EXCEPT !.actions = a, !.error = x] BY DEF Survives
  <1> HIDE DEF a, x
  <1>6. /\ Survives(f, e) \in
             [kind : {"cleanup"}, reason : Reason, after : {"resume", "boundary", "unwind"},
              error : Causes, actions : Seq(Actions)]
        /\ Survives(f, e).kind = "cleanup" /\ Survives(f, e).actions = a
        /\ Survives(f, e).error = x
        /\ Survives(f, e).reason = f.reason /\ Survives(f, e).after = f.after
    BY <1>1, <1>3, <1>4, <1>5
  <1>7. Survives(f, e) \in CleanupFrames BY <1>3, <1>6 DEF CleanupFrames
  <1>8. QED BY <1>4, <1>6, <1>7 DEF a, x

LEMMA InterruptedIs ==
  ASSUME NEW f \in CleanupFrames, NEW kind \in {"cancel", "exit"}
  PROVE  LET g == Interrupted(f, kind)
         IN  /\ g \in CleanupFrames /\ g.kind = "cleanup"
             /\ g.reason = f.reason /\ g.after = f.after /\ g.actions = f.actions
             /\ g.error.kind # "none"
             /\ g.error.kind = "op" => g.error = f.error
  <1>1. /\ f \in [kind : {"cleanup"}, reason : Reason, after : {"resume", "boundary", "unwind"},
                  error : Causes, actions : Seq(Actions)]
        /\ Shape(f.actions) /\ f.error \in Errors
    BY DEF CleanupFrames, Causes
  <1>2. Error(kind, 0) \in Errors /\ Error(kind, 0).kind = kind BY ErrorIs, Bounds
  <1> DEFINE x == IF f.error.kind = "none" THEN Error(kind, 0)
                  ELSE Noted(Error(kind, 0), f.error)
             hit == f.error.kind = "none" \/ (kind = "cancel" /\ f.error.kind # "cancel")
  <1>3. x \in Causes /\ x.kind = kind BY <1>1, <1>2, NotedIs DEF Causes
  <1>4. Interrupted(f, kind) = IF hit THEN [f EXCEPT !.error = x] ELSE f
    BY <1>1 DEF Interrupted
  <1>5. ~hit => f.error.kind # "none" OBVIOUS
  <1> HIDE DEF x, hit
  <1>6. CASE hit
    <2>1. Interrupted(f, kind) = [f EXCEPT !.error = x] BY <1>4, <1>6
    <2> DEFINE g == [f EXCEPT !.error = x]
    <2>2. /\ g \in [kind : {"cleanup"}, reason : Reason,
                    after : {"resume", "boundary", "unwind"},
                    error : Causes, actions : Seq(Actions)]
          /\ g.kind = "cleanup" /\ g.reason = f.reason /\ g.after = f.after
          /\ g.actions = f.actions /\ g.error = x
      BY <1>1, <1>3
    <2>3. g \in CleanupFrames BY <1>1, <2>2 DEF CleanupFrames
    <2>4. QED BY <1>3, <2>1, <2>2, <2>3
  <1>7. CASE ~hit
    <2>1. Interrupted(f, kind) = f BY <1>4, <1>7
    <2>2. QED BY <1>1, <1>5, <1>7, <2>1
  <1>8. QED BY <1>6, <1>7

\* What a new cleanup frame does.
Closes(a, S, keys) ==
  /\ a \in Seq(Actions) /\ Shape(a) /\ Callless(a)
  /\ \A k \in 1..Len(a) : \/ a[k].do = "producer" /\ a[k].on \in S
                          \/ a[k] = Act("close", keys)
  /\ \A p \in S : \E k \in 1..Len(a) : a[k] = Act("producer", p)
  /\ \A r \in keys : \E k \in 1..Len(a) : a[k].do = "close" /\ r \in a[k].on

LEMMA ClosesIs ==
  ASSUME NEW S, S \subseteq Producer, NEW producers \in Seq(S),
         \A p \in S : \E i \in 1..Len(producers) : producers[i] = p,
         NEW keys, keys \subseteq 1..MaxResources
  PROVE  Closes([i \in 1..Len(producers) |-> Act("producer", producers[i])] \o Closing(keys),
                S, keys)
  <1> DEFINE x == [i \in 1..Len(producers) |-> Act("producer", producers[i])]
             b == Closing(keys)
  <1>1. PICK l \in Nat : l = Len(producers) BY LenProperties
  <1>2. \A i \in 1..l : producers[i] \in S BY <1>1, ElementOfSeq
  <1>3. \A p \in Producer : Act("producer", p) \in Actions BY DEF Act, Actions
  <1>4. \A i \in 1..l : x[i] = Act("producer", producers[i]) /\ x[i] \in Actions
    BY <1>1, <1>2, <1>3
  <1>5. x \in [1..l -> Actions] BY <1>1, <1>4
  <1>6. x \in Seq(Actions)
    <2> HIDE DEF x
    <2>1. x \in UNION {[1..m -> Actions] : m \in Nat} BY <1>1, <1>5
    <2>2. QED BY <2>1, SeqDef
  <1>7. Len(x) = l
    <2>1. DOMAIN x = 1..l BY <1>1
    <2> HIDE DEF x
    <2>2. DOMAIN x = 1..Len(x) /\ Len(x) \in Nat BY <1>6, LenProperties
    <2>3. QED BY <1>1, <2>1, <2>2
  <1> HIDE DEF x
  <1>8. Act("close", keys) \in Actions BY DEF Act, Actions
  <1>9. /\ b \in Seq(Actions) /\ \A k \in 1..Len(b) : b[k] = Act("close", keys)
        /\ Len(b) = IF keys = {} THEN 0 ELSE 1
    BY <1>8 DEF Closing
  <1> HIDE DEF b
  <1>10. \A k \in 1..Len(x) : x[k].do = "producer" /\ x[k].on \in S
    BY <1>2, <1>4, <1>7 DEF Act
  <1>11. \A k \in 1..Len(b) : b[k].do = "close"
    <2>1. Act("close", keys).do = "close" BY DEF Act
    <2>2. QED BY <1>9, <2>1
  <1>12. Shape(x) /\ Callless(x) BY <1>10 DEF Shape, Callless
  <1>13. Shape(b) /\ Callless(b) BY <1>11 DEF Shape, Callless
  <1> DEFINE c == x \o b
  <1>14. /\ c \in Seq(Actions) /\ Shape(c) /\ Callless(c) /\ Len(c) = Len(x) + Len(b)
         /\ \A k \in 1..Len(x) : c[k] = x[k]
         /\ \A k \in 1..Len(b) : c[Len(x) + k] = b[k]
    BY <1>6, <1>9, <1>12, <1>13, JoinActions
  <1> HIDE DEF c
  <1>15. Len(x) \in Nat /\ Len(b) \in Nat BY <1>1, <1>7, <1>9
  <1>16. \A k \in 1..Len(c) : \/ c[k].do = "producer" /\ c[k].on \in S
                              \/ c[k] = Act("close", keys)
    <2> SUFFICES ASSUME NEW k \in 1..Len(c)
                 PROVE  \/ c[k].do = "producer" /\ c[k].on \in S
                        \/ c[k] = Act("close", keys)
      OBVIOUS
    <2>1. CASE k <= Len(x)
      <3>1. k \in 1..Len(x) BY <1>14, <1>15, <2>1
      <3>2. QED BY <1>10, <1>14, <3>1
    <2>2. CASE ~(k <= Len(x))
      <3>1. k - Len(x) \in 1..Len(b) /\ Len(x) + (k - Len(x)) = k BY <1>14, <1>15, <2>2
      <3>2. c[k] = b[k - Len(x)] BY <1>14, <3>1
      <3>3. QED BY <1>9, <3>1, <3>2
    <2>3. QED BY <2>1, <2>2
  <1>17. \A p \in S : \E k \in 1..Len(c) : c[k] = Act("producer", p)
    <2> SUFFICES ASSUME NEW p \in S PROVE \E k \in 1..Len(c) : c[k] = Act("producer", p)
      OBVIOUS
    <2>1. PICK i \in 1..l : producers[i] = p BY <1>1
    <2>2. i \in 1..Len(c) /\ i \in 1..Len(x) BY <1>7, <1>14, <1>15
    <2>3. c[i] = Act("producer", p) BY <1>4, <1>14, <2>1, <2>2
    <2>4. QED BY <2>2, <2>3
  <1>18. \A r \in keys : \E k \in 1..Len(c) : c[k].do = "close" /\ r \in c[k].on
    <2> SUFFICES ASSUME NEW r \in keys
                 PROVE  \E k \in 1..Len(c) : c[k].do = "close" /\ r \in c[k].on
      OBVIOUS
    <2>1. Len(b) = 1 BY <1>9
    <2>2. Len(x) + 1 \in 1..Len(c) BY <1>14, <1>15, <2>1
    <2>3. 1 \in 1..Len(b) BY <2>1
    <2>4. c[Len(x) + 1] = b[1] BY <1>14, <2>3
    <2>5. b[1] = Act("close", keys) BY <1>9, <2>3
    <2>6. Act("close", keys).do = "close" /\ Act("close", keys).on = keys BY DEF Act
    <2>7. QED BY <2>2, <2>4, <2>5, <2>6
  <1>19. Closes(c, S, keys) BY <1>14, <1>16, <1>17, <1>18 DEF Closes
  <1>20. QED BY <1>19 DEF c, x, b

\* A list of the producers S, and a set of resources.
Lists(producers, S) ==
  /\ S \subseteq Producer /\ producers \in Seq(S)
  /\ \A p \in S : \E i \in 1..Len(producers) : producers[i] = p
Keys == SUBSET (1..MaxResources)

LEMMA CleanupIs ==
  ASSUME NEW S, NEW producers, Lists(producers, S), NEW keys \in Keys,
         NEW reason \in Reason, NEW after \in {"resume", "boundary", "unwind"},
         NEW e \in Causes
  PROVE  LET g == Cleanup(producers, keys, reason, after, e)
         IN  /\ g \in CleanupFrames /\ g.kind = "cleanup"
             /\ g.after = after /\ g.error = e
             /\ Closes(g.actions, S, keys)
  <1> DEFINE a == [i \in 1..Len(producers) |-> Act("producer", producers[i])] \o Closing(keys)
  <1>1. Closes(a, S, keys) BY ClosesIs DEF Lists, Keys
  <1>2. Cleanup(producers, keys, reason, after, e)
          = [kind |-> "cleanup", reason |-> reason, after |-> after, error |-> e, actions |-> a]
    BY DEF Cleanup
  <1> HIDE DEF a
  <1>3. a \in Seq(Actions) /\ Shape(a) BY <1>1 DEF Closes
  <1>4. QED BY <1>1, <1>2, <1>3 DEF CleanupFrames

LEMMA BodyIs ==
  ASSUME TypeInv, NEW job \in Jobs, NEW of \in Scope, NEW owner \in Scope,
         job \in Callbacks => of # 0 /\ owner = of
  PROVE  LET g == Body(job, of, owner)
         IN  /\ g \in Bodies /\ g.kind = "body"
             /\ g.job = job /\ g.of = of /\ g.owner = owner
             /\ g.made = Cardinality({p \in Producer : phase[p] # "none"})
  <1> DEFINE made == Cardinality({p \in Producer : phase[p] # "none"})
             opened == Len(resources)
  <1>1. made \in Scope BY ProducersFinite, Bounds DEF Scope
  <1>2. opened \in 0..MaxResources
    <2>1. opened \in Nat /\ opened <= MaxResources BY LenProperties DEF TypeInv, VarInv
    <2>2. QED BY <2>1, Bounds
  <1>3. Body(job, of, owner) = [kind |-> "body", job |-> job, of |-> of, owner |-> owner,
                                made |-> made, opened |-> opened]
    BY DEF Body
  <1> HIDE DEF made, opened
  <1>4. QED BY <1>1, <1>2, <1>3 DEF Bodies, made

LEMMA TaskIs ==
  ASSUME NEW p \in Producer, NEW flat \in Flat, NEW consumer \in Consumers, NEW owner \in Scope
  PROVE  LET g == Task(p, flat, consumer, owner)
         IN  /\ g \in TaskFrames /\ g.kind = "task" /\ g.owner = owner
             /\ g.graph = {p} /\ g.at \in {"pull", "settle"}
  <1> DEFINE at == IF consumer = "close" THEN "settle" ELSE "pull"
  <1>1. Task(p, flat, consumer, owner) =
          [kind |-> "task", owner |-> owner, consumer |-> consumer, flat |-> flat,
           outer |-> p, inner |-> 0, from |-> 0, owned |-> {p}, graph |-> {p}, at |-> at]
    BY DEF Task
  <1>2. at \in {"pull", "settle"} OBVIOUS
  <1>3. p \in Scope /\ 0 \in Scope /\ p # 0 /\ flat \in BOOLEAN
    BY Bounds DEF Producer, Scope
  <1> HIDE DEF at
  <1>4. QED BY <1>1, <1>2, <1>3 DEF TaskFrames, Stages

LEMMA TaskFields ==
  ASSUME NEW f \in TaskFrames
  PROVE  /\ f.kind = "task" /\ f.owner \in Scope /\ f.consumer \in Consumers
         /\ f.outer \in Scope /\ f.inner \in Scope /\ f.from \in Scope
         /\ f.owned \subseteq f.graph /\ f.graph \subseteq Producer /\ f.at \in Stages
         /\ {f.outer, f.inner} \subseteq f.graph \cup {0}
         /\ Owned(f) \subseteq f.graph
         /\ f.at \notin {"settle", "done"} =>
              f.outer # 0 /\ Demanded(f) \in f.graph /\ Demanded(f) \in Producer
         /\ f.at \in {"acquire", "step", "exhausted"} =>
              f.from = Demanded(f) /\ f.from \in f.graph /\ f.from \in Producer
         /\ Reached(f) \in [Producer -> 0..1]
  <1>1. /\ f.kind = "task" /\ f.owner \in Scope /\ f.consumer \in Consumers
        /\ f.outer \in Scope /\ f.inner \in Scope /\ f.from \in Scope
        /\ f.owned \subseteq f.graph /\ f.graph \subseteq Producer /\ f.at \in Stages
        /\ {f.outer, f.inner} \subseteq f.graph \cup {0}
        /\ f.at \notin {"settle", "done"} => f.outer # 0
        /\ f.at \in {"acquire", "step", "exhausted"} => f.from = Demanded(f)
    BY DEF TaskFrames
  <1>2. Owned(f) \subseteq f.graph BY <1>1 DEF Owned
  <1>3. f.outer # 0 => Demanded(f) \in f.graph BY <1>1 DEF Demanded
  <1>4. Reached(f) \in [Producer -> 0..1] BY DEF Reached
  <1>5. f.at \in {"acquire", "step", "exhausted"} => f.at \notin {"settle", "done"} OBVIOUS
  <1>6. QED BY <1>1, <1>2, <1>3, <1>4, <1>5

LEMMA BodyFields ==
  ASSUME NEW f \in Bodies
  PROVE  /\ f.kind = "body" /\ f.job \in Jobs /\ f.of \in Scope /\ f.owner \in Scope
         /\ f.made \in Scope /\ f.opened \in 0..MaxResources
         /\ f.job \in Callbacks => f.of \in Producer /\ f.owner = f.of
  BY Bounds DEF Bodies, Scope, Producer

LEMMA CleanupFields ==
  ASSUME NEW f \in CleanupFrames
  PROVE  /\ f.kind = "cleanup" /\ f.reason \in Reason
         /\ f.after \in {"resume", "boundary", "unwind"} /\ f.error \in Causes
         /\ f.actions \in Seq(Actions) /\ Shape(f.actions)
  BY DEF CleanupFrames

LEMMA OwnerFields ==
  ASSUME NEW f \in Frame, f.kind # "cleanup"
  PROVE  f.owner \in Scope
  BY FrameKinds, TaskFields, BodyFields

\* The producers that an error leaves open above its checkpoint.
LeftOpen(fs, at) == {p \in Served(fs, at) \cup Made(fs, at) : Active(p)}

LEMMA AbandonedIs ==
  ASSUME NEW fs \in Seq(Frame), NEW at \in 0..Len(fs), at > 0 => IsAttempt(fs[at])
  PROVE  /\ LeftOpen(fs, at) \subseteq Producer
         /\ Abandoned(fs, at) \in Seq(LeftOpen(fs, at))
         /\ Abandoned(fs, at) = <<>> <=> LeftOpen(fs, at) = {}
         /\ \A p \in LeftOpen(fs, at) :
              \E i \in 1..Len(Abandoned(fs, at)) : Abandoned(fs, at)[i] = p
  <1>1. PICK n \in Nat : n = Len(fs) /\ DOMAIN fs = 1..n BY LenProperties
  <1>2. \A i \in 1..n : fs[i] \in Frame BY <1>1, ElementOfSeq
  <1>3. \A i \in Tasks(fs, at) : i \in 1..n /\ fs[i] \in TaskFrames
    BY <1>1, <1>2, FrameKinds DEF Tasks
  <1>4. Served(fs, at) \subseteq Producer
    <2>1. \A i \in Tasks(fs, at) : Owned(fs[i]) \subseteq Producer BY <1>3, TaskFields
    <2>2. QED BY <2>1 DEF Served
  <1>5. Made(fs, at) \subseteq Producer
    <2>1. CASE at = 0 BY <2>1, Bounds DEF Made, Producer
    <2>2. CASE at # 0
      <3>1. at \in 1..n /\ fs[at].kind = "body" BY <1>1, <2>2 DEF IsAttempt
      <3>2. fs[at].made \in Nat BY <1>2, <3>1, FrameKinds, BodyFields, Bounds DEF Scope
      <3>3. QED BY <2>2, <3>2, Bounds DEF Made, Producer
    <2>3. QED BY <2>1, <2>2
  <1>6. LeftOpen(fs, at) \subseteq Producer BY <1>4, <1>5 DEF LeftOpen
  <1>7. Owners(fs, at) \in [Producer -> Int]
    <2> SUFFICES ASSUME NEW p \in Producer
                 PROVE  (LET tasks == {i \in Tasks(fs, at) : p \in Owned(fs[i])}
                         IN  IF tasks = {} THEN 2 * Len(fs) + 2
                             ELSE 2 * Min(tasks) + Reached(fs[Min(tasks)])[p]) \in Int
      BY DEF Owners
    <2> DEFINE tasks == {i \in Tasks(fs, at) : p \in Owned(fs[i])}
    <2>1. tasks \subseteq Nat BY <1>3
    <2>2. tasks # {} => Min(tasks) \in tasks BY <2>1, MinOf
    <2>3. tasks # {} => Min(tasks) \in Int /\ fs[Min(tasks)] \in TaskFrames
      BY <1>3, <2>2
    <2>4. tasks # {} => Reached(fs[Min(tasks)])[p] \in Int BY <2>3, TaskFields
    <2> HIDE DEF tasks
    <2>5. (IF tasks = {} THEN 2 * Len(fs) + 2
           ELSE 2 * Min(tasks) + Reached(fs[Min(tasks)])[p]) \in Int
      BY <1>1, <2>3, <2>4
    <2>6. QED BY <2>5 DEF tasks
  <1>8. Abandoned(fs, at) = InOrder(LeftOpen(fs, at), Owners(fs, at)) BY DEF Abandoned, LeftOpen
  <1> DEFINE S == LeftOpen(fs, at)
             place == Owners(fs, at)
  <1>9. S \subseteq Producer /\ place \in [Producer -> Int] BY <1>6, <1>7
  <1> HIDE DEF S, place
  <1>10. /\ InOrder(S, place) \in Seq(S)
         /\ InOrder(S, place) = <<>> <=> S = {}
         /\ \A p \in S : \E i \in 1..Len(InOrder(S, place)) : InOrder(S, place)[i] = p
    BY <1>9, InOrderLists
  <1>11. QED BY <1>8, <1>9, <1>10 DEF S, place

-----------------------------------------------------------------------------
(* What an error does to the stack.                                        *)

Aborts(error) == aborting \/ error.kind # "op"

\* It is deferred to a cleanup frame ...
Deferred(fs, error) ==
  LET at == Checkpoint(fs, Aborts(error))
  IN  /\ at \in 1..Len(fs) /\ fs[at].kind = "cleanup"
      /\ frames' \in Seq(Frame) /\ Rebased(fs, frames', at, Survives(fs[at], error))
      /\ aborting' = Aborts(error) /\ UNCHANGED <<outcome, caught, token>>

\* ... what it leaves open is closed first ...
Unwound(fs, error) ==
  LET at == Checkpoint(fs, Aborts(error))
  IN  /\ at > 0 => IsAttempt(fs[at])
      /\ \E g \in CleanupFrames :
           /\ g.after = "unwind" /\ g.error = error
           /\ Closes(g.actions, LeftOpen(fs, at), Unclosed(fs, at))
           /\ frames' \in Seq(Frame) /\ Grown(fs, frames', Len(fs), fs[Len(fs)], g)
      /\ aborting' = Aborts(error) /\ UNCHANGED <<outcome, caught, token>>

\* ... an attempt returns it ...
Returned(fs, error) ==
  LET at == Checkpoint(fs, Aborts(error))
  IN  /\ at \in 2..Len(fs) /\ IsAttempt(fs[at])
      /\ LeftOpen(fs, at) = {} /\ Unclosed(fs, at) = {}
      /\ frames' \in Seq(Frame) /\ Rebased(fs, frames', at - 1, fs[at - 1])
      /\ token' = [p \in Producer |-> token[p] /\ p <= fs[at].made]
      /\ caught' = caught \cup {error}
      /\ aborting' = Aborts(error) /\ UNCHANGED outcome

\* ... or the evaluation ends.
GivenUp(fs, error) ==
  LET at == Checkpoint(fs, Aborts(error))
  IN  /\ at = 0 /\ LeftOpen(fs, 0) = {} /\ Unclosed(fs, 0) = {}
      /\ frames' = <<>> /\ outcome' = error /\ aborting' = FALSE
      /\ token' = [p \in Producer |-> FALSE]
      /\ UNCHANGED caught

LEMMA Failing ==
  ASSUME TypeInv, NEW fs \in Seq(Frame), fs # <<>>, ~IsAttempt(fs[1]),
         NEW error \in Errors, error.kind \in {"op", "cancel", "exit"}, Fail(fs, error)
  PROVE  Deferred(fs, error) \/ Unwound(fs, error) \/ Returned(fs, error) \/ GivenUp(fs, error)
  <1> DEFINE at == Checkpoint(fs, Aborts(error))
             left == Abandoned(fs, at)
             keys == Unclosed(fs, at)
             deferred == at > 0 /\ fs[at].kind = "cleanup"
             g == Cleanup(left, keys, Because(error), "unwind", error)
  <1>1. PICK n \in Nat \ {0} : n = Len(fs) /\ DOMAIN fs = 1..n BY EmptySeq, LenProperties
  <1>2. Aborts(error) \in BOOLEAN BY DEF TypeInv, VarInv, Aborts
  <1>3. at \in 0..n /\ (at > 0 => at \in Cleanups(fs) \/ IsAttempt(fs[at]))
    BY <1>1, <1>2, CheckpointIs
  <1>4. \A i \in 1..n : fs[i] \in Frame BY <1>1, ElementOfSeq
  <1>5. at > 0 /\ ~deferred => IsAttempt(fs[at]) BY <1>3 DEF Cleanups
  <1>6. keys \in Keys
    <2>1. keys \subseteq live BY DEF Unclosed
    <2>2. Len(resources) \in Nat BY LenProperties DEF TypeInv, VarInv
    <2> HIDE DEF keys
    <2>3. QED BY <2>1, <2>2, Bounds DEF TypeInv, VarInv, Keys
  <1> HIDE DEF keys
  <1>7. ~deferred => /\ LeftOpen(fs, at) \subseteq Producer /\ left \in Seq(LeftOpen(fs, at))
                     /\ left = <<>> <=> LeftOpen(fs, at) = {}
                     /\ \A p \in LeftOpen(fs, at) : \E i \in 1..Len(left) : left[i] = p
    BY <1>1, <1>3, <1>5, AbandonedIs
  <1> error \in Causes BY DEF Causes
  <1>8. Because(error) \in Reason BY DEF Because, Reason
  <1>9. ~deferred => /\ g \in CleanupFrames /\ g.after = "unwind" /\ g.error = error
                     /\ Closes(g.actions, LeftOpen(fs, at), keys)
    <2> SUFFICES ASSUME ~deferred
                 PROVE  /\ g \in CleanupFrames /\ g.after = "unwind" /\ g.error = error
                        /\ Closes(g.actions, LeftOpen(fs, at), keys)
      OBVIOUS
    <2> DEFINE S == LeftOpen(fs, at)
    <2>1. Lists(left, S) BY <1>7 DEF Lists
    <2>2. "unwind" \in {"resume", "boundary", "unwind"} OBVIOUS
    <2> HIDE DEF S, left, deferred
    <2>3. g \in CleanupFrames /\ g.after = "unwind" /\ g.error = error
          /\ Closes(g.actions, S, keys)
      BY <1>6, <1>8, <2>1, <2>2, CleanupIs
    <2>4. QED BY <2>3 DEF S
  <1>10. \/ /\ deferred
            /\ frames' = Append(SubSeq(fs, 1, at - 1), Survives(fs[at], error))
            /\ aborting' = Aborts(error)
            /\ UNCHANGED <<outcome, caught, token>>
         \/ /\ ~deferred /\ (left # <<>> \/ keys # {})
            /\ frames' = Append(fs, g)
            /\ aborting' = Aborts(error)
            /\ UNCHANGED <<outcome, caught, token>>
         \/ /\ ~deferred /\ left = <<>> /\ keys = {} /\ at > 0
            /\ frames' = SubSeq(fs, 1, at - 1)
            /\ caught' = caught \cup {error}
            /\ token' = [p \in Producer |-> token[p] /\ p <= fs[at].made]
            /\ aborting' = Aborts(error)
            /\ UNCHANGED outcome
         \/ /\ ~deferred /\ left = <<>> /\ keys = {} /\ ~(at > 0)
            /\ frames' = <<>>
            /\ outcome' = error
            /\ token' = [p \in Producer |-> FALSE]
            /\ aborting' = FALSE
            /\ UNCHANGED caught
    BY DEF Fail, Aborts, keys
  <1> HIDE DEF at, left, g
  <1>11. CASE deferred /\ frames' = Append(SubSeq(fs, 1, at - 1), Survives(fs[at], error))
              /\ aborting' = Aborts(error) /\ UNCHANGED <<outcome, caught, token>>
    <2>1. at \in 1..Len(fs) BY <1>1, <1>3, <1>11
    <2>2. fs[at] \in CleanupFrames BY <1>1, <1>4, <1>11, <2>1, FrameKinds
    <2>3. Survives(fs[at], error) \in Frame BY <2>2, SurvivesIs, KindFrames
    <2>4. frames' \in Seq(Frame) /\ Rebased(fs, frames', at, Survives(fs[at], error))
      BY <1>11, <2>1, <2>3, RebasedSeq
    <2>5. QED BY <1>11, <2>1, <2>4 DEF Deferred, at
  <1>12. CASE /\ ~deferred /\ frames' = Append(fs, g)
              /\ aborting' = Aborts(error) /\ UNCHANGED <<outcome, caught, token>>
    <2>1. n \in 1..Len(fs) /\ fs[n] \in Frame /\ Rebased(fs, fs, n, fs[n])
      BY <1>1, <1>4 DEF Rebased
    <2>2. g \in Frame BY <1>9, <1>12, KindFrames
    <2>3. frames' \in Seq(Frame) /\ Grown(fs, frames', n, fs[n], g)
      BY <1>12, <2>1, <2>2, GrownSeq
    <2>4. at > 0 => IsAttempt(fs[at]) BY <1>5, <1>12
    <2>5. QED BY <1>1, <1>9, <1>12, <2>3, <2>4 DEF Unwound, at, keys
  <1>13. CASE /\ ~deferred /\ left = <<>> /\ keys = {} /\ at > 0
              /\ frames' = SubSeq(fs, 1, at - 1)
              /\ caught' = caught \cup {error}
              /\ token' = [p \in Producer |-> token[p] /\ p <= fs[at].made]
              /\ aborting' = Aborts(error)
              /\ UNCHANGED outcome
    <2>1. IsAttempt(fs[at]) BY <1>5, <1>13
    <2>2. at # 1 BY <2>1
    <2>3. at \in 2..Len(fs) /\ at - 1 \in 1..Len(fs) BY <1>1, <1>3, <1>13, <2>2
    <2>4. frames' \in Seq(Frame) /\ Rebased(fs, frames', at - 1, fs[at - 1])
      BY <1>13, <2>3, CutSeq
    <2>5. LeftOpen(fs, at) = {} BY <1>7, <1>13
    <2>6. QED BY <1>13, <2>1, <2>3, <2>4, <2>5 DEF Returned, at, keys
  <1>14. CASE /\ ~deferred /\ left = <<>> /\ keys = {} /\ ~(at > 0)
              /\ frames' = <<>> /\ outcome' = error
              /\ token' = [p \in Producer |-> FALSE]
              /\ aborting' = FALSE /\ UNCHANGED caught
    <2>1. at = 0 BY <1>3, <1>14
    <2>2. LeftOpen(fs, at) = {} BY <1>7, <1>14
    <2>3. QED BY <1>14, <2>1, <2>2 DEF GivenUp, at, keys
  <1>15. QED BY <1>10, <1>11, <1>12, <1>13, <1>14

-----------------------------------------------------------------------------
(* The kinds of steps.                                                     *)

\* f takes the place of h.
Alike(h, f) ==
  /\ f.kind = h.kind
  /\ f.kind = "body" => f = h \/ (h.job = "entry" /\ f = [h EXCEPT !.job = "ended"])
  /\ f.kind = "task" => f.owner = h.owner /\ f.graph = h.graph /\ f.consumer = h.consumer
  /\ f.kind = "cleanup" => f = h

Depth == Len(frames)
Constructed == Cardinality({p \in Producer : phase[p] # "none"})
Still == UNCHANGED <<producing, opening, ending, errors, stops, releases>>

\* A body that is not a producer's callback, in the scope of the frame below.
Enters(g, jobs, owner) ==
  g \in Bodies /\ g.job \in jobs /\ g.owner = owner /\ g.made = Constructed

\* The cleanup on top after its first d actions, with x to be done before the others.
Continues(f, d, x) ==
  /\ f \in CleanupFrames /\ Top \in CleanupFrames
  /\ f.reason = Top.reason /\ f.after = Top.after /\ f.error = Top.error
  /\ Follows(Top.actions, f.actions, d, x)

\* Frames return or go on; nothing else changes.
Minor ==
  /\ Still
  /\ \E m \in Nat, f \in Frame :
       /\ Rebased(frames, frames', m, f) /\ Alike(frames[m], f)
       /\ Depth <= m + 1
       /\ \A i \in m + 1..Depth : frames[i].kind = "cleanup" =>
            frames[i].after # "unwind" /\ frames[i].actions = <<>> /\ frames[i].error.kind = "none"

\* A thunk or a fold step is entered.
Calling ==
  /\ Still /\ Top.kind # "cleanup"
  /\ \E f \in Frame, g \in Bodies :
       /\ Grown(frames, frames', Depth, f, g) /\ Alike(Top, f) /\ Above(f, g)
       /\ Enters(g, {"attempt", "fold"}, Top.owner)

\* A consumer closes producers of its graph, or the boundary everything.
Shutting ==
  /\ UNCHANGED <<phase, parent, items, opening, aborting, caught, outcome, errors, stops, releases>>
  /\ \A p \in Producer : token'[p] => token[p]
  /\ \E f \in Frame, g \in CleanupFrames, S \in SUBSET Producer, keys \in SUBSET live :
       /\ Grown(frames, frames', Depth, f, g) /\ Alike(Top, f) /\ Above(f, g)
       /\ g.after # "unwind" /\ g.error = None
       /\ Closes(g.actions, S, keys)
       /\ \/ Top.kind = "task" /\ S \subseteq Top.graph
          \/ Top.kind = "body" /\ Top.job = "ended" /\ \A p \in S : Active(p)

Ending ==
  /\ Running /\ Top.kind = "body" /\ Top.job = "ended"
  /\ frames' = <<>> /\ outcome' = [None EXCEPT !.kind = "ok"] /\ token' = [p \in Producer |-> FALSE]
  /\ \A p \in Producer : ~Active(p)
  /\ live = {} /\ UNCHANGED <<phase, parent, items, opening, aborting, caught, errors, stops, releases>>

Consuming ==
  /\ Coding
  /\ \E p \in Producer, g \in TaskFrames :
       /\ token[p] /\ parent[p] = Top.owner
       /\ Grown(frames, frames', Depth, Top, g)
       /\ g.owner = Top.owner /\ g.graph = {p}
       /\ token' = [token EXCEPT ![p] = FALSE]
  /\ UNCHANGED <<phase, parent, items, opening, ending, errors, stops, releases>>

\* Demand enters the acquire or the step callback of a producer.
Entering ==
  /\ Top \in TaskFrames
  /\ \E p \in Top.graph, f \in TaskFrames, g \in Bodies :
       /\ Grown(frames, frames', Depth, f, g) /\ Alike(Top, f)
       /\ Enters(g, {"acquire", "step"}, p) /\ f.at = g.job /\ f.from = p /\ g.of = p
       /\ phase[p] = IF g.job = "acquire" THEN "new" ELSE "ready"
       /\ phase' = [phase EXCEPT ![p] = IF g.job = "acquire" THEN "acquiring" ELSE "stepping"]
  /\ UNCHANGED <<parent, token, items, opening, ending, errors, stops, releases>>

\* Such a callback returns to its consumer, which may enter a transform or close the
\* producer.
Answering ==
  /\ Top \in Bodies /\ Top.job \in {"acquire", "step"} /\ Depth > 1
  /\ Caller \in TaskFrames /\ Caller.from = Top.of /\ Caller.at = Top.job
  /\ Top.of \in Caller.graph
  /\ phase' = [phase EXCEPT ![Top.of] = "ready"]
  /\ \E f \in TaskFrames :
       /\ Alike(Caller, f)
       /\ \/ Rebased(frames, frames', Depth - 1, f)
          \/ \E g \in Bodies : /\ Grown(frames, frames', Depth - 1, f, g) /\ Above(f, g)
                               /\ Enters(g, {"transform"}, Caller.owner)
          \/ \E g \in CleanupFrames :
               /\ Grown(frames, frames', Depth - 1, f, g) /\ Above(f, g)
               /\ g.after # "unwind" /\ g.error = None
               /\ Closes(g.actions, {Top.of}, {}) /\ items' = items
  /\ Top.job = "acquire" => items' = [items EXCEPT ![Top.of] = 0]
  /\ Top.job = "step" => \/ items' = items
                         \/ /\ items[Top.of] < MaxItems
                            /\ items' = [items EXCEPT ![Top.of] = @ + 1]
  /\ UNCHANGED <<parent, token, opening, ending, errors, stops, releases>>

\* flat_map's transform returns a stream.
Joining ==
  /\ Top \in Bodies /\ Depth > 1 /\ Caller \in TaskFrames
  /\ \E q \in Producer, f \in TaskFrames :
       /\ token[q] /\ parent[q] = Caller.owner
       /\ Rebased(frames, frames', Depth - 1, f)
       /\ f.owner = Caller.owner /\ f.graph = Caller.graph \cup {q}
       /\ token' = [token EXCEPT ![q] = FALSE]
  /\ UNCHANGED <<phase, parent, items, opening, ending, errors, stops, releases>>

\* A producer begins to close, after its release callback if it was acquired ...
Releases(p) ==
  /\ phase[p] \in {"ready", "stepping"}
  /\ \E f \in CleanupFrames, g \in Bodies :
       /\ Grown(frames, frames', Depth, f, g)
       /\ Continues(f, 1, <<Act("second", p), Act("check", p), Act("scope", p),
                            Act("finish", p)>>)
       /\ Enters(g, {"release"}, p) /\ g.of = p
  /\ releases' = [releases EXCEPT ![p] = Append(@, items[p])]
Discards(p) ==
  /\ phase[p] \in {"new", "acquiring"}
  /\ \E f \in CleanupFrames :
       /\ Rebased(frames, frames', Depth, f)
       /\ Continues(f, 1, <<Act("scope", p), Act("finish", p)>>)
  /\ releases' = releases
Beginning ==
  /\ Top \in CleanupFrames /\ Top.actions # <<>>
  /\ \E p \in Producer :
       /\ Top.actions[1] = Act("producer", p)
       /\ phase' = [phase EXCEPT ![p] = "closing"]
       /\ Releases(p) \/ Discards(p)
  /\ UNCHANGED <<parent, token, items, opening, ending, errors, stops>>

\* ... the reason is applied ...
Reasoning ==
  /\ Top \in CleanupFrames /\ Top.actions # <<>>
  /\ \E p \in Producer, f \in CleanupFrames, g \in Bodies :
       /\ Top.actions[1] = Act("second", p)
       /\ Grown(frames, frames', Depth, f, g) /\ Continues(f, 1, <<>>)
       /\ Enters(g, {"reason"}, p) /\ g.of = p
       /\ releases' = [releases EXCEPT ![p] = Append(@, Top.reason)]
  /\ UNCHANGED <<producing, opening, ending, errors, stops>>

\* ... the scope's own are added ...
Scoping ==
  /\ Still /\ Top \in CleanupFrames /\ Top.actions # <<>>
  /\ \E p \in Producer, f \in CleanupFrames, x \in Seq(Actions) :
       /\ Top.actions[1] = Act("scope", p)
       /\ Rebased(frames, frames', Depth, f) /\ Continues(f, 1, x)
       /\ Closes(x, {q \in Producer : Active(q) /\ parent[q] = p},
                 {r \in live : resources[r] = p})

\* ... and it is closed.
Finishing ==
  /\ Top \in CleanupFrames /\ Top.actions # <<>>
  /\ \E p \in Producer, f \in CleanupFrames :
       /\ Top.actions[1] = Act("finish", p)
       /\ Rebased(frames, frames', Depth, f) /\ Continues(f, 1, <<>>)
       /\ phase' = [phase EXCEPT ![p] = "closed"]
       /\ token' = [q \in Producer |-> token[q] /\ parent[q] # p]
  /\ UNCHANGED <<parent, items, opening, ending, errors, stops, releases>>

\* An action is over: a producer that is not active, a check, or keys; the last
\* two may have raised an error, which the cleanup retains.
Passing ==
  /\ Top \in CleanupFrames /\ Top.actions # <<>>
  /\ \/ /\ Top.actions[1].do = "producer" /\ ~Active(Top.actions[1].on)
        /\ live' = live
     \/ Top.actions[1].do = "check" /\ live' = live
     \/ Top.actions[1].do = "close" /\ live' = live \ Top.actions[1].on
  /\ \E f \in CleanupFrames :
       /\ Rebased(frames, frames', Depth, f)
       /\ f.reason = Top.reason /\ f.after = Top.after
       /\ Follows(Top.actions, f.actions, 1, <<>>)
       /\ \/ /\ f.error = Top.error /\ UNCHANGED <<aborting, errors>>
          \/ /\ errors' = errors + 1
             /\ aborting' = Aborts(Error("op", errors + 1))
             /\ Top.actions[1].do # "producer"
             /\ \E c \in CleanupFrames : /\ f = Survives(c, Error("op", errors + 1))
                                         /\ c.error = Top.error
  /\ UNCHANGED <<producing, resources, outcome, caught, stops, releases>>

\* The stack up to m fails with an error: one that is raised, the first
\* interruption, or the one that the cleanup on top ends with.
Failed ==
  /\ \E m \in Nat \ {0}, error \in Errors, fs \in Seq(Frame) :
       /\ m <= Depth /\ Rebased(frames, fs, m, frames[m])
       /\ Deferred(fs, error) \/ Unwound(fs, error) \/ Returned(fs, error) \/ GivenUp(fs, error)
       /\ \/ /\ m = Depth /\ fs = frames /\ error = Error("op", errors + 1)
             /\ errors' = errors + 1 /\ stops' = stops /\ Top.kind # "cleanup"
          \/ /\ m = Depth /\ fs = frames /\ Cleanups(frames) = {} /\ error.kind \in {"cancel", "exit"}
             /\ error = Error(error.kind, 0) /\ errors' = errors /\ stops' = Append(stops, error.kind)
          \/ /\ m + 1 = Depth /\ Top \in CleanupFrames /\ Top.actions = <<>>
             /\ error = Top.error /\ error.kind \in {"op", "cancel", "exit"}
             /\ errors' = errors /\ stops' = stops
  /\ UNCHANGED <<phase, parent, items, opening, releases>>

\* An interruption meets the outermost cleanup.
Interrupting ==
  /\ \E i \in Cleanups(frames), kind \in {"cancel", "exit"} :
       /\ \A j \in Cleanups(frames) : i <= j
       /\ frames' = [frames EXCEPT ![i] = Interrupted(frames[i], kind)]
       /\ stops' = Append(stops, kind)
  /\ aborting' = TRUE
  /\ UNCHANGED <<producing, opening, outcome, caught, errors, releases>>

Kinds ==
  \/ Produce \/ Open \/ Minor \/ Calling \/ Shutting \/ Ending \/ Consuming
  \/ Entering \/ Answering \/ Joining \/ Beginning \/ Reasoning \/ Scoping
  \/ Finishing \/ Passing \/ Failed \/ Interrupting \/ UNCHANGED vars

\* The running frame, the one below it and what the stack operations make of them.
LEMMA OnStack ==
  ASSUME ShapeInv, Running
  PROVE  \E n \in Nat \ {0} :
           /\ n = Depth /\ Top = frames[n] /\ Top \in Frame /\ DOMAIN frames = 1..n
           /\ n = 1 => Bottom(Top)
           /\ n > 1 => Caller = frames[n - 1] /\ Caller \in Frame /\ Above(Caller, Top)
           /\ \A i \in 1..n : frames[i] \in Frame
           /\ \A g \in Frame : Pushed(g) \in Seq(Frame) /\ Grown(frames, Pushed(g), n, Top, g)
           /\ \A f \in Frame : Replaced(f) \in Seq(Frame) /\ Rebased(frames, Replaced(f), n, f)
           /\ \A f, g \in Frame : /\ Replaced(f) \o <<g>> \in Seq(Frame)
                                  /\ Grown(frames, Replaced(f) \o <<g>>, n, f, g)
           /\ n > 1 =>
                /\ Below(frames) \in Seq(Frame)
                /\ Rebased(frames, Below(frames), n - 1, Caller)
                /\ \A f \in Frame : /\ Answered(f) \in Seq(Frame)
                                    /\ Rebased(frames, Answered(f), n - 1, f)
                /\ \A f, g \in Frame : /\ Answered(f) \o <<g>> \in Seq(Frame)
                                       /\ Grown(frames, Answered(f) \o <<g>>, n - 1, f, g)
  <1>1. frames \in Seq(Frame) /\ frames # <<>> /\ Stacked(frames)
    BY DEF ShapeInv, TypeInv, Running
  <1>2. PICK n \in Nat \ {0} :
           /\ n = Len(frames) /\ Top = frames[n] /\ Top \in Frame /\ DOMAIN frames = 1..n
           /\ \A g \in Frame : Pushed(g) \in Seq(Frame) /\ Grown(frames, Pushed(g), n, Top, g)
           /\ \A f \in Frame : Replaced(f) \in Seq(Frame) /\ Rebased(frames, Replaced(f), n, f)
           /\ \A f, g \in Frame : /\ Replaced(f) \o <<g>> \in Seq(Frame)
                                  /\ Grown(frames, Replaced(f) \o <<g>>, n, f, g)
           /\ n > 1 =>
                /\ Below(frames) \in Seq(Frame)
                /\ Rebased(frames, Below(frames), n - 1, frames[n - 1])
                /\ Caller = frames[n - 1] /\ Caller \in Frame
                /\ \A f \in Frame : /\ Answered(f) \in Seq(Frame)
                                    /\ Rebased(frames, Answered(f), n - 1, f)
                /\ \A f, g \in Frame : /\ Answered(f) \o <<g>> \in Seq(Frame)
                                       /\ Grown(frames, Answered(f) \o <<g>>, n - 1, f, g)
    BY <1>1, StackMoves
  <1>3. \A i \in 1..n : frames[i] \in Frame BY <1>1, <1>2, ElementOfSeq
  <1>4. n = 1 => Bottom(Top) BY <1>1, <1>2 DEF Stacked
  <1>5. n > 1 => Above(Caller, Top)
    <2>1. n > 1 => n \in 2..Len(frames) BY <1>2
    <2>2. QED BY <1>1, <1>2, <2>1 DEF Stacked
  <1>6. QED BY <1>2, <1>3, <1>4, <1>5 DEF Depth

LEMMA SameAlike ==
  ASSUME NEW h \in Frame
  PROVE  Alike(h, h)
  BY DEF Alike

\* A consumer at another stage.
Asks(task, from, at) == [task EXCEPT !.from = from, !.at = at]

LEMMA AtIs ==
  ASSUME NEW h \in TaskFrames, NEW at \in Stages, NEW from \in Scope, h.outer # 0,
         at \in {"acquire", "step", "exhausted"} => from = Demanded(h)
  PROVE  LET f == Asks(h, from, at)
         IN  /\ f \in TaskFrames /\ f.at = at /\ f.from = from /\ Alike(h, f)
             /\ f.owner = h.owner
  <1> DEFINE f == Asks(h, from, at)
  <1>1. /\ h \in [kind : {"task"}, owner : Scope, consumer : Consumers, flat : BOOLEAN,
                  outer : Scope, inner : Scope, from : Scope, owned : SUBSET Producer,
                  graph : SUBSET Producer, at : Stages]
        /\ h.owned \subseteq h.graph /\ {h.outer, h.inner} \subseteq h.graph \cup {0}
    BY DEF TaskFrames
  <1>2. /\ f \in [kind : {"task"}, owner : Scope, consumer : Consumers, flat : BOOLEAN,
                  outer : Scope, inner : Scope, from : Scope, owned : SUBSET Producer,
                  graph : SUBSET Producer, at : Stages]
        /\ f.owned = h.owned /\ f.outer = h.outer /\ f.inner = h.inner /\ f.graph = h.graph
        /\ f.at = at /\ f.from = from /\ f.owner = h.owner /\ f.consumer = h.consumer
        /\ f.kind = "task" /\ h.kind = "task"
    BY <1>1 DEF Asks
  <1> HIDE DEF f
  <1>3. Demanded(f) = Demanded(h) BY <1>2 DEF Demanded
  <1>4. f \in TaskFrames BY <1>1, <1>2, <1>3 DEF TaskFrames
  <1>5. Alike(h, f) BY <1>2 DEF Alike
  <1>6. QED BY <1>2, <1>4, <1>5 DEF f

LEMMA StageIs ==
  ASSUME NEW h \in TaskFrames, h.outer # 0,
         NEW at \in {"pull", "transform", "consume", "fold", "settle"}
  PROVE  At(h, at) \in TaskFrames /\ At(h, at).at = at /\ Alike(h, At(h, at))
  <1>1. /\ h \in [kind : {"task"}, owner : Scope, consumer : Consumers, flat : BOOLEAN,
                  outer : Scope, inner : Scope, from : Scope, owned : SUBSET Producer,
                  graph : SUBSET Producer, at : Stages]
        /\ h.owned \subseteq h.graph /\ {h.outer, h.inner} \subseteq h.graph \cup {0}
    BY DEF TaskFrames
  <1> DEFINE f == [h EXCEPT !.at = at]
  <1>2. /\ f \in [kind : {"task"}, owner : Scope, consumer : Consumers, flat : BOOLEAN,
                  outer : Scope, inner : Scope, from : Scope, owned : SUBSET Producer,
                  graph : SUBSET Producer, at : Stages]
        /\ f.owned = h.owned /\ f.outer = h.outer /\ f.inner = h.inner /\ f.graph = h.graph
        /\ f.at = at /\ f.owner = h.owner /\ f.consumer = h.consumer
        /\ f.kind = "task" /\ h.kind = "task"
    BY <1>1 DEF Stages
  <1>3. At(h, at) = f BY DEF At
  <1> HIDE DEF f
  <1>4. f \in TaskFrames BY <1>1, <1>2 DEF TaskFrames
  <1>5. Alike(h, f) BY <1>2 DEF Alike
  <1>6. QED BY <1>2, <1>3, <1>4, <1>5

\* Which frames a step takes away and puts there.
LEMMA Minors ==
  ASSUME ShapeInv, NEW m \in Nat, NEW f \in Frame, Still,
         frames' \in Seq(Frame), Rebased(frames, frames', m, f), Alike(frames[m], f),
         Depth <= m + 1,
         m + 1 = Depth => (Top.kind = "cleanup" =>
           Top.after # "unwind" /\ Top.actions = <<>> /\ Top.error.kind = "none")
  PROVE  Minor
  <1>1. Len(frames) \in Nat BY LenProperties DEF ShapeInv, TypeInv
  <1>2. ASSUME NEW i \in m + 1..Depth
        PROVE  frames[i].kind = "cleanup" =>
                 frames[i].after # "unwind" /\ frames[i].actions = <<>> /\ frames[i].error.kind = "none"
    <2>1. m + 1 = Depth /\ i = Depth BY <1>1, <1>2 DEF Depth
    <2>2. frames[i] = Top BY <2>1 DEF Top, Last, Depth
    <2>3. QED BY <2>1, <2>2
  <1>3. QED BY <1>2 DEF Minor

LEMMA ReturnsAreMinor ==
  ASSUME ShapeInv, AttemptReturns \/ Done \/ Released
  PROVE  Minor /\ frames' \in Seq(Frame)
  <1>1. Running /\ Still /\ frames' = Below(frames) /\ Top.kind \in {"body", "task"}
        /\ ~Bottom(Top)
    BY DEF AttemptReturns, Done, Released, Coding, Stage, Answers, OnTop, Still, Bottom
  <1>2. PICK n \in Nat \ {0} :
           /\ n = Depth /\ (n = 1 => Bottom(Top))
           /\ n > 1 => /\ Caller = frames[n - 1] /\ Caller \in Frame
                       /\ Below(frames) \in Seq(Frame)
                       /\ Rebased(frames, Below(frames), n - 1, Caller)
    BY <1>1, OnStack
  <1>3. n > 1 BY <1>1, <1>2
  <1>4. Alike(frames[n - 1], Caller) BY <1>2, <1>3, SameAlike
  <1>5. QED BY <1>1, <1>2, <1>3, <1>4, Minors

LEMMA StatementIsMinor ==
  ASSUME ShapeInv, StatementEnds
  PROVE  Minor /\ frames' \in Seq(Frame)
  <1> DEFINE f == [Top EXCEPT !.job = "ended"]
  <1>1. Running /\ Still /\ frames' = Replaced(f) /\ Top.kind = "body" /\ Top.job = "entry"
    BY DEF StatementEnds, Coding, OnTop, Still
  <1>2. PICK n \in Nat \ {0} :
           /\ n = Depth /\ Top = frames[n] /\ Top \in Frame
           /\ \A h \in Frame : Replaced(h) \in Seq(Frame) /\ Rebased(frames, Replaced(h), n, h)
    BY <1>1, OnStack
  <1>3. Top \in Bodies BY <1>1, <1>2, FrameKinds
  <1>4. f \in Bodies /\ Alike(Top, f) BY <1>1, <1>3 DEF Bodies, Alike, Callbacks, Jobs
  <1>5. f \in Frame BY <1>4, KindFrames
  <1> HIDE DEF f
  <1>6. QED BY <1>1, <1>2, <1>4, <1>5, Minors

\* A consumer that a callback of its own answers.
LEMMA AnsweredTask ==
  ASSUME ShapeInv, NEW job \in {"acquire", "step", "transform", "fold"}, Answers(job)
  PROVE  \E n \in Nat \ {0, 1} :
           /\ n = Depth /\ Top = frames[n] /\ Caller = frames[n - 1]
           /\ Running /\ Top \in Bodies /\ Top.job = job
           /\ Caller \in TaskFrames /\ Caller.at = job /\ Caller.outer # 0
           /\ job \in {"acquire", "step"} =>
                Top.of = Caller.from /\ Top.of \in Caller.graph /\ Top.of \in Producer
           /\ \A f \in Frame : /\ Answered(f) \in Seq(Frame)
                               /\ Rebased(frames, Answered(f), n - 1, f)
           /\ \A f, g \in Frame : /\ Answered(f) \o <<g>> \in Seq(Frame)
                                  /\ Grown(frames, Answered(f) \o <<g>>, n - 1, f, g)
  <1>1. Running /\ Top.kind = "body" /\ Top.job = job /\ ~Bottom(Top)
    BY DEF Answers, Coding, OnTop, Bottom
  <1>2. PICK n \in Nat \ {0} :
           /\ n = Depth /\ Top = frames[n] /\ Top \in Frame /\ (n = 1 => Bottom(Top))
           /\ n > 1 =>
                /\ Caller = frames[n - 1] /\ Caller \in Frame /\ Above(Caller, Top)
                /\ \A f \in Frame : /\ Answered(f) \in Seq(Frame)
                                    /\ Rebased(frames, Answered(f), n - 1, f)
                /\ \A f, g \in Frame : /\ Answered(f) \o <<g>> \in Seq(Frame)
                                       /\ Grown(frames, Answered(f) \o <<g>>, n - 1, f, g)
    BY <1>1, OnStack
  <1>3. n > 1 BY <1>1, <1>2
  <1>4. Caller.kind = "task" /\ Caller.at = job /\ (job \in {"acquire", "step"} => Top.of = Caller.from)
    BY <1>1, <1>2, <1>3 DEF Above
  <1>5. Caller \in TaskFrames /\ Top \in Bodies BY <1>1, <1>2, <1>3, <1>4, FrameKinds
  <1>6. /\ Caller.at \notin {"settle", "done"} => Caller.outer # 0
        /\ Caller.at \in {"acquire", "step"} => Caller.from \in Caller.graph /\ Caller.from \in Producer
    BY <1>5, TaskFields
  <1>7. n \in Nat \ {0, 1} BY <1>3
  <1>8. QED BY <1>1, <1>2, <1>3, <1>4, <1>5, <1>6, <1>7

LEMMA TopTask ==
  ASSUME ShapeInv, NEW at \in Stages, Stage(at)
  PROVE  \E n \in Nat \ {0, 1} :
           /\ n = Depth /\ Top = frames[n] /\ Running
           /\ Top \in TaskFrames /\ Top.at = at
           /\ at \notin {"settle", "done"} => Top.outer # 0
           /\ \A f \in Frame : Replaced(f) \in Seq(Frame) /\ Rebased(frames, Replaced(f), n, f)
           /\ \A f, g \in Frame : /\ Replaced(f) \o <<g>> \in Seq(Frame)
                                  /\ Grown(frames, Replaced(f) \o <<g>>, n, f, g)
  <1>1. Running /\ Top.kind = "task" /\ Top.at = at /\ ~Bottom(Top)
    BY DEF Stage, OnTop, Bottom
  <1>2. PICK n \in Nat \ {0} :
           /\ n = Depth /\ Top = frames[n] /\ Top \in Frame /\ (n = 1 => Bottom(Top))
           /\ \A f \in Frame : Replaced(f) \in Seq(Frame) /\ Rebased(frames, Replaced(f), n, f)
           /\ \A f, g \in Frame : /\ Replaced(f) \o <<g>> \in Seq(Frame)
                                  /\ Grown(frames, Replaced(f) \o <<g>>, n, f, g)
    BY <1>1, OnStack
  <1>3. Top \in TaskFrames BY <1>1, <1>2, FrameKinds
  <1>4. at \notin {"settle", "done"} => Top.outer # 0 BY <1>1, <1>3, TaskFields
  <1>5. n \in Nat \ {0, 1} BY <1>1, <1>2
  <1>6. QED BY <1>1, <1>2, <1>3, <1>4, <1>5

\* A step that only moves the consumer on top to another stage.
LEMMA MovesAreMinor ==
  ASSUME ShapeInv, Still, Running, Top \in TaskFrames, NEW f \in TaskFrames, Alike(Top, f),
         frames' = Replaced(f)
  PROVE  Minor /\ frames' \in Seq(Frame)
  <1>1. PICK n \in Nat \ {0} :
           /\ n = Depth /\ Top = frames[n]
           /\ \A h \in Frame : Replaced(h) \in Seq(Frame) /\ Rebased(frames, Replaced(h), n, h)
    BY OnStack
  <1>2. f \in Frame BY KindFrames
  <1>3. QED BY <1>1, <1>2, Minors

LEMMA AnswersAreMinor ==
  ASSUME ShapeInv, Still, NEW job \in {"transform", "fold"}, Answers(job),
         NEW f \in TaskFrames, Alike(Caller, f), frames' = Answered(f)
  PROVE  Minor /\ frames' \in Seq(Frame)
  <1>1. PICK n \in Nat \ {0, 1} :
           /\ n = Depth /\ Top = frames[n] /\ Caller = frames[n - 1] /\ Top \in Bodies
           /\ \A h \in Frame : /\ Answered(h) \in Seq(Frame)
                               /\ Rebased(frames, Answered(h), n - 1, h)
    BY AnsweredTask
  <1>2. f \in Frame BY KindFrames
  <1>3. n - 1 \in Nat /\ Depth <= n - 1 + 1 /\ Top.kind # "cleanup" BY <1>1, BodyFields
  <1>4. QED BY <1>1, <1>2, <1>3, Minors

LEMMA ListedIsMinor ==
  ASSUME ShapeInv, Listed
  PROVE  Minor /\ frames' \in Seq(Frame)
  <1>1. Still /\ Answers("transform") BY DEF Listed, Still
  <1>2. PICK next \in {"pull", "consume"} : frames' = Answered(At(Caller, next)) BY DEF Listed
  <1>3. Caller \in TaskFrames /\ Caller.outer # 0 BY <1>1, AnsweredTask
  <1>4. At(Caller, next) \in TaskFrames /\ Alike(Caller, At(Caller, next)) BY <1>3, StageIs
  <1>5. QED BY <1>1, <1>2, <1>4, AnswersAreMinor

LEMMA ContinuedIsMinor ==
  ASSUME ShapeInv, Continued
  PROVE  Minor /\ frames' \in Seq(Frame)
  <1>1. Still /\ Answers("fold") /\ frames' = Answered(At(Caller, "pull"))
    BY DEF Continued, Still
  <1>2. Caller \in TaskFrames /\ Caller.outer # 0 BY <1>1, AnsweredTask
  <1>3. At(Caller, "pull") \in TaskFrames /\ Alike(Caller, At(Caller, "pull")) BY <1>2, StageIs
  <1>4. QED BY <1>1, <1>3, AnswersAreMinor

\* A consumer that is through with its source.
LEMMA SettledIs ==
  ASSUME NEW h \in TaskFrames
  PROVE  /\ [h EXCEPT !.at = "settle", !.outer = 0, !.inner = 0] \in TaskFrames
         /\ Alike(h, [h EXCEPT !.at = "settle", !.outer = 0, !.inner = 0])
         /\ [h EXCEPT !.at = "done", !.owned = {}] \in TaskFrames
         /\ Alike(h, [h EXCEPT !.at = "done", !.owned = {}])
         /\ [h EXCEPT !.at = "done", !.owned = {}].at = "done"
         /\ h.outer # 0 => /\ [h EXCEPT !.at = "pull", !.inner = 0] \in TaskFrames
                           /\ Alike(h, [h EXCEPT !.at = "pull", !.inner = 0])
                           /\ [h EXCEPT !.at = "pull", !.inner = 0].at = "pull"
  <1>1. /\ h \in [kind : {"task"}, owner : Scope, consumer : Consumers, flat : BOOLEAN,
                  outer : Scope, inner : Scope, from : Scope, owned : SUBSET Producer,
                  graph : SUBSET Producer, at : Stages]
        /\ h.owned \subseteq h.graph /\ {h.outer, h.inner} \subseteq h.graph \cup {0}
    BY DEF TaskFrames
  <1>2. 0 \in Scope BY Bounds DEF Scope
  <1> DEFINE a == [h EXCEPT !.at = "settle", !.outer = 0, !.inner = 0]
             b == [h EXCEPT !.at = "done", !.owned = {}]
             c == [h EXCEPT !.at = "pull", !.inner = 0]
  <1>3. a \in TaskFrames /\ Alike(h, a) BY <1>1, <1>2 DEF TaskFrames, Stages, Alike
  <1>4. b \in TaskFrames /\ Alike(h, b) /\ b.at = "done" BY <1>1 DEF TaskFrames, Stages, Alike
  <1>5. h.outer # 0 => c \in TaskFrames /\ Alike(h, c) /\ c.at = "pull"
    BY <1>1, <1>2 DEF TaskFrames, Stages, Alike
  <1>6. QED BY <1>3, <1>4, <1>5

LEMMA StoppedIsMinor ==
  ASSUME ShapeInv, Stopped
  PROVE  Minor /\ frames' \in Seq(Frame)
  <1> DEFINE f == [Caller EXCEPT !.at = "settle", !.outer = 0, !.inner = 0]
  <1>1. Still /\ Answers("fold") /\ frames' = Answered(f) BY DEF Stopped, Still
  <1>2. Caller \in TaskFrames BY <1>1, AnsweredTask
  <1>3. f \in TaskFrames /\ Alike(Caller, f) BY <1>2, SettledIs
  <1> HIDE DEF f
  <1>4. QED BY <1>1, <1>3, AnswersAreMinor

LEMMA OrderLists ==
  ASSUME NEW S, S \subseteq Producer, NEW place \in [Producer -> Int]
  PROVE  Lists(InOrder(S, place), S)
  <1>1. /\ InOrder(S, place) \in Seq(S)
        /\ \A p \in S : \E i \in 1..Len(InOrder(S, place)) : InOrder(S, place)[i] = p
    BY InOrderLists
  <1>2. QED BY <1>1 DEF Lists

LEMMA CleanupOfOne ==
  ASSUME NEW p \in Producer, NEW reason \in Reason
  PROVE  LET g == Cleanup(<<p>>, {}, reason, "resume", None)
         IN  /\ g \in CleanupFrames /\ g \in Frame /\ g.after = "resume" /\ g.error = None
             /\ Closes(g.actions, {p}, {})
  <1>1. Lists(<<p>>, {p}) BY DEF Lists
  <1>2. {} \in Keys /\ None \in Causes
    BY ErrorIs, Bounds DEF Keys, Causes
  <1>3. "resume" \in {"resume", "boundary", "unwind"} OBVIOUS
  <1> DEFINE g == Cleanup(<<p>>, {}, reason, "resume", None)
  <1>4. /\ g \in CleanupFrames /\ g.after = "resume" /\ g.error = None
        /\ Closes(g.actions, {p}, {})
    BY <1>1, <1>2, <1>3, CleanupIs
  <1>5. QED BY <1>4, KindFrames

LEMMA ShutsDown ==
  ASSUME ShapeInv, Still, NEW f \in TaskFrames, NEW g \in CleanupFrames, Top \in TaskFrames,
         Grown(frames, frames', Depth, f, g), Alike(Top, f),
         f.at \in {"pull", "exhausted", "done"},
         g.after = "resume", g.error = None,
         NEW S, S \subseteq Top.graph, Closes(g.actions, S, {})
  PROVE  Shutting
  <1>1. S \subseteq Producer /\ Top.kind = "task" BY TaskFields
  <1>2. f \in Frame BY KindFrames
  <1>3. UNCHANGED <<phase, parent, items, opening, aborting, caught, outcome, errors, stops,
                    releases>> /\ token' = token
    BY DEF Still, producing, opening, ending
  <1>4. S \in SUBSET Producer /\ {} \in SUBSET live BY <1>1
  <1>5. \E h \in Frame, c \in CleanupFrames, C \in SUBSET Producer, keys \in SUBSET live :
          /\ Grown(frames, frames', Depth, h, c) /\ Alike(Top, h) /\ Above(h, c)
          /\ c.after # "unwind" /\ c.error = None
          /\ Closes(c.actions, C, keys)
          /\ \/ Top.kind = "task" /\ C \subseteq Top.graph
             \/ Top.kind = "body" /\ Top.job = "ended" /\ \A p \in C : Active(p)
    <2>1. Above(f, g)
      <3>1. f.kind = "task" /\ g.kind = "cleanup" BY TaskFields, CleanupFields
      <3>2. QED BY <3>1 DEF Above
    <2>2. QED BY <1>1, <1>2, <1>4, <2>1
  <1>6. QED BY <1>3, <1>5 DEF Shutting

LEMMA SourceEndsIs ==
  ASSUME ShapeInv, SourceEnds
  PROVE  (Minor \/ Shutting) /\ frames' \in Seq(Frame)
  <1>1. Stage("exhausted") /\ "exhausted" \in Stages /\ Still
    BY DEF SourceEnds, Stages, Still
  <1>2. PICK n \in Nat \ {0, 1} :
           /\ n = Depth /\ Top = frames[n] /\ Running
           /\ Top \in TaskFrames /\ Top.at = "exhausted" /\ Top.outer # 0
           /\ \A h, g \in Frame : /\ Replaced(h) \o <<g>> \in Seq(Frame)
                                  /\ Grown(frames, Replaced(h) \o <<g>>, n, h, g)
    BY <1>1, TopTask
  <1>3. CASE Top.from = Top.inner
    <2> DEFINE f == [Top EXCEPT !.at = "pull", !.inner = 0]
               p == Top.inner
               g == Cleanup(<<p>>, {}, "cutoff", "resume", None)
    <2>1. frames' = Replaced(f) \o <<g>> BY <1>3 DEF SourceEnds
    <2>2. f \in TaskFrames /\ Alike(Top, f) /\ f.at = "pull" BY <1>2, SettledIs
    <2>3. p \in Top.graph /\ p \in Producer BY <1>2, <1>3, TaskFields
    <2>4. "cutoff" \in Reason BY DEF Reason
    <2>5. /\ g \in CleanupFrames /\ g \in Frame /\ g.after = "resume" /\ g.error = None
          /\ Closes(g.actions, {p}, {})
      BY <2>3, <2>4, CleanupOfOne
    <2>6. f \in Frame BY <2>2, KindFrames
    <2> HIDE DEF f, g, p
    <2>7. frames' \in Seq(Frame) /\ Grown(frames, frames', Depth, f, g)
      BY <1>2, <2>1, <2>5, <2>6
    <2>8. {p} \subseteq Top.graph BY <2>3
    <2>9. Shutting BY <1>1, <1>2, <2>2, <2>5, <2>7, <2>8, ShutsDown
    <2>10. QED BY <2>7, <2>9
  <1>4. CASE Top.from # Top.inner
    <2>1. frames' = Replaced(At(Top, "settle")) BY <1>4 DEF SourceEnds
    <2>2. At(Top, "settle") \in TaskFrames /\ Alike(Top, At(Top, "settle")) BY <1>2, StageIs
    <2>3. QED BY <1>1, <1>2, <2>1, <2>2, MovesAreMinor
  <1>5. QED BY <1>3, <1>4

LEMMA SettleIs ==
  ASSUME ShapeInv, Settle
  PROVE  Shutting /\ frames' \in Seq(Frame)
  <1> DEFINE f == [Top EXCEPT !.at = "done", !.owned = {}]
             why == IF Top.consumer = "close" THEN "closed" ELSE "cutoff"
             list == Harvested(Top)
             S == Owned(Top)
             place == Reached(Top)
             g == Cleanup(list, {}, why, "resume", None)
  <1>1. Stage("settle") /\ "settle" \in Stages /\ Still /\ frames' = Replaced(f) \o <<g>>
    BY DEF Settle, Stages, Still
  <1>2. PICK n \in Nat \ {0, 1} :
           /\ n = Depth /\ Top = frames[n] /\ Top \in TaskFrames
           /\ \A h, c \in Frame : /\ Replaced(h) \o <<c>> \in Seq(Frame)
                                  /\ Grown(frames, Replaced(h) \o <<c>>, n, h, c)
    BY <1>1, TopTask
  <1>3. S \subseteq Top.graph /\ Top.graph \subseteq Producer /\ place \in [Producer -> 0..1]
    BY <1>2, TaskFields
  <1>4. f \in TaskFrames /\ Alike(Top, f) /\ f.at = "done" BY <1>2, SettledIs
  <1>5. f \in Frame BY <1>4, KindFrames
  <1>6. why \in Reason BY DEF Reason
  <1>7. list = InOrder(S, place) BY DEF Harvested
  <1> HIDE DEF f, why, list, S, place
  <1>8. S \subseteq Producer /\ place \in [Producer -> Int] BY <1>3
  <1>9. Lists(list, S) BY <1>7, <1>8, OrderLists
  <1>10. {} \in Keys /\ None \in Causes BY ErrorIs, Bounds DEF Keys, Causes
  <1>11. "resume" \in {"resume", "boundary", "unwind"} OBVIOUS
  <1>12. /\ g \in CleanupFrames /\ g.after = "resume" /\ g.error = None
         /\ Closes(g.actions, S, {})
    BY <1>6, <1>9, <1>10, <1>11, CleanupIs
  <1>13. g \in Frame BY <1>12, KindFrames
  <1> HIDE DEF g
  <1>14. frames' \in Seq(Frame) /\ Grown(frames, frames', Depth, f, g)
    BY <1>1, <1>2, <1>5, <1>13
  <1>15. Shutting BY <1>1, <1>2, <1>3, <1>4, <1>12, <1>14, ShutsDown
  <1>16. QED BY <1>14, <1>15

LEMMA EntersIs ==
  ASSUME TypeInv, NEW job \in Jobs, NEW of \in Scope, NEW owner \in Scope,
         job \in Callbacks => of # 0 /\ owner = of
  PROVE  LET g == Body(job, of, owner)
         IN  /\ g \in Bodies /\ g \in Frame /\ Enters(g, {job}, owner) /\ g.of = of
             /\ g.job = job
  <1> DEFINE g == Body(job, of, owner)
  <1>1. /\ g \in Bodies /\ g.kind = "body"
        /\ g.job = job /\ g.of = of /\ g.owner = owner
        /\ g.made = Cardinality({p \in Producer : phase[p] # "none"})
    BY BodyIs
  <1> HIDE DEF g
  <1>2. QED BY <1>1, KindFrames DEF Enters, Constructed, g

LEMMA ConsumesIs ==
  ASSUME ShapeInv, Consumes
  PROVE  (Minor \/ Calling) /\ frames' \in Seq(Frame)
  <1>1. Stage("consume") /\ "consume" \in Stages /\ Still
    BY DEF Consumes, Stages, Still
  <1>2. PICK n \in Nat \ {0, 1} :
           /\ n = Depth /\ Top = frames[n] /\ Running
           /\ Top \in TaskFrames /\ Top.at = "consume" /\ Top.outer # 0
           /\ \A h, g \in Frame : /\ Replaced(h) \o <<g>> \in Seq(Frame)
                                  /\ Grown(frames, Replaced(h) \o <<g>>, n, h, g)
    BY <1>1, TopTask
  <1>3. \/ frames' = Replaced(At(Top, "pull"))
        \/ frames' = Replaced(At(Top, "settle"))
        \/ frames' = Replaced(At(Top, "fold")) \o <<Body("fold", 0, Top.owner)>>
    BY DEF Consumes
  <1>4. \A at \in {"pull", "settle", "fold"} :
          At(Top, at) \in TaskFrames /\ At(Top, at).at = at /\ Alike(Top, At(Top, at))
    BY <1>2, StageIs
  <1>5. CASE frames' = Replaced(At(Top, "pull"))
    BY <1>1, <1>2, <1>4, <1>5, MovesAreMinor
  <1>6. CASE frames' = Replaced(At(Top, "settle"))
    BY <1>1, <1>2, <1>4, <1>6, MovesAreMinor
  <1>7. CASE frames' = Replaced(At(Top, "fold")) \o <<Body("fold", 0, Top.owner)>>
    <2> DEFINE g == Body("fold", 0, Top.owner)
               f == At(Top, "fold")
    <2>1. Top.owner \in Scope /\ 0 \in Scope /\ "fold" \in Jobs /\ "fold" \notin Callbacks
          /\ Top.kind = "task"
      BY <1>2, TaskFields, Bounds DEF Scope, Jobs, Callbacks
    <2>2. g \in Bodies /\ g \in Frame /\ Enters(g, {"fold"}, Top.owner) /\ g.job = "fold"
      BY <2>1, EntersIs DEF ShapeInv
    <2>3. f \in TaskFrames /\ f \in Frame /\ f.at = "fold" /\ Alike(Top, f)
      BY <1>4, KindFrames
    <2> HIDE DEF f, g
    <2>4. frames' \in Seq(Frame) /\ Grown(frames, frames', Depth, f, g)
      BY <1>2, <1>7, <2>2, <2>3 DEF f, g
    <2>5. Enters(g, {"attempt", "fold"}, Top.owner) BY <2>2 DEF Enters
    <2>6. Above(f, g)
      <3>1. f.kind = "task" /\ f.owner = Top.owner BY <2>1, <2>3, TaskFields DEF Alike
      <3>2. g.kind = "body" /\ g.owner = Top.owner BY <2>2, BodyFields DEF Enters
      <3>3. QED BY <2>2, <2>3, <3>1, <3>2 DEF Above
    <2>7. Calling BY <1>1, <2>1, <2>2, <2>3, <2>4, <2>5, <2>6 DEF Calling
    <2>8. QED BY <2>4, <2>7
  <1>8. QED BY <1>3, <1>5, <1>6, <1>7

LEMMA AttemptIs ==
  ASSUME ShapeInv, Attempt
  PROVE  Calling /\ frames' \in Seq(Frame)
  <1> DEFINE g == Body("attempt", 0, Top.owner)
  <1>1. Running /\ Top.kind = "body" /\ Top.job # "ended" /\ Still /\ frames' = Pushed(g)
    BY DEF Attempt, Coding, OnTop, Still
  <1>2. PICK n \in Nat \ {0} :
           /\ n = Depth /\ Top = frames[n] /\ Top \in Frame
           /\ \A h \in Frame : Pushed(h) \in Seq(Frame) /\ Grown(frames, Pushed(h), n, Top, h)
    BY <1>1, OnStack
  <1>3. Top.owner \in Scope /\ 0 \in Scope /\ "attempt" \in Jobs /\ "attempt" \notin Callbacks
    BY <1>1, <1>2, OwnerFields, Bounds DEF Scope, Jobs, Callbacks
  <1>4. g \in Bodies /\ g \in Frame /\ Enters(g, {"attempt"}, Top.owner) /\ g.job = "attempt"
    BY <1>3, EntersIs DEF ShapeInv
  <1> HIDE DEF g
  <1>5. frames' \in Seq(Frame) /\ Grown(frames, frames', Depth, Top, g) BY <1>1, <1>2, <1>4
  <1>6. Enters(g, {"attempt", "fold"}, Top.owner) BY <1>4 DEF Enters
  <1>7. Alike(Top, Top) BY <1>2, SameAlike
  <1>8. Above(Top, g)
    <2>1. g.kind = "body" /\ g.owner = Top.owner BY <1>4, BodyFields DEF Enters
    <2>2. QED BY <1>1, <1>4, <2>1 DEF Above
  <1>9. Calling BY <1>1, <1>2, <1>4, <1>5, <1>6, <1>7, <1>8 DEF Calling
  <1>10. QED BY <1>5, <1>9

LEMMA ConsumeIs ==
  ASSUME ShapeInv, Consume
  PROVE  Consuming /\ frames' \in Seq(Frame)
  <1>1. Coding /\ Running /\ Top.kind = "body"
        /\ UNCHANGED <<phase, parent, items, opening, ending, errors, stops, releases>>
    BY DEF Consume, Coding, OnTop
  <1>2. PICK p \in Producer, consumer \in Consumers, flat \in Flat :
          /\ token[p] /\ parent[p] = Top.owner
          /\ frames' = Pushed(Task(p, flat, consumer, Top.owner))
          /\ token' = [token EXCEPT ![p] = FALSE]
    BY DEF Consume
  <1>3. PICK n \in Nat \ {0} :
           /\ n = Depth /\ Top \in Frame
           /\ \A h \in Frame : Pushed(h) \in Seq(Frame) /\ Grown(frames, Pushed(h), n, Top, h)
    BY <1>1, OnStack
  <1>4. Top.owner \in Scope BY <1>1, <1>3, OwnerFields
  <1> DEFINE g == Task(p, flat, consumer, Top.owner)
  <1>5. g \in TaskFrames /\ g.owner = Top.owner /\ g.graph = {p} BY <1>4, TaskIs
  <1>6. g \in Frame BY <1>5, KindFrames
  <1>7. frames' = Pushed(g) BY <1>2
  <1> HIDE DEF g
  <1>8. frames' \in Seq(Frame) /\ Grown(frames, frames', Depth, Top, g)
    BY <1>3, <1>6, <1>7
  <1>9. Consuming BY <1>1, <1>2, <1>5, <1>8 DEF Consuming
  <1>10. QED BY <1>8, <1>9

LEMMA BoundaryIs ==
  ASSUME ShapeInv, Boundary
  PROVE  (Shutting \/ Ending) /\ frames' \in Seq(Frame)
  <1> DEFINE left == {p \in Producer : Active(p)}
             list == AsMade(left)
             g == Cleanup(list, {}, "closed", "boundary", None)
             h == Cleanup(<<>>, live, "closed", "boundary", None)
  <1>1. Running /\ Top.kind = "body" /\ Top.job = "ended"
        /\ UNCHANGED <<phase, parent, items, opening, aborting, caught, errors, stops, releases>>
    BY DEF Boundary, OnTop
  <1>2. PICK n \in Nat \ {0} :
           /\ n = Depth /\ Top = frames[n] /\ Top \in Frame
           /\ \A c \in Frame : Pushed(c) \in Seq(Frame) /\ Grown(frames, Pushed(c), n, Top, c)
    BY <1>1, OnStack
  <1>3. \/ frames' = Pushed(g) /\ UNCHANGED <<token, outcome>>
        \/ frames' = Pushed(h) /\ token' = [p \in Producer |-> FALSE] /\ UNCHANGED outcome
        \/ /\ left = {} /\ live = {} /\ frames' = <<>>
           /\ token' = [p \in Producer |-> FALSE]
           /\ outcome' = [None EXCEPT !.kind = "ok"]
    BY DEF Boundary
  <1>4. Alike(Top, Top) BY <1>2, SameAlike
  <1>5. None \in Causes /\ "closed" \in Reason /\ "boundary" \in {"resume", "boundary", "unwind"}
    BY ErrorIs, Bounds DEF Causes, Reason
  <1>6. live \in Keys /\ {} \in Keys
    <2>1. Len(resources) \in Nat BY LenProperties DEF ShapeInv, TypeInv, VarInv
    <2>2. QED BY <2>1, Bounds DEF ShapeInv, TypeInv, VarInv, Keys
  <1>7. left \subseteq Producer /\ [p \in Producer |-> 0] \in [Producer -> Int] OBVIOUS
  <1>8. list = InOrder(left, [p \in Producer |-> 0]) BY DEF AsMade
  <1> HIDE DEF list, left
  <1>9. Lists(list, left) BY <1>7, <1>8, OrderLists
  <1>10. Lists(<<>>, {}) BY DEF Lists
  <1>11. /\ g \in CleanupFrames /\ g.after = "boundary" /\ g.error = None
         /\ Closes(g.actions, left, {})
    BY <1>5, <1>6, <1>9, CleanupIs
  <1>12. /\ h \in CleanupFrames /\ h.after = "boundary" /\ h.error = None
         /\ Closes(h.actions, {}, live)
    BY <1>5, <1>6, <1>10, CleanupIs
  <1> HIDE DEF g, h
  <1>13. CASE frames' = Pushed(g) /\ UNCHANGED <<token, outcome>>
    <2>1. frames' \in Seq(Frame) /\ Grown(frames, frames', Depth, Top, g)
      BY <1>2, <1>11, <1>13, KindFrames
    <2>2. left \in SUBSET Producer /\ {} \in SUBSET live BY <1>7
    <2>3. Above(Top, g)
      <3>1. g.kind = "cleanup" BY <1>11, CleanupFields
      <3>2. QED BY <1>1, <1>11, <3>1 DEF Above
    <2>4. \A p \in left : Active(p) BY DEF left
    <2>5. Shutting BY <1>1, <1>2, <1>4, <1>11, <1>13, <2>1, <2>2, <2>3, <2>4 DEF Shutting
    <2>6. QED BY <2>1, <2>5
  <1>14. CASE frames' = Pushed(h) /\ token' = [p \in Producer |-> FALSE] /\ UNCHANGED outcome
    <2>1. frames' \in Seq(Frame) /\ Grown(frames, frames', Depth, Top, h)
      BY <1>2, <1>12, <1>14, KindFrames
    <2>2. {} \in SUBSET Producer /\ live \in SUBSET live OBVIOUS
    <2>3. \A p \in Producer : token'[p] => token[p] BY <1>14
    <2>4. Above(Top, h)
      <3>1. h.kind = "cleanup" BY <1>12, CleanupFields
      <3>2. QED BY <1>1, <1>12, <3>1 DEF Above
    <2>5. Shutting BY <1>1, <1>2, <1>4, <1>12, <1>14, <2>1, <2>2, <2>3, <2>4 DEF Shutting
    <2>6. QED BY <2>1, <2>5
  <1>15. CASE /\ left = {} /\ live = {} /\ frames' = <<>>
              /\ token' = [p \in Producer |-> FALSE]
              /\ outcome' = [None EXCEPT !.kind = "ok"]
    <2>1. \A p \in Producer : ~Active(p) BY <1>15 DEF left
    <2>2. outcome' \in Errors BY <1>15, ErrorIs, Bounds
    <2>3. Ending BY <1>1, <1>15, <2>1, <2>2 DEF Ending
    <2>4. frames' \in Seq(Frame) BY <1>15, EmptySeq
    <2>5. QED BY <2>3, <2>4
  <1>16. QED BY <1>3, <1>13, <1>14, <1>15

LEMMA PullIs ==
  ASSUME ShapeInv, Pull
  PROVE  (Minor \/ Entering) /\ frames' \in Seq(Frame)
  <1> DEFINE p == Demanded(Top)
             f(at) == [Top EXCEPT !.from = p, !.at = at]
             g(job) == Body(job, p, p)
  <1>1. Stage("pull") /\ "pull" \in Stages
        /\ UNCHANGED <<parent, token, items, opening, ending, errors, stops, releases>>
    BY DEF Pull, Stages
  <1>2. PICK n \in Nat \ {0, 1} :
           /\ n = Depth /\ Top = frames[n] /\ Running
           /\ Top \in TaskFrames /\ Top.at = "pull" /\ Top.outer # 0
           /\ \A h, c \in Frame : /\ Replaced(h) \o <<c>> \in Seq(Frame)
                                  /\ Grown(frames, Replaced(h) \o <<c>>, n, h, c)
    BY <1>1, TopTask
  <1>3. p \in Top.graph /\ p \in Producer /\ p \in Scope /\ p # 0
    BY <1>2, TaskFields, Bounds DEF Producer, Scope
  <1>4. \A at : At([Top EXCEPT !.from = p], at) = f(at) BY DEF At
  <1>5. \/ \E job \in {"acquire", "step"} :
             /\ frames' = Replaced(f(job)) \o <<g(job)>>
             /\ phase[p] = IF job = "acquire" THEN "new" ELSE "ready"
             /\ phase' = [phase EXCEPT ![p] = IF job = "acquire" THEN "acquiring" ELSE "stepping"]
        \/ frames' = Replaced(f("exhausted")) /\ phase' = phase
    BY <1>4 DEF Pull, Demanded
  <1>6. \A at \in {"acquire", "step", "exhausted"} :
          f(at) \in TaskFrames /\ f(at).at = at /\ f(at).from = p /\ Alike(Top, f(at))
    <2> SUFFICES ASSUME NEW at \in {"acquire", "step", "exhausted"}
                 PROVE  f(at) \in TaskFrames /\ f(at).at = at /\ f(at).from = p /\ Alike(Top, f(at))
      OBVIOUS
    <2>1. at \in Stages BY DEF Stages
    <2>2. PICK from \in Scope : from = p BY <1>3
    <2>3. PICK task \in TaskFrames : task = Top /\ task.outer # 0 BY <1>2
    <2>4. from = Demanded(task) BY <2>2, <2>3
    <2> DEFINE h == Asks(task, from, at)
    <2>5. f(at) = h BY <2>2, <2>3 DEF Asks
    <2> HIDE DEF h, f, p, g
    <2>6. h \in TaskFrames /\ h.at = at /\ h.from = from /\ Alike(task, h)
      BY <2>1, <2>3, <2>4, AtIs DEF h
    <2>7. QED BY <2>2, <2>3, <2>5, <2>6
  <1> HIDE DEF f, p
  <1>7. CASE \E job \in {"acquire", "step"} :
               /\ frames' = Replaced(f(job)) \o <<g(job)>>
               /\ phase[p] = IF job = "acquire" THEN "new" ELSE "ready"
               /\ phase' = [phase EXCEPT ![p] = IF job = "acquire" THEN "acquiring" ELSE "stepping"]
    <2>1. PICK job \in {"acquire", "step"} :
             /\ frames' = Replaced(f(job)) \o <<g(job)>>
             /\ phase[p] = IF job = "acquire" THEN "new" ELSE "ready"
             /\ phase' = [phase EXCEPT ![p] = IF job = "acquire" THEN "acquiring" ELSE "stepping"]
      BY <1>7
    <2>2. job \in Jobs BY DEF Jobs
    <2>3. /\ g(job) \in Bodies /\ g(job) \in Frame /\ Enters(g(job), {job}, p)
          /\ g(job).of = p /\ g(job).job = job
      BY <1>3, <2>2, EntersIs DEF ShapeInv
    <2> DEFINE c == g(job)
               h == f(job)
    <2>4. h \in TaskFrames /\ h \in Frame /\ h.at = job /\ h.from = p /\ Alike(Top, h)
      BY <1>6, KindFrames
    <2>5. Enters(c, {"acquire", "step"}, p) BY <2>3 DEF Enters
    <2> HIDE DEF g
    <2>6. frames' \in Seq(Frame) /\ Grown(frames, frames', Depth, h, c)
      BY <1>2, <2>1, <2>3, <2>4
    <2> HIDE DEF c, h
    <2>7. Entering
      <3>1. /\ Grown(frames, frames', Depth, h, c) /\ Alike(Top, h)
            /\ Enters(c, {"acquire", "step"}, p) /\ h.at = c.job /\ h.from = p /\ c.of = p
            /\ phase[p] = IF c.job = "acquire" THEN "new" ELSE "ready"
            /\ phase' = [phase EXCEPT ![p] = IF c.job = "acquire" THEN "acquiring" ELSE "stepping"]
        BY <2>1, <2>3, <2>4, <2>5, <2>6 DEF c, h
      <3>2. h \in TaskFrames /\ c \in Bodies BY <2>3, <2>4 DEF c, h
      <3>3. QED BY <1>1, <1>2, <1>3, <3>1, <3>2 DEF Entering
    <2>8. QED BY <2>6, <2>7
  <1>8. CASE frames' = Replaced(f("exhausted")) /\ phase' = phase
    <2>1. Still BY <1>1, <1>8 DEF Still, producing
    <2>2. f("exhausted") \in TaskFrames /\ Alike(Top, f("exhausted")) BY <1>6
    <2>3. QED BY <1>2, <1>8, <2>1, <2>2, MovesAreMinor
  <1>9. QED BY <1>5, <1>7, <1>8

LEMMA AcquiredIs ==
  ASSUME ShapeInv, Acquired
  PROVE  Answering /\ frames' \in Seq(Frame)
  <1>1. /\ Answers("acquire") /\ frames' = Answered(At(Caller, "pull"))
        /\ phase' = [phase EXCEPT ![Top.of] = "ready"]
        /\ items' = [items EXCEPT ![Top.of] = 0]
        /\ UNCHANGED <<parent, token, opening, ending, errors, stops, releases>>
    BY DEF Acquired
  <1>2. PICK n \in Nat \ {0, 1} :
           /\ n = Depth /\ Top \in Bodies /\ Top.job = "acquire"
           /\ Caller \in TaskFrames /\ Caller.at = "acquire" /\ Caller.outer # 0
           /\ Top.of = Caller.from /\ Top.of \in Caller.graph
           /\ \A f \in Frame : /\ Answered(f) \in Seq(Frame)
                               /\ Rebased(frames, Answered(f), n - 1, f)
    BY <1>1, AnsweredTask
  <1> DEFINE f == At(Caller, "pull")
  <1>3. f \in TaskFrames /\ Alike(Caller, f) BY <1>2, StageIs
  <1>4. f \in Frame BY <1>3, KindFrames
  <1>5. frames' = Answered(f) BY <1>1
  <1> HIDE DEF f
  <1>6. frames' \in Seq(Frame) /\ Rebased(frames, frames', Depth - 1, f) BY <1>2, <1>4, <1>5
  <1>7. Depth > 1 /\ Caller.at = Top.job BY <1>2
  <1>8. Answering BY <1>1, <1>2, <1>3, <1>6, <1>7 DEF Answering
  <1>9. QED BY <1>6, <1>8

LEMMA YieldedIs ==
  ASSUME ShapeInv, Yielded
  PROVE  Answering /\ frames' \in Seq(Frame)
  <1>1. /\ Answers("step")
        /\ phase' = [phase EXCEPT ![Top.of] = "ready"]
        /\ items[Top.of] < MaxItems /\ items' = [items EXCEPT ![Top.of] = @ + 1]
        /\ \/ frames' = Answered(At(Caller, "transform"))
                          \o <<Body("transform", 0, Caller.owner)>>
           \/ frames' = Answered(At(Caller, "consume"))
        /\ UNCHANGED <<parent, token, opening, ending, errors, stops, releases>>
    BY DEF Yielded
  <1>2. PICK n \in Nat \ {0, 1} :
           /\ n = Depth /\ Top \in Bodies /\ Top.job = "step"
           /\ Caller \in TaskFrames /\ Caller.at = "step" /\ Caller.outer # 0
           /\ Top.of = Caller.from /\ Top.of \in Caller.graph
           /\ \A h \in Frame : /\ Answered(h) \in Seq(Frame)
                               /\ Rebased(frames, Answered(h), n - 1, h)
           /\ \A h, c \in Frame : /\ Answered(h) \o <<c>> \in Seq(Frame)
                                  /\ Grown(frames, Answered(h) \o <<c>>, n - 1, h, c)
    BY <1>1, AnsweredTask
  <1>3. Depth > 1 /\ Caller.at = Top.job /\ n - 1 = Depth - 1 BY <1>2
  <1> DEFINE f == At(Caller, "transform")
             e == At(Caller, "consume")
             g == Body("transform", 0, Caller.owner)
  <1>4. /\ f \in TaskFrames /\ f.at = "transform" /\ Alike(Caller, f)
        /\ e \in TaskFrames /\ Alike(Caller, e)
    BY <1>2, StageIs
  <1>5. /\ Caller.owner \in Scope /\ 0 \in Scope /\ "transform" \in Jobs
        /\ "transform" \notin Callbacks /\ Caller.kind = "task"
    BY <1>2, TaskFields, Bounds DEF Scope, Jobs, Callbacks
  <1>6. /\ g \in Bodies /\ g \in Frame /\ Enters(g, {"transform"}, Caller.owner)
        /\ g.job = "transform"
    BY <1>5, EntersIs DEF ShapeInv
  <1>7. f \in Frame /\ e \in Frame BY <1>4, KindFrames
  <1>8. frames' = Answered(f) \o <<g>> \/ frames' = Answered(e) BY <1>1
  <1> HIDE DEF e, f, g
  <1>9. Above(f, g)
    <2>1. f.kind = "task" /\ f.owner = Caller.owner BY <1>4, <1>5, TaskFields DEF Alike
    <2>2. g.kind = "body" /\ g.owner = Caller.owner BY <1>6, BodyFields DEF Enters
    <2>3. QED BY <1>4, <1>6, <2>1, <2>2 DEF Above
  <1>10. CASE frames' = Answered(f) \o <<g>>
    <2>1. frames' \in Seq(Frame) /\ Grown(frames, frames', Depth - 1, f, g)
      BY <1>2, <1>3, <1>6, <1>7, <1>10
    <2>2. Answering
      <3>1. \E h \in TaskFrames :
               /\ Alike(Caller, h)
               /\ \E c \in Bodies : /\ Grown(frames, frames', Depth - 1, h, c) /\ Above(h, c)
                                    /\ Enters(c, {"transform"}, Caller.owner)
        BY <1>4, <1>6, <1>9, <2>1
      <3>2. QED BY <1>1, <1>2, <1>3, <3>1 DEF Answering
    <2>3. QED BY <2>1, <2>2
  <1>11. CASE frames' = Answered(e)
    <2>1. frames' \in Seq(Frame) /\ Rebased(frames, frames', Depth - 1, e)
      BY <1>2, <1>3, <1>7, <1>11
    <2>2. Answering BY <1>1, <1>2, <1>3, <1>4, <2>1 DEF Answering
    <2>3. QED BY <2>1, <2>2
  <1>12. QED BY <1>8, <1>10, <1>11

LEMMA ExhaustedIs ==
  ASSUME ShapeInv, Exhausted
  PROVE  Answering /\ frames' \in Seq(Frame)
  <1>1. /\ Answers("step")
        /\ phase' = [phase EXCEPT ![Top.of] = "ready"]
        /\ frames' = Answered(At(Caller, "exhausted"))
                       \o <<Cleanup(<<Top.of>>, {}, "exhausted", "resume", None)>>
        /\ UNCHANGED <<parent, token, items, opening, ending, errors, stops, releases>>
    BY DEF Exhausted
  <1>2. PICK n \in Nat \ {0, 1} :
           /\ n = Depth /\ Top \in Bodies /\ Top.job = "step"
           /\ Caller \in TaskFrames /\ Caller.at = "step" /\ Caller.outer # 0
           /\ Top.of = Caller.from /\ Top.of \in Caller.graph /\ Top.of \in Producer
           /\ \A h, c \in Frame : /\ Answered(h) \o <<c>> \in Seq(Frame)
                                  /\ Grown(frames, Answered(h) \o <<c>>, n - 1, h, c)
    BY <1>1, AnsweredTask
  <1>3. Depth > 1 /\ Caller.at = Top.job /\ n - 1 = Depth - 1 BY <1>2
  <1> DEFINE p == Top.of
             f == Asks(Caller, Caller.from, "exhausted")
             g == Cleanup(<<p>>, {}, "exhausted", "resume", None)
  <1>4. At(Caller, "exhausted") = f
    <2>1. Caller \in [kind : {"task"}, owner : Scope, consumer : Consumers, flat : BOOLEAN,
                      outer : Scope, inner : Scope, from : Scope, owned : SUBSET Producer,
                      graph : SUBSET Producer, at : Stages]
      BY <1>2 DEF TaskFrames
    <2>2. PICK h \in [kind : {"task"}, owner : Scope, consumer : Consumers, flat : BOOLEAN,
                      outer : Scope, inner : Scope, from : Scope, owned : SUBSET Producer,
                      graph : SUBSET Producer, at : Stages] : h = Caller
      BY <2>1
    <2>3. [h EXCEPT !.at = "exhausted"] = [h EXCEPT !.from = h.from, !.at = "exhausted"]
      OBVIOUS
    <2>4. QED BY <2>2, <2>3 DEF At, Asks
  <1>5. /\ f \in TaskFrames /\ f.at = "exhausted" /\ Alike(Caller, f)
    <2>1. Caller.from = Demanded(Caller) /\ Caller.from \in Scope BY <1>2, TaskFields
    <2>2. "exhausted" \in Stages BY DEF Stages
    <2>3. QED BY <1>2, <2>1, <2>2, AtIs
  <1>6. "exhausted" \in Reason /\ p \in Producer BY <1>2 DEF Reason
  <1>7. /\ g \in CleanupFrames /\ g \in Frame /\ g.after = "resume" /\ g.error = None
        /\ Closes(g.actions, {p}, {})
    BY <1>6, CleanupOfOne
  <1>8. f \in Frame BY <1>5, KindFrames
  <1>9. frames' = Answered(f) \o <<g>> BY <1>1, <1>4
  <1> HIDE DEF f, g
  <1>10. Above(f, g)
    <2>1. f.kind = "task" /\ g.kind = "cleanup" BY <1>5, <1>7, TaskFields, CleanupFields
    <2>2. QED BY <1>5, <1>7, <2>1 DEF Above
  <1>11. frames' \in Seq(Frame) /\ Grown(frames, frames', Depth - 1, f, g)
    BY <1>2, <1>3, <1>7, <1>8, <1>9
  <1>12. Answering
    <2>1. \E h \in TaskFrames :
             /\ Alike(Caller, h)
             /\ \E c \in CleanupFrames :
                  /\ Grown(frames, frames', Depth - 1, h, c) /\ Above(h, c)
                  /\ c.after # "unwind" /\ c.error = None
                  /\ Closes(c.actions, {Top.of}, {}) /\ items' = items
      BY <1>1, <1>5, <1>7, <1>10, <1>11
    <2>2. QED BY <1>1, <1>2, <1>3, <2>1 DEF Answering
  <1>13. QED BY <1>11, <1>12

LEMMA OpenedIs ==
  ASSUME ShapeInv, Opened
  PROVE  Joining /\ frames' \in Seq(Frame)
  <1>1. Answers("transform")
        /\ UNCHANGED <<phase, parent, items, opening, ending, errors, stops, releases>>
    BY DEF Opened
  <1>2. PICK n \in Nat \ {0, 1} :
           /\ n = Depth /\ Top \in Bodies /\ Caller \in TaskFrames /\ Caller.outer # 0
           /\ \A f \in Frame : /\ Answered(f) \in Seq(Frame)
                               /\ Rebased(frames, Answered(f), n - 1, f)
    BY <1>1, AnsweredTask
  <1>3. PICK q \in Producer :
          /\ token[q] /\ parent[q] = Caller.owner
          /\ token' = [token EXCEPT ![q] = FALSE]
          /\ frames' = Answered([Caller EXCEPT !.at = "pull", !.inner = q,
                                               !.graph = @ \cup {q}])
    BY DEF Opened
  <1> DEFINE f == [Caller EXCEPT !.at = "pull", !.inner = q, !.graph = @ \cup {q}]
  <1>4. f \in TaskFrames /\ f.owner = Caller.owner /\ f.graph = Caller.graph \cup {q}
    <2>1. /\ Caller \in [kind : {"task"}, owner : Scope, consumer : Consumers, flat : BOOLEAN,
                         outer : Scope, inner : Scope, from : Scope, owned : SUBSET Producer,
                         graph : SUBSET Producer, at : Stages]
          /\ Caller.owned \subseteq Caller.graph
          /\ {Caller.outer, Caller.inner} \subseteq Caller.graph \cup {0}
      BY <1>2 DEF TaskFrames
    <2>2. q \in Scope BY Bounds DEF Producer, Scope
    <2>3. /\ f \in [kind : {"task"}, owner : Scope, consumer : Consumers, flat : BOOLEAN,
                    outer : Scope, inner : Scope, from : Scope, owned : SUBSET Producer,
                    graph : SUBSET Producer, at : Stages]
          /\ f.owner = Caller.owner /\ f.graph = Caller.graph \cup {q} /\ f.inner = q
          /\ f.outer = Caller.outer /\ f.owned = Caller.owned /\ f.at = "pull"
      BY <2>1, <2>2 DEF Stages
    <2> HIDE DEF f
    <2>4. QED BY <1>2, <2>1, <2>3 DEF TaskFrames
  <1>5. f \in Frame BY <1>4, KindFrames
  <1>6. frames' = Answered(f) BY <1>3
  <1> HIDE DEF f
  <1>7. frames' \in Seq(Frame) /\ Rebased(frames, frames', Depth - 1, f) BY <1>2, <1>5, <1>6
  <1>8. Depth > 1 BY <1>2
  <1>9. Joining BY <1>1, <1>2, <1>3, <1>4, <1>7, <1>8 DEF Joining
  <1>10. QED BY <1>7, <1>9

\* The cleanup on top and the action it is about to perform.
LEMMA TopCleanup ==
  ASSUME ShapeInv, NEW do, Doing(do)
  PROVE  \E n \in Nat \ {0, 1} :
           /\ n = Depth /\ Top = frames[n] /\ Running
           /\ Top \in CleanupFrames /\ Top.actions # <<>>
           /\ Top.actions[1] \in Actions /\ Top.actions[1].do = do /\ On = Top.actions[1].on
           /\ do \in {"producer", "second", "check", "scope", "finish"} =>
                On \in Producer /\ Top.actions[1] = Act(do, On)
           /\ do = "close" => On \subseteq 1..MaxResources
           /\ \A f \in Frame : Replaced(f) \in Seq(Frame) /\ Rebased(frames, Replaced(f), n, f)
           /\ \A f, g \in Frame : /\ Replaced(f) \o <<g>> \in Seq(Frame)
                                  /\ Grown(frames, Replaced(f) \o <<g>>, n, f, g)
  <1>1. Running /\ Top.kind = "cleanup" /\ Top.actions # <<>> /\ Head(Top.actions).do = do
    BY DEF Doing, OnTop
  <1>2. PICK n \in Nat \ {0} :
           /\ n = Depth /\ Top = frames[n] /\ Top \in Frame /\ (n = 1 => Bottom(Top))
           /\ \A f \in Frame : Replaced(f) \in Seq(Frame) /\ Rebased(frames, Replaced(f), n, f)
           /\ \A f, g \in Frame : /\ Replaced(f) \o <<g>> \in Seq(Frame)
                                  /\ Grown(frames, Replaced(f) \o <<g>>, n, f, g)
    BY <1>1, OnStack
  <1>3. Top \in CleanupFrames BY <1>1, <1>2, FrameKinds
  <1>4. n \in Nat \ {0, 1} BY <1>1, <1>2 DEF Bottom
  <1>5. Top.actions \in Seq(Actions) /\ Shape(Top.actions) BY <1>3, CleanupFields
  <1>6. Head(Top.actions) = Top.actions[1] /\ Top.actions[1] \in Actions
    BY <1>1, <1>5, TailActions
  <1>7. On = Top.actions[1].on /\ Top.actions[1].do = do BY <1>1, <1>6 DEF On
  <1>8. PICK a \in Actions : a = Top.actions[1] BY <1>6
  <1>9. /\ a.do \in {"producer", "second", "check", "scope", "finish"} =>
             a.on \in Producer /\ a = Act(a.do, a.on)
        /\ a.do = "close" => a.on \subseteq 1..MaxResources
    BY DEF Actions, Act
  <1>10. QED BY <1>1, <1>2, <1>3, <1>4, <1>6, <1>7, <1>8, <1>9

\* It goes on to its next action, after others that this one calls for.
LEMMA ThenIs ==
  ASSUME Top \in CleanupFrames, Top.actions # <<>>, NEW x \in Seq(Actions), Shape(x),
         x = <<>> \/ Top.actions[1].do # "second"
  PROVE  /\ Then(x) \in CleanupFrames /\ Then(x) \in Frame /\ Continues(Then(x), 1, x)
         /\ Top.actions[1].do # "second" => (Callless(x) => Callless(Then(x).actions))
  <1> DEFINE a == Top.actions
             b == Tail(a)
             c == x \o b
  <1>1. /\ Top \in [kind : {"cleanup"}, reason : Reason,
                    after : {"resume", "boundary", "unwind"},
                    error : Causes, actions : Seq(Actions)]
        /\ a \in Seq(Actions) /\ Shape(a)
    BY DEF CleanupFrames
  <1>2. PICK n \in Nat \ {0} : n = Len(a) BY <1>1, EmptySeq
  <1>3. PICK l \in Nat : l = Len(x) BY LenProperties
  <1>4. /\ b \in Seq(Actions) /\ Len(b) = n - 1 /\ Shape(b)
        /\ \A k \in 1..n - 1 : b[k] = a[k + 1]
        /\ a[1].do # "second" => Callless(b)
    BY <1>1, <1>2, TailActions
  <1>5. Then(x) = [Top EXCEPT !.actions = c] BY DEF Then
  <1> HIDE DEF b
  <1>6. /\ c \in Seq(Actions) /\ Shape(c) /\ Len(c) = l + (n - 1)
        /\ \A k \in 1..l : c[k] = x[k]
        /\ \A k \in 1..n - 1 : c[l + k] = b[k]
        /\ a[1].do # "second" => (Callless(x) => Callless(c))
    <2>1. CASE a[1].do # "second"
      <3>1. Callless(b) BY <1>4, <2>1
      <3>2. /\ c \in Seq(Actions) /\ Shape(c) /\ Len(c) = Len(x) + Len(b)
            /\ \A k \in 1..Len(x) : c[k] = x[k]
            /\ \A k \in 1..Len(b) : c[Len(x) + k] = b[k]
            /\ Callless(x) => Callless(c)
        BY <1>4, <3>1, JoinActions
      <3> HIDE DEF c
      <3>3. QED BY <1>3, <1>4, <3>2
    <2>2. CASE a[1].do = "second"
      <3>1. x = <<>> /\ l = 0 BY <1>3, <2>2
      <3>2. c = b BY <1>4, <3>1, ConcatEmptySeq
      <3>3. \A k \in 1..n - 1 : c[l + k] = b[k]
        <4> SUFFICES ASSUME NEW k \in 1..n - 1 PROVE c[l + k] = b[k] OBVIOUS
        <4>1. l + k = k BY <3>1
        <4>2. QED BY <3>2, <4>1
      <3>4. QED BY <1>2, <1>4, <2>2, <3>1, <3>2, <3>3
    <2>3. QED BY <2>1, <2>2
  <1> HIDE DEF c
  <1>7. /\ Then(x) \in [kind : {"cleanup"}, reason : Reason,
                        after : {"resume", "boundary", "unwind"},
                        error : Causes, actions : Seq(Actions)]
        /\ Then(x).actions = c /\ Then(x).reason = Top.reason
        /\ Then(x).after = Top.after /\ Then(x).error = Top.error
    BY <1>1, <1>5, <1>6
  <1>8. Then(x) \in CleanupFrames BY <1>6, <1>7 DEF CleanupFrames
  <1>9. Follows(a, c, 1, x)
    <2>1. 1 \in 0..Len(a) /\ Len(c) = Len(x) + Len(a) - 1 BY <1>2, <1>3, <1>6
    <2>2. \A k \in 1..Len(a) - 1 : c[Len(x) + k] = a[k + 1] BY <1>2, <1>3, <1>4, <1>6
    <2>3. \A k \in 1..Len(x) : c[k] = x[k] BY <1>3, <1>6
    <2>4. QED BY <2>1, <2>2, <2>3 DEF Follows
  <1>10. Continues(Then(x), 1, x) BY <1>7, <1>8, <1>9 DEF Continues
  <1>11. QED BY <1>6, <1>7, <1>8, <1>10, KindFrames

\* It goes on, and nothing else happens to the stack.
LEMMA PassesOn ==
  ASSUME ShapeInv, NEW do, Doing(do)
  PROVE  LET f == Then(<<>>)
         IN  /\ f \in CleanupFrames /\ Continues(f, 1, <<>>)
             /\ Replaced(f) \in Seq(Frame) /\ Rebased(frames, Replaced(f), Depth, f)
             /\ do # "second" => Callless(f.actions)
  <1>1. PICK n \in Nat \ {0, 1} :
           /\ n = Depth /\ Top \in CleanupFrames /\ Top.actions # <<>>
           /\ Top.actions[1].do = do
           /\ \A f \in Frame : Replaced(f) \in Seq(Frame) /\ Rebased(frames, Replaced(f), n, f)
    BY TopCleanup
  <1>2. <<>> \in Seq(Actions) /\ Shape(<<>>) /\ Callless(<<>>) BY DEF Shape, Callless
  <1> DEFINE f == Then(<<>>)
  <1>3. /\ f \in CleanupFrames /\ f \in Frame /\ Continues(f, 1, <<>>)
        /\ do # "second" => Callless(f.actions)
    BY <1>1, <1>2, ThenIs
  <1> HIDE DEF f
  <1>4. Replaced(f) \in Seq(Frame) /\ Rebased(frames, Replaced(f), Depth, f) BY <1>1, <1>3
  <1>5. QED BY <1>3, <1>4 DEF f

LEMMA CloseProducerIs ==
  ASSUME ShapeInv, CloseProducer
  PROVE  (Beginning \/ Passing) /\ frames' \in Seq(Frame)
  <1>1. Doing("producer") /\ UNCHANGED <<parent, token, items, opening, ending, errors, stops>>
    BY DEF CloseProducer
  <1>2. PICK n \in Nat \ {0, 1} :
           /\ n = Depth /\ Top \in CleanupFrames /\ Top.actions # <<>>
           /\ On \in Producer /\ Top.actions[1] = Act("producer", On)
           /\ Top.actions[1].do = "producer" /\ Top.actions[1].on = On
           /\ \A f \in Frame : Replaced(f) \in Seq(Frame) /\ Rebased(frames, Replaced(f), n, f)
           /\ \A f, g \in Frame : /\ Replaced(f) \o <<g>> \in Seq(Frame)
                                  /\ Grown(frames, Replaced(f) \o <<g>>, n, f, g)
    BY <1>1, TopCleanup
  <1>3. PICK p \in Producer : p = On BY <1>2
  <1> DEFINE rest == <<Act("scope", p), Act("finish", p)>>
             all == <<Act("second", p), Act("check", p), Act("scope", p), Act("finish", p)>>
  <1>4. Act("second", p) \in Actions /\ Act("check", p) \in Actions
        /\ Act("scope", p) \in Actions /\ Act("finish", p) \in Actions
    BY DEF Act, Actions
  <1>5. /\ Act("second", p).do = "second" /\ Act("second", p).on = p
        /\ Act("check", p).do = "check" /\ Act("check", p).on = p
        /\ Act("scope", p).do = "scope" /\ Act("scope", p).on = p
        /\ Act("finish", p).do = "finish"
    BY DEF Act
  <1>6. rest \in Seq(Actions) /\ Shape(rest) BY <1>4, <1>5 DEF Shape
  <1>7. all \in Seq(Actions) /\ Shape(all)
    <2>1. all \in Seq(Actions) /\ Len(all) = 4 BY <1>4
    <2>2. /\ all[1] = Act("second", p) /\ all[2] = Act("check", p)
          /\ all[3] = Act("scope", p) /\ all[4] = Act("finish", p)
      OBVIOUS
    <2> HIDE DEF all
    <2>3. \A k \in 1..4 :
            /\ all[k].do = "scope" => k < 4 /\ all[k + 1] = Act("finish", all[k].on)
            /\ all[k].do = "second" => k = 1 /\ 4 > 1 /\ all[2] = Act("check", all[1].on)
            /\ all[k].do = "check" => /\ k = 1 \/ (k = 2 /\ all[1].do = "second")
                                      /\ k < 4 /\ all[k + 1] = Act("scope", all[k].on)
      <3> SUFFICES ASSUME NEW k \in 1..4
                   PROVE  /\ all[k].do = "scope" => k < 4 /\ all[k + 1] = Act("finish", all[k].on)
                          /\ all[k].do = "second" =>
                               k = 1 /\ 4 > 1 /\ all[2] = Act("check", all[1].on)
                          /\ all[k].do = "check" =>
                               /\ k = 1 \/ (k = 2 /\ all[1].do = "second")
                               /\ k < 4 /\ all[k + 1] = Act("scope", all[k].on)
        OBVIOUS
      <3>1. k = 1 \/ k = 2 \/ k = 3 \/ k = 4 OBVIOUS
      <3>2. CASE k = 1 BY <1>5, <2>2, <3>2
      <3>3. CASE k = 2 BY <1>5, <2>2, <3>3
      <3>4. CASE k = 3 BY <1>5, <2>2, <3>4
      <3>5. CASE k = 4 BY <1>5, <2>2, <3>5
      <3>6. QED BY <3>1, <3>2, <3>3, <3>4, <3>5
    <2>4. QED BY <2>1, <2>3 DEF Shape
  <1>8. ASSUME NEW x \in Seq(Actions), Shape(x)
        PROVE  Then(x) \in CleanupFrames /\ Then(x) \in Frame /\ Continues(Then(x), 1, x)
    BY <1>2, <1>8, ThenIs
  <1>9. CASE Active(p) /\ phase[p] \in {"ready", "stepping"}
    <2> DEFINE f == Then(all)
               g == Body("release", p, p)
               d == Then(<<Act("second", p), Act("check", p)>> \o rest)
    <2>1. <<Act("second", p), Act("check", p)>> \o rest = all
      <3>1. PICK a \in Actions : a = Act("second", p) BY <1>4
      <3>2. PICK b \in Actions : b = Act("check", p) BY <1>4
      <3>3. rest \in Seq(Actions) /\ Len(rest) = 2 BY <1>6
      <3> DEFINE pair == <<a, b>>
      <3>4. pair \in Seq(Actions) /\ Len(pair) = 2 /\ pair[1] = a /\ pair[2] = b OBVIOUS
      <3>5. rest[1] = Act("scope", p) /\ rest[2] = Act("finish", p) OBVIOUS
      <3>6. /\ all \in Seq(Actions) /\ Len(all) = 4 /\ all[1] = a /\ all[2] = b
            /\ all[3] = Act("scope", p) /\ all[4] = Act("finish", p)
        BY <1>7, <3>1, <3>2
      <3> HIDE DEF pair, all, rest
      <3>7. /\ pair \o rest \in Seq(Actions) /\ Len(pair \o rest) = Len(pair) + Len(rest)
            /\ \A i \in 1..Len(pair) + Len(rest) :
                 (pair \o rest)[i] = IF i <= Len(pair) THEN pair[i] ELSE rest[i - Len(pair)]
        BY <3>3, <3>4, ConcatProperties
      <3>8. \A i \in 1..4 : (pair \o rest)[i] = all[i]
        <4> SUFFICES ASSUME NEW i \in 1..4 PROVE (pair \o rest)[i] = all[i] OBVIOUS
        <4>1. i = 1 \/ i = 2 \/ i = 3 \/ i = 4 OBVIOUS
        <4>2. /\ i <= 2 => (pair \o rest)[i] = pair[i]
              /\ ~(i <= 2) => (pair \o rest)[i] = rest[i - 2]
          BY <3>3, <3>4, <3>7
        <4>3. CASE i = 1
          <5>1. i <= 2 BY <4>3
          <5>2. (pair \o rest)[i] = pair[1] BY <4>2, <4>3, <5>1
          <5>3. pair[1] = all[1] BY <3>4, <3>6
          <5>4. QED BY <4>3, <5>2, <5>3
        <4>4. CASE i = 2
          <5>1. i <= 2 BY <4>4
          <5>2. (pair \o rest)[i] = pair[2] BY <4>2, <4>4, <5>1
          <5>3. pair[2] = all[2] BY <3>4, <3>6
          <5>4. QED BY <4>4, <5>2, <5>3
        <4>5. CASE i = 3
          <5>1. i - 2 = 1 /\ ~(i <= 2) BY <4>5
          <5>2. QED BY <3>5, <3>6, <4>2, <4>5, <5>1
        <4>6. CASE i = 4
          <5>1. i - 2 = 2 /\ ~(i <= 2) BY <4>6
          <5>2. QED BY <3>5, <3>6, <4>2, <4>6, <5>1
        <4>7. QED BY <4>1, <4>3, <4>4, <4>5, <4>6
      <3>9. pair \o rest = all BY <3>3, <3>4, <3>6, <3>7, <3>8, SeqEqual
      <3>10. QED BY <3>1, <3>2, <3>9 DEF pair
    <2>2. d = f BY <2>1
    <2>3. /\ phase' = [phase EXCEPT ![p] = "closing"]
          /\ frames' = Replaced(d) \o <<g>>
          /\ releases' = [releases EXCEPT ![p] = Append(@, items[p])]
      BY <1>3, <1>9 DEF CloseProducer
    <2>4. f \in CleanupFrames /\ f \in Frame /\ Continues(f, 1, all) BY <1>7, <1>8
    <2>5. p \in Scope /\ p # 0 /\ "release" \in Jobs BY Bounds DEF Producer, Scope, Jobs
    <2>6. /\ g \in Bodies /\ g \in Frame /\ Enters(g, {"release"}, p) /\ g.of = p
      BY <2>5, EntersIs DEF ShapeInv
    <2> HIDE DEF f, g, d
    <2>7. frames' \in Seq(Frame) /\ Grown(frames, frames', Depth, f, g)
      BY <1>2, <2>2, <2>3, <2>4, <2>6
    <2>8. Releases(p) BY <1>9, <2>3, <2>4, <2>6, <2>7 DEF Releases
    <2>9. Beginning BY <1>1, <1>2, <1>3, <2>3, <2>8 DEF Beginning
    <2>10. QED BY <2>7, <2>9
  <1>10. CASE Active(p) /\ phase[p] \notin {"ready", "stepping"}
    <2> DEFINE f == Then(rest)
    <2>1. /\ phase' = [phase EXCEPT ![p] = "closing"]
          /\ frames' = Replaced(f)
          /\ releases' = [releases EXCEPT ![p] = @]
      BY <1>3, <1>10 DEF CloseProducer
    <2>2. releases' = releases
      <3>1. releases \in [Producer -> Seq(Int \cup Reason)] BY DEF ShapeInv, TypeInv, VarInv
      <3>2. QED BY <2>1, <3>1
    <2>3. f \in CleanupFrames /\ f \in Frame /\ Continues(f, 1, rest) BY <1>6, <1>8
    <2> HIDE DEF f
    <2>4. frames' \in Seq(Frame) /\ Rebased(frames, frames', Depth, f)
      BY <1>2, <2>1, <2>3
    <2>5. phase[p] \in {"new", "acquiring"} BY <1>10 DEF Active
    <2>6. Discards(p) BY <2>2, <2>3, <2>4, <2>5 DEF Discards
    <2>7. Beginning BY <1>1, <1>2, <1>3, <2>1, <2>6 DEF Beginning
    <2>8. QED BY <2>4, <2>7
  <1>11. CASE ~Active(p)
    <2> DEFINE f == Then(<<>>)
    <2>1. frames' = Replaced(f) /\ UNCHANGED <<phase, releases>>
      BY <1>3, <1>11 DEF CloseProducer
    <2>2. /\ f \in CleanupFrames /\ Continues(f, 1, <<>>)
          /\ frames' \in Seq(Frame) /\ Rebased(frames, frames', Depth, f)
      BY <1>1, <2>1, PassesOn
    <2> HIDE DEF f
    <2>3. /\ f.reason = Top.reason /\ f.after = Top.after /\ f.error = Top.error
          /\ Follows(Top.actions, f.actions, 1, <<>>)
      BY <2>2 DEF Continues
    <2>4. live' = live /\ UNCHANGED <<aborting, errors>>
          /\ UNCHANGED <<producing, resources, outcome, caught, stops, releases>>
      BY <1>1, <2>1 DEF opening, ending, producing
    <2>5. Top.actions[1].do = "producer" /\ ~Active(Top.actions[1].on)
      BY <1>2, <1>3, <1>11
    <2>6. Passing BY <1>2, <2>2, <2>3, <2>4, <2>5 DEF Passing
    <2>7. QED BY <2>2, <2>6
  <1>12. QED BY <1>9, <1>10, <1>11

LEMMA ApplyReasonIs ==
  ASSUME ShapeInv, ApplyReason
  PROVE  Reasoning /\ frames' \in Seq(Frame)
  <1> DEFINE f == Then(<<>>)
             g == Body("reason", On, On)
  <1>1. /\ Doing("second") /\ UNCHANGED <<producing, opening, ending, errors, stops>>
        /\ frames' = Replaced(f) \o <<g>>
        /\ releases' = [releases EXCEPT ![On] = Append(@, Top.reason)]
    BY DEF ApplyReason
  <1>2. PICK n \in Nat \ {0, 1} :
           /\ n = Depth /\ Top \in CleanupFrames /\ Top.actions # <<>>
           /\ On \in Producer /\ Top.actions[1] = Act("second", On)
           /\ \A h, c \in Frame : /\ Replaced(h) \o <<c>> \in Seq(Frame)
                                  /\ Grown(frames, Replaced(h) \o <<c>>, n, h, c)
    BY <1>1, TopCleanup
  <1>3. f \in CleanupFrames /\ Continues(f, 1, <<>>) BY <1>1, PassesOn
  <1>4. f \in Frame BY <1>3, KindFrames
  <1>5. On \in Scope /\ On # 0 /\ "reason" \in Jobs BY <1>2, Bounds DEF Producer, Scope, Jobs
  <1>6. g \in Bodies /\ g \in Frame /\ Enters(g, {"reason"}, On) /\ g.of = On
    BY <1>5, EntersIs DEF ShapeInv
  <1> HIDE DEF f, g
  <1>7. frames' \in Seq(Frame) /\ Grown(frames, frames', Depth, f, g)
    BY <1>1, <1>2, <1>4, <1>6
  <1>8. Reasoning BY <1>1, <1>2, <1>3, <1>6, <1>7 DEF Reasoning
  <1>9. QED BY <1>7, <1>8

LEMMA CloseScopeIs ==
  ASSUME ShapeInv, CloseScope
  PROVE  Scoping /\ frames' \in Seq(Frame)
  <1> DEFINE S == {p \in Producer : Active(p) /\ parent[p] = On}
             keys == {i \in live : resources[i] = On}
             list == AsMade(S)
             x == [i \in 1..Len(list) |-> Act("producer", list[i])] \o Closing(keys)
             f == Then(x)
  <1>1. Doing("scope") /\ Still /\ frames' = Replaced(f) BY DEF CloseScope, Still
  <1>2. PICK n \in Nat \ {0, 1} :
           /\ n = Depth /\ Top \in CleanupFrames /\ Top.actions # <<>>
           /\ On \in Producer /\ Top.actions[1] = Act("scope", On)
           /\ Top.actions[1].do = "scope"
           /\ \A h \in Frame : Replaced(h) \in Seq(Frame) /\ Rebased(frames, Replaced(h), n, h)
    BY <1>1, TopCleanup
  <1>3. keys \subseteq 1..MaxResources
    <2>1. keys \subseteq live OBVIOUS
    <2>2. Len(resources) \in Nat BY LenProperties DEF ShapeInv, TypeInv, VarInv
    <2> HIDE DEF keys
    <2>3. live \subseteq 1..Len(resources) /\ Len(resources) <= MaxResources
      BY DEF ShapeInv, TypeInv, VarInv
    <2>4. QED BY <2>1, <2>2, <2>3, Bounds
  <1>4. S \subseteq Producer /\ [p \in Producer |-> 0] \in [Producer -> Int] OBVIOUS
  <1>5. list = InOrder(S, [p \in Producer |-> 0]) BY DEF AsMade
  <1> HIDE DEF S, keys, list
  <1>6. Lists(list, S) BY <1>4, <1>5, OrderLists
  <1>7. Closes(x, S, keys) BY <1>3, <1>6, ClosesIs DEF Lists
  <1> HIDE DEF x
  <1>8. x \in Seq(Actions) /\ Shape(x) BY <1>7 DEF Closes
  <1>9. f \in CleanupFrames /\ f \in Frame /\ Continues(f, 1, x) BY <1>2, <1>8, ThenIs
  <1> HIDE DEF f
  <1>10. frames' \in Seq(Frame) /\ Rebased(frames, frames', Depth, f) BY <1>1, <1>2, <1>9
  <1>11. Scoping
    <2>1. Closes(x, {q \in Producer : Active(q) /\ parent[q] = On},
                 {r \in live : resources[r] = On})
      BY <1>7 DEF S, keys
    <2>2. QED BY <1>1, <1>2, <1>8, <1>9, <1>10, <2>1 DEF Scoping
  <1>12. QED BY <1>10, <1>11

LEMMA FinishIs ==
  ASSUME ShapeInv, Finish
  PROVE  Finishing /\ frames' \in Seq(Frame)
  <1> DEFINE f == Then(<<>>)
  <1>1. /\ Doing("finish")
        /\ token' = [p \in Producer |-> token[p] /\ parent[p] # On]
        /\ phase' = [phase EXCEPT ![On] = "closed"]
        /\ frames' = Replaced(f)
        /\ UNCHANGED <<parent, items, opening, ending, errors, stops, releases>>
    BY DEF Finish
  <1>2. Top \in CleanupFrames /\ Top.actions # <<>> /\ On \in Producer
        /\ Top.actions[1] = Act("finish", On)
    BY <1>1, TopCleanup
  <1>3. /\ f \in CleanupFrames /\ Continues(f, 1, <<>>)
        /\ frames' \in Seq(Frame) /\ Rebased(frames, frames', Depth, f)
    BY <1>1, PassesOn
  <1> HIDE DEF f
  <1>4. Finishing BY <1>1, <1>2, <1>3 DEF Finishing
  <1>5. QED BY <1>3, <1>4

LEMMA RaisedIs ==
  ASSUME ShapeInv, NEW fs, Raises(fs)
  PROVE  /\ errors' = errors + 1 /\ errors + 1 \in 0..MaxTroubles
         /\ Error("op", errors + 1) \in Errors /\ Error("op", errors + 1) \in Causes
         /\ Error("op", errors + 1).kind = "op" /\ Error("op", errors + 1).id = errors + 1
         /\ Fail(fs, Error("op", errors + 1))
  <1>1. errors \in Nat /\ errors <= MaxTroubles /\ Len(stops) \in Nat
    BY Bounds, LenProperties DEF ShapeInv, TypeInv, VarInv
  <1>2. errors + Len(stops) < MaxTroubles BY DEF Raises, Calm
  <1>3. errors + 1 \in 0..MaxTroubles BY <1>1, <1>2, Bounds
  <1>4. Error("op", errors + 1) \in Errors /\ Error("op", errors + 1).kind = "op"
        /\ Error("op", errors + 1).id = errors + 1
    BY <1>3, ErrorIs
  <1>5. errors' = errors + 1 /\ Fail(fs, Error("op", errors + 1)) BY DEF Raises
  <1>6. QED BY <1>3, <1>4, <1>5 DEF Causes

\* A cleanup frame retains the error of its check, or of the host that closes keys.
LEMMA RetainsIs ==
  ASSUME ShapeInv, NEW do \in {"check", "close"}, Doing(do), Raises(Replaced(Then(<<>>)))
  PROVE  /\ frames' \in Seq(Frame)
         /\ errors' = errors + 1 /\ aborting' = Aborts(Error("op", errors + 1))
         /\ UNCHANGED <<outcome, caught, token>>
         /\ \E f \in CleanupFrames :
              /\ Rebased(frames, frames', Depth, f)
              /\ f.reason = Top.reason /\ f.after = Top.after
              /\ Follows(Top.actions, f.actions, 1, <<>>)
              /\ \E c \in CleanupFrames : /\ f = Survives(c, Error("op", errors + 1))
                                          /\ c.error = Top.error
  <1> DEFINE c == Then(<<>>)
             fs == Replaced(c)
             error == Error("op", errors + 1)
  <1>1. PICK n \in Nat \ {0, 1} :
           /\ n = Depth /\ Top \in CleanupFrames /\ Running
      BY TopCleanup
  <1>2. /\ c \in CleanupFrames /\ Continues(c, 1, <<>>)
        /\ fs \in Seq(Frame) /\ Rebased(frames, fs, Depth, c) /\ Callless(c.actions)
    BY PassesOn
  <1>3. /\ errors' = errors + 1 /\ error \in Errors /\ error \in Causes /\ error.kind = "op"
        /\ Fail(fs, error)
    BY RaisedIs
  <1> HIDE DEF c, fs, error
  <1>4. Len(fs) = n /\ fs[n] = c /\ fs[1] = frames[1] BY <1>1, <1>2 DEF Rebased
  <1>5. fs # <<>> BY <1>2, <1>4, EmptySeq
  <1>6. ~IsAttempt(fs[1])
    <2>1. Bottom(frames[1]) BY DEF ShapeInv, Stacked, Running, Doing, OnTop
    <2>2. QED BY <1>4, <2>1 DEF Bottom, IsAttempt
  <1> DEFINE at == Checkpoint(fs, Aborts(error))
  <1>7. at = n /\ fs[at].kind = "cleanup" /\ ~IsAttempt(fs[at])
    <2>1. Aborts(error) \in BOOLEAN BY <1>3 DEF Aborts, ShapeInv, TypeInv, VarInv
    <2>2. at \in 0..n /\ \A i \in Cleanups(fs) : i <= at
      BY <1>2, <1>4, <2>1, CheckpointIs
    <2>3. c.kind = "cleanup" BY <1>2, CleanupFields
    <2>4. DOMAIN fs = 1..n BY <1>2, <1>4, LenProperties
    <2>5. n \in Cleanups(fs) BY <1>4, <2>3, <2>4 DEF Cleanups
    <2> HIDE DEF at
    <2>6. at = n BY <2>2, <2>5
    <2>7. QED BY <1>4, <2>3, <2>6 DEF IsAttempt
  <1>8. TypeInv BY DEF ShapeInv
  <1>9. error.kind \in {"op", "cancel", "exit"} BY <1>3
  <1>10. Deferred(fs, error) \/ Unwound(fs, error) \/ Returned(fs, error) \/ GivenUp(fs, error)
    BY <1>2, <1>3, <1>5, <1>6, <1>8, <1>9, Failing
  <1>11. Deferred(fs, error)
    <2>1. ~Unwound(fs, error) BY <1>7 DEF Unwound
    <2>2. ~Returned(fs, error) BY <1>7 DEF Returned
    <2>3. ~GivenUp(fs, error) BY <1>7 DEF GivenUp
    <2>4. QED BY <1>10, <2>1, <2>2, <2>3
  <1> DEFINE f == Survives(c, error)
  <1>12. /\ frames' \in Seq(Frame) /\ Rebased(fs, frames', n, f)
         /\ aborting' = Aborts(error) /\ UNCHANGED <<outcome, caught, token>>
    BY <1>4, <1>7, <1>11 DEF Deferred
  <1>13. /\ f \in CleanupFrames /\ f.reason = c.reason /\ f.after = c.after
         /\ f.actions = Unapplied(c.actions)
    BY <1>2, <1>3, SurvivesIs
  <1>14. f.actions = c.actions
    BY <1>2, <1>13, CleanupFields, UnappliedActions
  <1> HIDE DEF f
  <1>15. Rebased(frames, frames', Depth, f) BY <1>1, <1>2, <1>12 DEF Rebased
  <1>16. f.reason = Top.reason /\ f.after = Top.after /\ c.error = Top.error
         /\ Follows(Top.actions, f.actions, 1, <<>>)
    BY <1>2, <1>13, <1>14 DEF Continues
  <1>17. QED BY <1>2, <1>3, <1>12, <1>13, <1>15, <1>16 DEF f, error

LEMMA CheckUnitIs ==
  ASSUME ShapeInv, CheckUnit
  PROVE  Passing /\ frames' \in Seq(Frame)
  <1>1. Doing("check") /\ UNCHANGED <<opening, stops, releases>> BY DEF CheckUnit
  <1>2. Top \in CleanupFrames /\ Top.actions # <<>> /\ Top.actions[1].do = "check"
    BY <1>1, TopCleanup
  <1>3. Top.actions[1].do # "producer" BY <1>2
  <1>4. live' = live /\ resources' = resources BY <1>1 DEF opening
  <1>5. CASE frames' = Replaced(Then(<<>>)) /\ UNCHANGED <<producing, ending, errors>>
    <2> DEFINE f == Then(<<>>)
    <2>1. /\ f \in CleanupFrames /\ Continues(f, 1, <<>>)
          /\ frames' \in Seq(Frame) /\ Rebased(frames, frames', Depth, f)
      BY <1>1, <1>5, PassesOn
    <2> HIDE DEF f
    <2>2. /\ f.reason = Top.reason /\ f.after = Top.after /\ f.error = Top.error
          /\ Follows(Top.actions, f.actions, 1, <<>>)
      BY <2>1 DEF Continues
    <2>3. UNCHANGED <<producing, outcome, caught, aborting, errors>> BY <1>5 DEF ending
    <2>4. Passing BY <1>1, <1>2, <1>4, <2>1, <2>2, <2>3 DEF Passing
    <2>5. QED BY <2>1, <2>4
  <1>6. CASE Raises(Replaced(Then(<<>>))) /\ UNCHANGED <<phase, parent, items>>
    <2>1. /\ frames' \in Seq(Frame)
          /\ errors' = errors + 1 /\ aborting' = Aborts(Error("op", errors + 1))
          /\ UNCHANGED <<outcome, caught, token>>
          /\ \E f \in CleanupFrames :
               /\ Rebased(frames, frames', Depth, f)
               /\ f.reason = Top.reason /\ f.after = Top.after
               /\ Follows(Top.actions, f.actions, 1, <<>>)
               /\ \E c \in CleanupFrames : /\ f = Survives(c, Error("op", errors + 1))
                                           /\ c.error = Top.error
      BY <1>1, <1>6, RetainsIs
    <2>2. UNCHANGED producing BY <1>6, <2>1 DEF producing
    <2>3. Passing BY <1>1, <1>2, <1>3, <1>4, <2>1, <2>2 DEF Passing
    <2>4. QED BY <2>1, <2>3
  <1>7. QED BY <1>5, <1>6 DEF CheckUnit

LEMMA CloseKeysIs ==
  ASSUME ShapeInv, CloseKeys
  PROVE  Passing /\ frames' \in Seq(Frame)
  <1>1. Doing("close") /\ UNCHANGED <<resources, stops, releases>> /\ live' = live \ On
    BY DEF CloseKeys
  <1>2. Top \in CleanupFrames /\ Top.actions # <<>> /\ Top.actions[1].do = "close"
        /\ On = Top.actions[1].on
    BY <1>1, TopCleanup
  <1>3. Top.actions[1].do # "producer" BY <1>2
  <1>4. live' = live \ Top.actions[1].on BY <1>1, <1>2
  <1>5. CASE frames' = Replaced(Then(<<>>)) /\ UNCHANGED <<producing, ending, errors>>
    <2> DEFINE f == Then(<<>>)
    <2>1. /\ f \in CleanupFrames /\ Continues(f, 1, <<>>)
          /\ frames' \in Seq(Frame) /\ Rebased(frames, frames', Depth, f)
      BY <1>1, <1>5, PassesOn
    <2> HIDE DEF f
    <2>2. /\ f.reason = Top.reason /\ f.after = Top.after /\ f.error = Top.error
          /\ Follows(Top.actions, f.actions, 1, <<>>)
      BY <2>1 DEF Continues
    <2>3. UNCHANGED <<producing, outcome, caught, aborting, errors>> BY <1>5 DEF ending
    <2>4. Passing BY <1>1, <1>2, <1>4, <2>1, <2>2, <2>3 DEF Passing
    <2>5. QED BY <2>1, <2>4
  <1>6. CASE Raises(Replaced(Then(<<>>))) /\ UNCHANGED <<phase, parent, items>>
    <2>1. /\ frames' \in Seq(Frame)
          /\ errors' = errors + 1 /\ aborting' = Aborts(Error("op", errors + 1))
          /\ UNCHANGED <<outcome, caught, token>>
          /\ \E f \in CleanupFrames :
               /\ Rebased(frames, frames', Depth, f)
               /\ f.reason = Top.reason /\ f.after = Top.after
               /\ Follows(Top.actions, f.actions, 1, <<>>)
               /\ \E c \in CleanupFrames : /\ f = Survives(c, Error("op", errors + 1))
                                           /\ c.error = Top.error
      BY <1>1, <1>6, RetainsIs
    <2>2. UNCHANGED producing BY <1>6, <2>1 DEF producing
    <2>3. Passing BY <1>1, <1>2, <1>3, <1>4, <2>1, <2>2 DEF Passing
    <2>4. QED BY <2>1, <2>3
  <1>7. QED BY <1>5, <1>6 DEF CloseKeys

\* A stack that fails.
LEMMA FailsIs ==
  ASSUME ShapeInv, NEW m \in Nat \ {0}, m <= Depth, NEW fs \in Seq(Frame),
         Rebased(frames, fs, m, frames[m]),
         NEW error \in Errors, error.kind \in {"op", "cancel", "exit"}, Fail(fs, error)
  PROVE  /\ Deferred(fs, error) \/ Unwound(fs, error) \/ Returned(fs, error)
            \/ GivenUp(fs, error)
         /\ frames' \in Seq(Frame)
  <1>1. Len(fs) = m /\ fs[1] = frames[1] BY DEF Rebased
  <1>2. fs # <<>> BY <1>1, EmptySeq
  <1>3. frames \in Seq(Frame) /\ Depth \in Nat BY LenProperties DEF ShapeInv, TypeInv, Depth
  <1>4. frames # <<>> BY <1>3, EmptySeq DEF Depth
  <1>5. Bottom(frames[1]) BY <1>4 DEF ShapeInv, Stacked
  <1>6. ~IsAttempt(fs[1]) BY <1>1, <1>5 DEF Bottom, IsAttempt
  <1>7. Deferred(fs, error) \/ Unwound(fs, error) \/ Returned(fs, error) \/ GivenUp(fs, error)
    BY <1>2, <1>6, Failing DEF ShapeInv
  <1>8. frames' \in Seq(Frame)
    <2>1. Deferred(fs, error) => frames' \in Seq(Frame) BY DEF Deferred
    <2>2. Unwound(fs, error) => frames' \in Seq(Frame) BY DEF Unwound
    <2>3. Returned(fs, error) => frames' \in Seq(Frame) BY DEF Returned
    <2>4. GivenUp(fs, error) => frames' \in Seq(Frame) BY EmptySeq DEF GivenUp
    <2>5. QED BY <1>7, <2>1, <2>2, <2>3, <2>4
  <1>9. QED BY <1>7, <1>8

LEMMA RaiseIs ==
  ASSUME ShapeInv, Running, Top.kind # "cleanup", Raises(frames),
         UNCHANGED <<phase, parent, items, opening, stops, releases>>
  PROVE  Failed /\ frames' \in Seq(Frame)
  <1> DEFINE error == Error("op", errors + 1)
  <1>1. /\ errors' = errors + 1 /\ error \in Errors /\ error.kind = "op" /\ Fail(frames, error)
    BY RaisedIs
  <1> HIDE DEF error
  <1>2. PICK n \in Nat \ {0} : n = Depth BY OnStack
  <1>3. frames \in Seq(Frame) /\ Rebased(frames, frames, n, frames[n])
    BY <1>2 DEF ShapeInv, TypeInv, Rebased, Depth
  <1>4. error.kind \in {"op", "cancel", "exit"} BY <1>1
  <1>5. /\ Deferred(frames, error) \/ Unwound(frames, error) \/ Returned(frames, error)
           \/ GivenUp(frames, error)
        /\ frames' \in Seq(Frame)
    BY <1>1, <1>2, <1>3, <1>4, FailsIs
  <1>6. Failed
    <2>1. n <= Depth /\ n = Depth BY <1>2
    <2>2. error = Error("op", errors + 1) /\ stops' = stops BY DEF error
    <2>3. UNCHANGED <<phase, parent, items, opening, releases>> OBVIOUS
    <2>4. \E m \in Nat \ {0}, e \in Errors, fs \in Seq(Frame) :
            /\ m <= Depth /\ Rebased(frames, fs, m, frames[m])
            /\ Deferred(fs, e) \/ Unwound(fs, e) \/ Returned(fs, e) \/ GivenUp(fs, e)
            /\ m = Depth /\ fs = frames /\ e = Error("op", errors + 1)
            /\ errors' = errors + 1 /\ stops' = stops /\ Top.kind # "cleanup"
      BY <1>1, <1>3, <1>5, <2>1, <2>2
    <2>5. QED BY <2>3, <2>4 DEF Failed
  <1>7. QED BY <1>5, <1>6

LEMMA CleanupEndsIs ==
  ASSUME ShapeInv, CleanupEnds
  PROVE  ((Minor /\ frames' = Below(frames)) \/ Failed) /\ frames' \in Seq(Frame)
  <1>1. /\ Running /\ Top.kind = "cleanup" /\ Top.actions = <<>>
        /\ UNCHANGED <<phase, parent, items, opening, errors, stops, releases>>
    BY DEF CleanupEnds, OnTop
  <1>2. PICK n \in Nat \ {0} :
           /\ n = Depth /\ Top \in Frame /\ (n = 1 => Bottom(Top))
           /\ n > 1 => /\ Caller = frames[n - 1] /\ Caller \in Frame /\ Above(Caller, Top)
                       /\ Below(frames) \in Seq(Frame)
                       /\ Rebased(frames, Below(frames), n - 1, Caller)
    BY <1>1, OnStack
  <1>3. n > 1 /\ n - 1 \in Nat \ {0} BY <1>1, <1>2 DEF Bottom
  <1>4. Top \in CleanupFrames BY <1>1, <1>2, FrameKinds
  <1>5. Top.error \in Causes BY <1>4, CleanupFields
  <1>6. CASE Top.error.kind = "none" /\ frames' = Below(frames) /\ UNCHANGED <<ending, token>>
    <2>1. Top.after # "unwind" BY <1>1, <1>2, <1>3, <1>6 DEF Above
    <2>2. Still BY <1>1, <1>6 DEF Still, producing
    <2>3. Alike(frames[n - 1], Caller) BY <1>2, <1>3, SameAlike
    <2>4. Depth <= n - 1 + 1 BY <1>2
    <2>5. Minor BY <1>1, <1>2, <1>3, <1>6, <2>1, <2>2, <2>3, <2>4, Minors
    <2>6. QED BY <1>2, <1>3, <1>6, <2>5
  <1>7. CASE Top.error.kind # "none" /\ Fail(Below(frames), Top.error)
    <2> DEFINE fs == Below(frames)
               error == Top.error
    <2>1. error \in Errors /\ error.kind \in {"op", "cancel", "exit"}
      BY <1>5, <1>7 DEF Causes, Errors
    <2>2. fs \in Seq(Frame) /\ Rebased(frames, fs, n - 1, frames[n - 1]) BY <1>2, <1>3
    <2>3. Fail(fs, error) BY <1>7
    <2> HIDE DEF fs, error
    <2>4. n - 1 <= Depth /\ n - 1 + 1 = Depth BY <1>2
    <2>5. /\ Deferred(fs, error) \/ Unwound(fs, error) \/ Returned(fs, error)
             \/ GivenUp(fs, error)
          /\ frames' \in Seq(Frame)
      BY <1>3, <2>1, <2>2, <2>3, <2>4, FailsIs
    <2>6. error = Top.error BY DEF error
    <2>7. \E m \in Nat \ {0}, e \in Errors, gs \in Seq(Frame) :
            /\ m <= Depth /\ Rebased(frames, gs, m, frames[m])
            /\ Deferred(gs, e) \/ Unwound(gs, e) \/ Returned(gs, e) \/ GivenUp(gs, e)
            /\ m + 1 = Depth /\ Top \in CleanupFrames /\ Top.actions = <<>>
            /\ e = Top.error /\ e.kind \in {"op", "cancel", "exit"}
            /\ errors' = errors /\ stops' = stops
      BY <1>1, <1>3, <1>4, <2>1, <2>2, <2>4, <2>5, <2>6
    <2>8. Failed BY <1>1, <2>7 DEF Failed
    <2>9. QED BY <2>5, <2>8
  <1>8. QED BY <1>6, <1>7 DEF CleanupEnds

LEMMA StopIs ==
  ASSUME ShapeInv, NEW kind \in {"cancel", "exit"}, Stop(kind)
  PROVE  (Interrupting \/ Failed) /\ frames' \in Seq(Frame)
  <1>1. /\ Running /\ UNCHANGED <<phase, parent, items, opening, errors, releases>>
        /\ stops' = Append(stops, kind)
    BY DEF Stop
  <1>2. PICK n \in Nat \ {0} :
          n = Depth /\ DOMAIN frames = 1..n /\ (\A i \in 1..n : frames[i] \in Frame)
    BY <1>1, OnStack
  <1>3. frames \in Seq(Frame) BY DEF ShapeInv, TypeInv
  <1>4. CASE /\ Cleanups(frames) # {}
             /\ frames' = [frames EXCEPT ![Min(Cleanups(frames))] = Interrupted(@, kind)]
             /\ aborting' = TRUE
             /\ UNCHANGED <<outcome, caught, token>>
    <2>1. Cleanups(frames) \subseteq Nat BY <1>2 DEF Cleanups
    <2>2. PICK i \in Cleanups(frames) :
            i = Min(Cleanups(frames)) /\ \A j \in Cleanups(frames) : i <= j
      BY <1>4, <2>1, MinOf
    <2>3. i \in 1..n /\ frames[i] \in CleanupFrames BY <1>2, FrameKinds DEF Cleanups
    <2> DEFINE g == Interrupted(frames[i], kind)
    <2>4. g \in Frame BY <2>3, InterruptedIs, KindFrames
    <2>5. frames' = [frames EXCEPT ![i] = g] BY <1>4, <2>2
    <2> HIDE DEF g
    <2>6. frames' \in Seq(Frame) BY <1>2, <1>3, <2>3, <2>4, <2>5, ExceptSeq DEF Depth
    <2>7. UNCHANGED <<producing, opening, outcome, caught, errors, releases>>
      BY <1>1, <1>4 DEF producing
    <2>8. Interrupting BY <1>1, <1>4, <2>2, <2>5, <2>7 DEF Interrupting, g
    <2>9. QED BY <2>6, <2>8
  <1>5. CASE Cleanups(frames) = {} /\ Fail(frames, Error(kind, 0))
    <2> DEFINE error == Error(kind, 0)
    <2>1. error \in Errors /\ error.kind \in {"op", "cancel", "exit"}
          /\ error.kind \in {"cancel", "exit"}
          /\ error.kind = kind /\ error = Error(error.kind, 0)
      BY ErrorIs, Bounds DEF Error
    <2>2. Rebased(frames, frames, n, frames[n]) BY <1>2 DEF Rebased, Depth
    <2>3. Fail(frames, error) /\ n <= Depth /\ n = Depth BY <1>2, <1>5
    <2> HIDE DEF error
    <2>4. /\ Deferred(frames, error) \/ Unwound(frames, error) \/ Returned(frames, error)
             \/ GivenUp(frames, error)
          /\ frames' \in Seq(Frame)
      BY <1>3, <2>1, <2>2, <2>3, FailsIs
    <2>5. \E m \in Nat \ {0}, e \in Errors, fs \in Seq(Frame) :
            /\ m <= Depth /\ Rebased(frames, fs, m, frames[m])
            /\ Deferred(fs, e) \/ Unwound(fs, e) \/ Returned(fs, e) \/ GivenUp(fs, e)
            /\ m = Depth /\ fs = frames /\ Cleanups(frames) = {}
            /\ e.kind \in {"cancel", "exit"}
            /\ e = Error(e.kind, 0) /\ errors' = errors /\ stops' = Append(stops, e.kind)
      BY <1>1, <1>3, <1>5, <2>1, <2>2, <2>3, <2>4
    <2>6. Failed BY <1>1, <2>5 DEF Failed
    <2>7. QED BY <2>4, <2>6
  <1>6. QED BY <1>4, <1>5 DEF Stop

\* Every step is of one of the kinds.
LEMMA StepIs ==
  ASSUME ShapeInv, [Next]_vars
  PROVE  Kinds /\ frames' \in Seq(Frame)
  <1>1. frames \in Seq(Frame) BY DEF ShapeInv, TypeInv
  <1>2. CASE Produce
    <2>1. frames' = frames BY <1>2 DEF Produce
    <2>2. QED BY <1>1, <1>2, <2>1 DEF Kinds
  <1>3. CASE Open
    <2>1. frames' = frames BY <1>3 DEF Open
    <2>2. QED BY <1>1, <1>3, <2>1 DEF Kinds
  <1>4. CASE Raise \/ UnconsumedStream \/ TaskRaises
    <2>1. Running /\ Top.kind # "cleanup" /\ Raises(frames)
          /\ UNCHANGED <<phase, parent, items, opening, stops, releases>>
      BY <1>4 DEF Raise, UnconsumedStream, TaskRaises, Coding, OnTop, Stage
    <2>2. QED BY <2>1, RaiseIs DEF Kinds
  <1>5. CASE AttemptReturns \/ Done \/ Released BY <1>5, ReturnsAreMinor DEF Kinds
  <1>6. CASE StatementEnds BY <1>6, StatementIsMinor DEF Kinds
  <1>7. CASE Listed BY <1>7, ListedIsMinor DEF Kinds
  <1>8. CASE Continued BY <1>8, ContinuedIsMinor DEF Kinds
  <1>9. CASE Stopped BY <1>9, StoppedIsMinor DEF Kinds
  <1>10. CASE SourceEnds BY <1>10, SourceEndsIs DEF Kinds
  <1>11. CASE Settle BY <1>11, SettleIs DEF Kinds
  <1>12. CASE Consumes BY <1>12, ConsumesIs DEF Kinds
  <1>13. CASE Attempt BY <1>13, AttemptIs DEF Kinds
  <1>14. CASE Consume BY <1>14, ConsumeIs DEF Kinds
  <1>15. CASE Boundary BY <1>15, BoundaryIs DEF Kinds
  <1>16. CASE Pull BY <1>16, PullIs DEF Kinds
  <1>17. CASE Acquired BY <1>17, AcquiredIs DEF Kinds
  <1>18. CASE Yielded BY <1>18, YieldedIs DEF Kinds
  <1>19. CASE Exhausted BY <1>19, ExhaustedIs DEF Kinds
  <1>20. CASE Opened BY <1>20, OpenedIs DEF Kinds
  <1>21. CASE CloseProducer BY <1>21, CloseProducerIs DEF Kinds
  <1>22. CASE ApplyReason BY <1>22, ApplyReasonIs DEF Kinds
  <1>23. CASE CheckUnit BY <1>23, CheckUnitIs DEF Kinds
  <1>24. CASE CloseScope BY <1>24, CloseScopeIs DEF Kinds
  <1>25. CASE CloseKeys BY <1>25, CloseKeysIs DEF Kinds
  <1>26. CASE Finish BY <1>26, FinishIs DEF Kinds
  <1>27. CASE CleanupEnds BY <1>27, CleanupEndsIs DEF Kinds
  <1>28. CASE \E kind \in {"cancel", "exit"} : Stop(kind) BY <1>28, StopIs DEF Kinds
  <1>29. CASE UNCHANGED vars
    <2>1. frames' = frames BY <1>29 DEF vars
    <2>2. QED BY <1>1, <1>29, <2>1 DEF Kinds
  <1>30. CASE Finished
    <2>1. UNCHANGED vars BY <1>30 DEF Finished
    <2>2. QED BY <1>29, <2>1
  <1>31. QED
    BY <1>2, <1>3, <1>4, <1>5, <1>6, <1>7, <1>8, <1>9, <1>10, <1>11, <1>12, <1>13, <1>14,
       <1>15, <1>16, <1>17, <1>18, <1>19, <1>20, <1>21, <1>22, <1>23, <1>24, <1>25, <1>26,
       <1>27, <1>28, <1>29, <1>30
    DEF Next, Coded, Consumed, Cleaned, Stops

-----------------------------------------------------------------------------
(* What a step leaves of the stack.                                        *)

\* f is what has become of h.
Heir(h, f) ==
  /\ f.kind = h.kind
  /\ f.kind = "body" => /\ f.of = h.of /\ f.owner = h.owner /\ f.made = h.made
                        /\ f.job = h.job \/ (h.job = "entry" /\ f.job = "ended")
  /\ f.kind = "task" => f.owner = h.owner /\ h.graph \subseteq f.graph
  /\ f.kind = "cleanup" => /\ f.after = h.after
                           /\ h.error.kind # "none" => f.error.kind # "none"

LEMMA HeirIs ==
  ASSUME NEW h \in Frame
  PROVE  /\ Heir(h, h)
         /\ \A f \in Frame : Alike(h, f) => Heir(h, f)
  <1>1. Heir(h, h) BY DEF Heir
  <1>2. ASSUME NEW f \in Frame, Alike(h, f) PROVE Heir(h, f)
    <2>1. f.kind = h.kind BY <1>2 DEF Alike
    <2>2. CASE f.kind = "body"
      <3>1. h \in Bodies BY <2>1, <2>2, FrameKinds
      <3>2. [h EXCEPT !.job = "ended"].of = h.of /\ [h EXCEPT !.job = "ended"].owner = h.owner
            /\ [h EXCEPT !.job = "ended"].made = h.made
            /\ [h EXCEPT !.job = "ended"].job = "ended"
        BY <3>1 DEF Bodies
      <3>3. f = h \/ (h.job = "entry" /\ f = [h EXCEPT !.job = "ended"])
        BY <1>2, <2>2 DEF Alike
      <3>4. QED BY <2>1, <2>2, <3>2, <3>3 DEF Heir
    <2>3. CASE f.kind # "body" BY <1>2, <2>1, <2>3 DEF Heir, Alike
    <2>4. QED BY <2>2, <2>3
  <1>3. QED BY <1>1, <1>2

\* It stands where h stood.
LEMMA HeirStands ==
  ASSUME NEW h, NEW f, Heir(h, f)
  PROVE  /\ Bottom(h) => Bottom(f)
         /\ \A x : Above(x, h) => Above(x, f)
  <1>1. Bottom(h) => Bottom(f) BY DEF Heir, Bottom
  <1>2. ASSUME NEW x, Above(x, h) PROVE Above(x, f)
    <2>1. CASE f.kind = "body"
      <3>1. f.of = h.of /\ f.owner = h.owner /\ f.job = h.job /\ h.kind = "body"
        BY <1>2, <2>1 DEF Heir, Above
      <3>2. QED BY <1>2, <2>1, <3>1 DEF Above
    <2>2. CASE f.kind = "task"
      <3>1. f.owner = h.owner /\ h.kind = "task" BY <2>2 DEF Heir
      <3>2. QED BY <1>2, <2>2, <3>1 DEF Above
    <2>3. CASE f.kind = "cleanup"
      <3>1. f.after = h.after /\ h.kind = "cleanup"
            /\ (h.error.kind # "none" => f.error.kind # "none")
        BY <2>3 DEF Heir
      <3>2. QED BY <1>2, <2>3, <3>1 DEF Above
    <2>4. CASE f.kind \notin {"body", "task", "cleanup"} BY <2>4 DEF Above
    <2>5. QED BY <2>1, <2>2, <2>3, <2>4
  <1>3. QED BY <1>1, <1>2

LEMMA RebasedStack ==
  ASSUME NEW fs \in Seq(Frame), Stacked(fs), NEW gs \in Seq(Frame), NEW m, NEW f,
         Rebased(fs, gs, m, f), Heir(fs[m], f)
  PROVE  Stacked(gs) /\ \A i \in 1..m : Heir(fs[i], gs[i])
  <1>1. PICK n \in Nat : n = Len(fs) BY LenProperties
  <1>2. m \in 1..n /\ Len(gs) = m /\ gs[m] = f /\ \A i \in 1..m - 1 : gs[i] = fs[i]
    BY <1>1 DEF Rebased
  <1>3. \A i \in 1..n : fs[i] \in Frame BY <1>1, ElementOfSeq
  <1>4. \A i \in 1..m : Heir(fs[i], gs[i])
    <2> SUFFICES ASSUME NEW i \in 1..m PROVE Heir(fs[i], gs[i]) OBVIOUS
    <2>1. CASE i = m BY <1>2, <2>1
    <2>2. CASE i # m
      <3>1. i \in 1..m - 1 /\ i \in 1..n BY <1>1, <1>2, <2>2
      <3>2. gs[i] = fs[i] /\ fs[i] \in Frame BY <1>2, <1>3, <3>1
      <3>3. QED BY <3>2, HeirIs
    <2>3. QED BY <2>1, <2>2
  <1>5. Bottom(gs[1])
    <2>1. fs # <<>> BY <1>1, <1>2
    <2>2. Bottom(fs[1]) BY <2>1 DEF Stacked
    <2>3. Heir(fs[1], gs[1]) BY <1>2, <1>4
    <2>4. QED BY <2>2, <2>3, HeirStands
  <1>6. ASSUME NEW i \in 2..m PROVE Above(gs[i - 1], gs[i])
    <2>1. i \in 2..n /\ i - 1 \in 1..m - 1 /\ i \in 1..m BY <1>1, <1>2
    <2>2. Above(fs[i - 1], fs[i]) BY <1>1, <2>1 DEF Stacked
    <2>3. gs[i - 1] = fs[i - 1] BY <1>2, <2>1
    <2>4. Heir(fs[i], gs[i]) BY <1>4, <2>1
    <2>5. QED BY <2>2, <2>3, <2>4, HeirStands
  <1>7. QED BY <1>2, <1>4, <1>5, <1>6 DEF Stacked

LEMMA GrownStack ==
  ASSUME NEW fs \in Seq(Frame), Stacked(fs), NEW gs \in Seq(Frame), NEW m, NEW f, NEW g,
         Grown(fs, gs, m, f, g), Heir(fs[m], f), Above(f, g)
  PROVE  Stacked(gs) /\ \A i \in 1..m : Heir(fs[i], gs[i])
  <1>1. PICK n \in Nat : n = Len(fs) BY LenProperties
  <1>2. /\ m \in 1..n /\ Len(gs) = m + 1 /\ gs[m] = f /\ gs[m + 1] = g
        /\ \A i \in 1..m - 1 : gs[i] = fs[i]
    BY <1>1 DEF Grown
  <1> DEFINE hs == SubSeq(gs, 1, m)
  <1>3. /\ hs \in Seq(Frame) /\ Len(hs) = m /\ hs[m] = gs[m]
        /\ \A i \in 1..m - 1 : hs[i] = gs[i]
    <2>1. m \in 1..Len(gs) BY <1>2
    <2>2. hs \in Seq(Frame) /\ Rebased(gs, hs, m, gs[m]) BY <2>1, CutSeq
    <2> HIDE DEF hs
    <2>3. QED BY <2>2 DEF Rebased
  <1> HIDE DEF hs
  <1>4. Rebased(fs, hs, m, f) BY <1>1, <1>2, <1>3 DEF Rebased
  <1>5. Stacked(hs) /\ \A i \in 1..m : Heir(fs[i], hs[i]) BY <1>3, <1>4, RebasedStack
  <1>6. \A i \in 1..m : hs[i] = gs[i]
    <2> SUFFICES ASSUME NEW i \in 1..m PROVE hs[i] = gs[i] OBVIOUS
    <2>1. i = m \/ i \in 1..m - 1 BY <1>2
    <2>2. QED BY <1>3, <2>1
  <1>7. ASSUME NEW i \in 2..m + 1 PROVE Above(gs[i - 1], gs[i])
    <2>1. CASE i = m + 1
      <3>1. i - 1 = m BY <1>2, <2>1
      <3>2. gs[i - 1] = f /\ gs[i] = g BY <1>2, <2>1, <3>1
      <3>3. QED BY <3>2
    <2>2. CASE i # m + 1
      <3>1. i \in 2..m /\ i - 1 \in 1..m /\ i \in 1..m BY <1>2, <2>2
      <3>2. Above(hs[i - 1], hs[i]) BY <1>3, <1>5, <3>1 DEF Stacked
      <3>3. QED BY <1>6, <3>1, <3>2
    <2>3. QED BY <2>1, <2>2
  <1>8. Bottom(gs[1])
    <2>1. 1 \in 1..m /\ m >= 1 BY <1>2
    <2>2. hs # <<>> BY <1>3, <2>1
    <2>3. QED BY <1>5, <1>6, <2>1, <2>2 DEF Stacked
  <1>9. \A i \in 1..m : Heir(fs[i], gs[i]) BY <1>5, <1>6
  <1>10. QED BY <1>2, <1>7, <1>8, <1>9 DEF Stacked

LEMMA Prefix ==
  ASSUME NEW fs \in Seq(Frame), NEW j \in 1..Len(fs)
  PROVE  /\ SubSeq(fs, 1, j - 1) \in Seq(Frame)
         /\ DOMAIN SubSeq(fs, 1, j - 1) = 1..j - 1
         /\ \A i \in 1..j - 1 : SubSeq(fs, 1, j - 1)[i] = fs[i]
  <1>1. Len(fs) \in Nat /\ j \in Int /\ j - 1 \in Int /\ j >= 1 /\ j <= Len(fs)
    BY LenProperties
  <1>2. \A i \in 1..j - 1 : fs[i] \in Frame BY <1>1, ElementOfSeq
  <1> DEFINE b == SubSeq(fs, 1, j - 1)
  <1>3. /\ b \in Seq(Frame) /\ Len(b) = IF 1 <= j - 1 THEN (j - 1) - 1 + 1 ELSE 0
        /\ \A i \in 1..(j - 1) - 1 + 1 : b[i] = fs[1 + i - 1]
    BY <1>1, <1>2, SubSeqProperties
  <1> HIDE DEF b
  <1>4. DOMAIN b = 1..Len(b) BY <1>3, LenProperties
  <1>5. b \in Seq(Frame) /\ DOMAIN b = 1..j - 1 /\ \A i \in 1..j - 1 : b[i] = fs[i]
    BY <1>1, <1>3, <1>4
  <1>6. QED BY <1>5 DEF b

\* A frame that an unwinding cleanup is about to discard stays one, whether that
\* cleanup is still there or another one discards the frame.
LEMMA DoomedStays ==
  ASSUME frames \in Seq(Frame), frames' \in Seq(Frame), aborting \in BOOLEAN,
         aborting' \in BOOLEAN, aborting => aborting',
         NEW n \in 1..Depth, Len(frames') \in {n, n + 1},
         \A i \in 1..n : Heir(frames[i], frames'[i]),
         NEW i \in 1..n, Doomed(i),
         \A j \in n + 1..Depth :
           frames[j].kind = "cleanup" /\ frames[j].after = "unwind"
             /\ Checkpoint(SubSeq(frames, 1, j - 1), aborting) < i => Doomed(i)'
  PROVE  Doomed(i)'
  <1>1. PICK d \in Nat : d = Len(frames) /\ d = Depth BY LenProperties DEF Depth
  <1>2. PICK e \in Nat : e = Len(frames') BY LenProperties
  <1>3. PICK j \in i + 1..d : /\ frames[j].kind = "cleanup" /\ frames[j].after = "unwind"
                              /\ Checkpoint(SubSeq(frames, 1, j - 1), aborting) < i
    BY <1>1 DEF Doomed
  <1>4. CASE j \in n + 1..d BY <1>1, <1>3, <1>4
  <1>5. CASE j \notin n + 1..d
    <2>1. j \in 1..n /\ j \in 1..d /\ j \in 1..e /\ j \in i + 1..e /\ n \in 1..d
      BY <1>1, <1>2, <1>3, <1>5
    <2> DEFINE b == SubSeq(frames, 1, j - 1)
               c == SubSeq(frames', 1, j - 1)
    <2>2. /\ b \in Seq(Frame) /\ DOMAIN b = 1..j - 1
          /\ \A k \in 1..j - 1 : b[k] = frames[k]
      BY <1>1, <2>1, Prefix
    <2>3. /\ c \in Seq(Frame) /\ DOMAIN c = 1..j - 1
          /\ \A k \in 1..j - 1 : c[k] = frames'[k]
      BY <1>2, <2>1, Prefix
    <2> HIDE DEF b, c
    <2>4. \A k \in 1..j - 1 : b[k].kind = c[k].kind /\ (IsAttempt(b[k]) <=> IsAttempt(c[k]))
      <3> SUFFICES ASSUME NEW k \in 1..j - 1
                   PROVE  b[k].kind = c[k].kind /\ (IsAttempt(b[k]) <=> IsAttempt(c[k]))
        OBVIOUS
      <3>1. k \in 1..n BY <2>1
      <3>2. Heir(b[k], c[k]) BY <2>2, <2>3, <3>1
      <3>3. QED BY <3>2 DEF Heir, IsAttempt
    <2>5. /\ Checkpoint(b, aborting) = Checkpoint(c, aborting)
      BY <2>2, <2>3, <2>4, SameCheckpoint
    <2>6. Checkpoint(c, aborting') <= Checkpoint(c, aborting)
      <3>1. CASE aborting' = aborting
        <4>1. Checkpoint(c, aborting) \in 0..Len(c) BY <2>3, CheckpointIs
        <4>2. Checkpoint(c, aborting) \in Int /\ Checkpoint(c, aborting) <= Checkpoint(c, aborting)
          BY <2>3, <4>1, LenProperties
        <4>3. QED BY <3>1, <4>2
      <3>2. CASE aborting' # aborting
        <4>1. aborting = FALSE /\ aborting' = TRUE BY <3>2
        <4>2. Checkpoint(c, TRUE) <= Checkpoint(c, aborting) BY <2>3, CheckpointIs
        <4>3. QED BY <4>1, <4>2
      <3>3. QED BY <3>1, <3>2
    <2>7. Checkpoint(c, aborting) \in Int /\ Checkpoint(c, aborting') \in Int
      <3>1. Checkpoint(c, aborting) \in 0..Len(c) /\ Checkpoint(c, aborting') \in 0..Len(c)
        BY <2>3, CheckpointIs
      <3>2. Len(c) \in Nat BY <2>3, LenProperties
      <3>3. QED BY <3>1, <3>2
    <2>8. Checkpoint(c, aborting') < i
      <3>1. Checkpoint(b, aborting) < i BY <1>3 DEF b
      <3>2. i \in Int BY <1>1
      <3>3. QED BY <2>5, <2>6, <2>7, <3>1, <3>2
    <2>9. frames'[j].kind = "cleanup" /\ frames'[j].after = "unwind"
      BY <1>3, <2>1 DEF Heir
    <2>10. QED BY <1>2, <2>1, <2>8, <2>9 DEF Doomed, c
  <1>6. QED BY <1>4, <1>5

\* The first n frames go on, the others are gone, and at most one is new.
Stands(n) ==
  /\ Stacked(frames')
  /\ n \in 1..Depth /\ Len(frames') \in {n, n + 1}
  /\ \A i \in 1..n : Heir(frames[i], frames'[i]) /\ (Doomed(i) => Doomed(i)')
  /\ \A i \in n + 1..Depth : frames[i].kind = "cleanup" => frames[i].actions = <<>>

Aborting == aborting' \in BOOLEAN /\ (aborting => aborting')

LEMMA RebasedStands ==
  ASSUME ShapeInv, frames' \in Seq(Frame), Aborting, NEW m, NEW f,
         Rebased(frames, frames', m, f), Heir(frames[m], f),
         \A i \in m + 1..Depth : frames[i].kind = "cleanup" =>
           frames[i].after # "unwind" /\ frames[i].actions = <<>>
  PROVE  Stands(m) /\ Len(frames') = m /\ frames'[m] = f
         /\ \A i \in 1..m - 1 : frames'[i] = frames[i]
  <1>1. frames \in Seq(Frame) /\ Stacked(frames) /\ aborting \in BOOLEAN
    BY DEF ShapeInv, TypeInv, VarInv
  <1>2. m \in 1..Depth /\ Len(frames') = m /\ frames'[m] = f
        /\ \A i \in 1..m - 1 : frames'[i] = frames[i]
    BY DEF Rebased, Depth
  <1>3. Stacked(frames') /\ \A i \in 1..m : Heir(frames[i], frames'[i])
    BY <1>1, RebasedStack
  <1>4. \A i \in 1..m : Doomed(i) => Doomed(i)'
    <2> SUFFICES ASSUME NEW i \in 1..m, Doomed(i) PROVE Doomed(i)' OBVIOUS
    <2>1. Len(frames') \in {m, m + 1} BY <1>2
    <2>2. aborting' \in BOOLEAN /\ (aborting => aborting') BY DEF Aborting
    <2>3. QED BY <1>1, <1>2, <1>3, <2>1, <2>2, DoomedStays
  <1>5. QED BY <1>2, <1>3, <1>4 DEF Stands

LEMMA GrownStands ==
  ASSUME ShapeInv, frames' \in Seq(Frame), Aborting, NEW m, NEW f, NEW g,
         Grown(frames, frames', m, f, g), Heir(frames[m], f), Above(f, g),
         \A i \in m + 1..Depth : frames[i].kind = "cleanup" =>
           frames[i].after # "unwind" /\ frames[i].actions = <<>>
  PROVE  Stands(m) /\ Len(frames') = m + 1 /\ frames'[m] = f /\ frames'[m + 1] = g
         /\ \A i \in 1..m - 1 : frames'[i] = frames[i]
  <1>1. frames \in Seq(Frame) /\ Stacked(frames) /\ aborting \in BOOLEAN
    BY DEF ShapeInv, TypeInv, VarInv
  <1>2. m \in 1..Depth /\ Len(frames') = m + 1 /\ frames'[m] = f /\ frames'[m + 1] = g
        /\ \A i \in 1..m - 1 : frames'[i] = frames[i]
    BY DEF Grown, Depth
  <1>3. Stacked(frames') /\ \A i \in 1..m : Heir(frames[i], frames'[i])
    BY <1>1, GrownStack
  <1>4. \A i \in 1..m : Doomed(i) => Doomed(i)'
    <2> SUFFICES ASSUME NEW i \in 1..m, Doomed(i) PROVE Doomed(i)' OBVIOUS
    <2>1. Len(frames') \in {m, m + 1} BY <1>2
    <2>2. aborting' \in BOOLEAN /\ (aborting => aborting') BY DEF Aborting
    <2>3. QED BY <1>1, <1>2, <1>3, <2>1, <2>2, DoomedStays
  <1>5. QED BY <1>2, <1>3, <1>4 DEF Stands

\* The frame on top, and that nothing is above it.
LEMMA TopIs ==
  ASSUME ShapeInv, Running
  PROVE  /\ Depth \in Nat \ {0} /\ Top = frames[Depth] /\ Top \in Frame
         /\ \A i \in 1..Depth : frames[i] \in Frame
         /\ Depth = Len(frames) /\ DOMAIN frames = 1..Depth
         /\ Depth > 1 => Caller = frames[Depth - 1] /\ Above(Caller, Top)
         /\ Depth = 1 => Bottom(Top)
  BY OnStack DEF Depth

LEMMA StillAborting ==
  ASSUME ShapeInv, aborting' = aborting
  PROVE  Aborting
  BY DEF Aborting, ShapeInv, TypeInv, VarInv

\* The frames below the one at n are the same.
Same(n) == \A i \in 1..n - 1 : frames'[i] = frames[i]

LEMMA MinorStands ==
  ASSUME ShapeInv, Minor, frames' \in Seq(Frame)
  PROVE  \E n \in Nat : /\ Stands(n) /\ Len(frames') = n /\ Same(n)
                        /\ Alike(frames[n], frames'[n])
                        /\ \A i \in n + 1..Depth : frames[i].kind = "cleanup" =>
                             frames[i].error.kind = "none"
  <1>1. PICK m \in Nat, f \in Frame :
          /\ Rebased(frames, frames', m, f) /\ Alike(frames[m], f)
          /\ \A i \in m + 1..Depth : frames[i].kind = "cleanup" =>
               frames[i].after # "unwind" /\ frames[i].actions = <<>> /\ frames[i].error.kind = "none"
    BY DEF Minor
  <1>2. Aborting BY StillAborting DEF Minor, Still, ending
  <1>3. frames[m] \in Frame
    <2>1. m \in 1..Len(frames) BY <1>1 DEF Rebased
    <2>2. QED BY <2>1, ElementOfSeq DEF ShapeInv, TypeInv
  <1>4. Heir(frames[m], f) BY <1>1, <1>3, HeirIs
  <1>5. Stands(m) /\ Len(frames') = m /\ frames'[m] = f
        /\ \A i \in 1..m - 1 : frames'[i] = frames[i]
    BY <1>1, <1>2, <1>4, RebasedStands
  <1>6. QED BY <1>1, <1>5 DEF Same

\* A new frame on the running one, which may itself have moved on.
LEMMA PushedStands ==
  ASSUME ShapeInv, Running, frames' \in Seq(Frame), Aborting, NEW f \in Frame, NEW g,
         Grown(frames, frames', Depth, f, g), Heir(Top, f), Above(f, g)
  PROVE  /\ Stands(Depth) /\ Len(frames') = Depth + 1 /\ Same(Depth)
         /\ frames'[Depth] = f /\ frames'[Depth + 1] = g
  <1>1. Depth \in Nat \ {0} /\ Top = frames[Depth] BY TopIs
  <1>2. \A i \in Depth + 1..Depth : FALSE BY <1>1
  <1>3. Stands(Depth) /\ Len(frames') = Depth + 1 /\ frames'[Depth] = f
        /\ frames'[Depth + 1] = g /\ \A i \in 1..Depth - 1 : frames'[i] = frames[i]
    BY <1>1, <1>2, GrownStands
  <1>4. QED BY <1>3 DEF Same

LEMMA ReplacedStands ==
  ASSUME ShapeInv, Running, frames' \in Seq(Frame), Aborting, NEW f \in Frame,
         Rebased(frames, frames', Depth, f), Heir(Top, f)
  PROVE  /\ Stands(Depth) /\ Len(frames') = Depth /\ Same(Depth) /\ frames'[Depth] = f
  <1>1. Depth \in Nat \ {0} /\ Top = frames[Depth] BY TopIs
  <1>2. \A i \in Depth + 1..Depth : FALSE BY <1>1
  <1>3. Stands(Depth) /\ Len(frames') = Depth /\ frames'[Depth] = f
        /\ \A i \in 1..Depth - 1 : frames'[i] = frames[i]
    BY <1>1, <1>2, RebasedStands
  <1>4. QED BY <1>3 DEF Same

\* A step that ends with a frame on the running one, or in its place.
LEMMA OnRunning ==
  ASSUME ShapeInv, NEW f, NEW g,
         Grown(frames, frames', Depth, f, g) \/ Rebased(frames, frames', Depth, f)
  PROVE  Running /\ Depth \in Nat \ {0}
  <1>1. frames \in Seq(Frame) BY DEF ShapeInv, TypeInv
  <1>2. Depth \in 1..Depth BY DEF Grown, Rebased, Depth
  <1>3. Depth \in Nat BY <1>1, LenProperties DEF Depth
  <1>4. QED BY <1>1, <1>2, <1>3, EmptySeq DEF Depth, Running

LEMMA CallingStands ==
  ASSUME ShapeInv, Calling, frames' \in Seq(Frame)
  PROVE  /\ Running /\ Stands(Depth) /\ Len(frames') = Depth + 1 /\ Same(Depth)
         /\ Alike(Top, frames'[Depth]) /\ frames'[Depth + 1] \in Bodies
         /\ Enters(frames'[Depth + 1], {"attempt", "fold"}, Top.owner)
  <1>1. PICK f \in Frame, g \in Bodies :
          /\ Grown(frames, frames', Depth, f, g) /\ Alike(Top, f) /\ Above(f, g)
          /\ Enters(g, {"attempt", "fold"}, Top.owner)
    BY DEF Calling
  <1>2. Aborting BY StillAborting DEF Calling, Still, ending
  <1>3. Running BY <1>1, OnRunning
  <1>4. Heir(Top, f) BY <1>1, <1>3, TopIs, HeirIs
  <1>5. Stands(Depth) /\ Len(frames') = Depth + 1 /\ Same(Depth)
        /\ frames'[Depth] = f /\ frames'[Depth + 1] = g
    BY <1>1, <1>2, <1>3, <1>4, PushedStands
  <1>6. QED BY <1>1, <1>3, <1>5

LEMMA ShuttingStands ==
  ASSUME ShapeInv, Shutting, frames' \in Seq(Frame)
  PROVE  /\ Running /\ Stands(Depth) /\ Len(frames') = Depth + 1 /\ Same(Depth)
         /\ Alike(Top, frames'[Depth])
         /\ \E g \in CleanupFrames, S \in SUBSET Producer, keys \in SUBSET live :
              /\ frames'[Depth + 1] = g
              /\ g.after # "unwind" /\ g.error = None
              /\ Closes(g.actions, S, keys)
              /\ \/ Top.kind = "task" /\ S \subseteq Top.graph
                 \/ Top.kind = "body" /\ Top.job = "ended" /\ \A p \in S : Active(p)
  <1>1. PICK f \in Frame, g \in CleanupFrames, S \in SUBSET Producer, keys \in SUBSET live :
          /\ Grown(frames, frames', Depth, f, g) /\ Alike(Top, f) /\ Above(f, g)
          /\ g.after # "unwind" /\ g.error = None
          /\ Closes(g.actions, S, keys)
          /\ \/ Top.kind = "task" /\ S \subseteq Top.graph
             \/ Top.kind = "body" /\ Top.job = "ended" /\ \A p \in S : Active(p)
    BY DEF Shutting
  <1>2. Aborting BY StillAborting DEF Shutting
  <1>3. Running BY <1>1, OnRunning
  <1>4. Heir(Top, f) BY <1>1, <1>3, TopIs, HeirIs
  <1>5. g \in Frame BY DEF Frame
  <1>6. Stands(Depth) /\ Len(frames') = Depth + 1 /\ Same(Depth)
        /\ frames'[Depth] = f /\ frames'[Depth + 1] = g
    BY <1>1, <1>2, <1>3, <1>4, PushedStands
  <1>7. QED BY <1>1, <1>3, <1>6

LEMMA ConsumingStands ==
  ASSUME ShapeInv, Consuming, frames' \in Seq(Frame)
  PROVE  /\ Running /\ Stands(Depth) /\ Len(frames') = Depth + 1 /\ Same(Depth)
         /\ Top.kind = "body" /\ frames'[Depth] = Top /\ frames'[Depth + 1] \in TaskFrames
         /\ \E p \in Producer :
              /\ token[p] /\ parent[p] = Top.owner
              /\ frames'[Depth + 1].owner = Top.owner /\ frames'[Depth + 1].graph = {p}
              /\ token' = [token EXCEPT ![p] = FALSE]
  <1>1. PICK p \in Producer, g \in TaskFrames :
           /\ token[p] /\ parent[p] = Top.owner
           /\ Grown(frames, frames', Depth, Top, g)
           /\ g.owner = Top.owner /\ g.graph = {p}
           /\ token' = [token EXCEPT ![p] = FALSE]
    BY DEF Consuming
  <1>2. Aborting BY StillAborting DEF Consuming, ending
  <1>3. Running BY <1>1, OnRunning
  <1>4. Top \in Frame /\ Heir(Top, Top) BY <1>3, TopIs, HeirIs
  <1>5. Top.kind = "body" /\ Top.job # "ended" BY DEF Consuming, Coding, OnTop
  <1>6. Above(Top, g) BY <1>1, <1>5, TaskFields DEF Above
  <1>7. Stands(Depth) /\ Len(frames') = Depth + 1 /\ Same(Depth)
        /\ frames'[Depth] = Top /\ frames'[Depth + 1] = g
    BY <1>1, <1>2, <1>3, <1>4, <1>6, PushedStands
  <1>8. QED BY <1>1, <1>3, <1>5, <1>7

LEMMA EnteringStands ==
  ASSUME ShapeInv, Entering, frames' \in Seq(Frame)
  PROVE  /\ Running /\ Stands(Depth) /\ Len(frames') = Depth + 1 /\ Same(Depth)
         /\ Alike(Top, frames'[Depth]) /\ frames'[Depth] \in TaskFrames
         /\ \E p \in Top.graph, g \in Bodies :
              /\ frames'[Depth + 1] = g /\ g.of = p /\ frames'[Depth].from = p
              /\ frames'[Depth].at = g.job
              /\ Enters(g, {"acquire", "step"}, p)
              /\ phase[p] = IF g.job = "acquire" THEN "new" ELSE "ready"
              /\ phase' = [phase EXCEPT ![p] = IF g.job = "acquire" THEN "acquiring" ELSE "stepping"]
  <1>1. PICK p \in Top.graph, f \in TaskFrames, g \in Bodies :
          /\ Grown(frames, frames', Depth, f, g) /\ Alike(Top, f)
          /\ Enters(g, {"acquire", "step"}, p) /\ f.at = g.job /\ f.from = p /\ g.of = p
          /\ phase[p] = IF g.job = "acquire" THEN "new" ELSE "ready"
          /\ phase' = [phase EXCEPT ![p] = IF g.job = "acquire" THEN "acquiring" ELSE "stepping"]
    BY DEF Entering
  <1>2. Aborting BY StillAborting DEF Entering, ending
  <1>3. Running BY <1>1, OnRunning
  <1>4. f \in Frame /\ g.kind = "body" /\ f.kind = "task" BY BodyFields, TaskFields DEF Frame
  <1>5. Heir(Top, f) BY <1>1, <1>3, <1>4, TopIs, HeirIs
  <1>6. g.job \in {"acquire", "step"} BY <1>1 DEF Enters
  <1>7. Above(f, g) BY <1>1, <1>4, <1>6 DEF Above
  <1>8. Stands(Depth) /\ Len(frames') = Depth + 1 /\ Same(Depth)
        /\ frames'[Depth] = f /\ frames'[Depth + 1] = g
    BY <1>1, <1>2, <1>3, <1>4, <1>5, <1>7, PushedStands
  <1>9. QED BY <1>1, <1>3, <1>8

LEMMA AnsweringStands ==
  ASSUME ShapeInv, Answering, frames' \in Seq(Frame)
  PROVE  /\ Running /\ Depth > 1 /\ Stands(Depth - 1) /\ Len(frames') \in {Depth - 1, Depth}
         /\ Same(Depth - 1) /\ Caller = frames[Depth - 1] /\ Alike(Caller, frames'[Depth - 1])
         /\ \/ Len(frames') = Depth - 1
            \/ /\ Len(frames') = Depth /\ frames'[Depth] \in Bodies
               /\ Enters(frames'[Depth], {"transform"}, Caller.owner)
            \/ /\ Len(frames') = Depth /\ frames'[Depth] \in CleanupFrames
               /\ frames'[Depth].after # "unwind" /\ frames'[Depth].error = None
               /\ Closes(frames'[Depth].actions, {Top.of}, {})
  <1> DEFINE m == Depth - 1
  <1>1. PICK f \in TaskFrames :
       /\ Alike(Caller, f)
       /\ \/ Rebased(frames, frames', m, f)
          \/ \E g \in Bodies : /\ Grown(frames, frames', m, f, g) /\ Above(f, g)
                               /\ Enters(g, {"transform"}, Caller.owner)
          \/ \E g \in CleanupFrames :
               /\ Grown(frames, frames', m, f, g) /\ Above(f, g)
               /\ g.after # "unwind" /\ g.error = None
               /\ Closes(g.actions, {Top.of}, {})
    BY DEF Answering
  <1>2. Aborting BY StillAborting DEF Answering, ending
  <1>3. Depth > 1 /\ Top \in Bodies BY DEF Answering
  <1>4. m \in 1..Len(frames)
    BY <1>1 DEF Rebased, Grown
  <1>5. Running
    <2>1. frames \in Seq(Frame) BY DEF ShapeInv, TypeInv
    <2>2. QED BY <1>4, <2>1, EmptySeq, LenProperties DEF Running
  <1>6. Depth \in Nat \ {0} /\ Top = frames[Depth] /\ Caller = frames[m]
        /\ \A i \in 1..Depth : frames[i] \in Frame
    BY <1>3, <1>5, TopIs
  <1>7. Caller \in Frame /\ f \in Frame /\ m + 1 = Depth BY <1>3, <1>6 DEF Frame
  <1>8. Heir(frames[m], f) BY <1>1, <1>6, <1>7, HeirIs
  <1>9. \A i \in m + 1..Depth : frames[i].kind = "cleanup" =>
           frames[i].after # "unwind" /\ frames[i].actions = <<>>
    <2> SUFFICES ASSUME NEW i \in m + 1..Depth
                 PROVE  frames[i].kind # "cleanup"
      OBVIOUS
    <2>1. i = Depth BY <1>6, <1>7
    <2>2. QED BY <1>3, <1>6, <2>1, BodyFields
  <1>10. CASE Rebased(frames, frames', m, f)
    <2>1. Stands(m) /\ Len(frames') = m /\ frames'[m] = f
          /\ \A i \in 1..m - 1 : frames'[i] = frames[i]
      BY <1>2, <1>8, <1>9, <1>10, RebasedStands
    <2>2. QED BY <1>1, <1>3, <1>5, <1>6, <2>1 DEF Same
  <1>11. ASSUME NEW g, Grown(frames, frames', m, f, g), Above(f, g)
         PROVE  /\ Stands(m) /\ Len(frames') = Depth /\ frames'[m] = f /\ frames'[Depth] = g
                /\ Same(m)
    <2>1. Stands(m) /\ Len(frames') = m + 1 /\ frames'[m] = f /\ frames'[m + 1] = g
          /\ \A i \in 1..m - 1 : frames'[i] = frames[i]
      BY <1>2, <1>8, <1>9, <1>11, GrownStands
    <2>2. QED BY <1>7, <2>1 DEF Same
  <1>12. CASE \E g \in Bodies : /\ Grown(frames, frames', m, f, g) /\ Above(f, g)
                                /\ Enters(g, {"transform"}, Caller.owner)
    BY <1>1, <1>3, <1>5, <1>6, <1>11, <1>12
  <1>13. CASE \E g \in CleanupFrames :
               /\ Grown(frames, frames', m, f, g) /\ Above(f, g)
               /\ g.after # "unwind" /\ g.error = None
               /\ Closes(g.actions, {Top.of}, {})
    BY <1>1, <1>3, <1>5, <1>6, <1>11, <1>13
  <1>14. QED BY <1>1, <1>10, <1>12, <1>13

LEMMA JoiningStands ==
  ASSUME ShapeInv, Joining, frames' \in Seq(Frame)
  PROVE  /\ Running /\ Depth > 1 /\ Stands(Depth - 1) /\ Len(frames') = Depth - 1
         /\ Same(Depth - 1) /\ Caller = frames[Depth - 1]
         /\ Caller \in TaskFrames /\ frames'[Depth - 1] \in TaskFrames
         /\ \E q \in Producer :
              /\ token[q] /\ parent[q] = Caller.owner
              /\ frames'[Depth - 1].owner = Caller.owner
              /\ frames'[Depth - 1].graph = Caller.graph \cup {q}
              /\ token' = [token EXCEPT ![q] = FALSE]
  <1> DEFINE m == Depth - 1
  <1>1. PICK q \in Producer, f \in TaskFrames :
          /\ token[q] /\ parent[q] = Caller.owner
          /\ Rebased(frames, frames', m, f)
          /\ f.owner = Caller.owner /\ f.graph = Caller.graph \cup {q}
          /\ token' = [token EXCEPT ![q] = FALSE]
    BY DEF Joining
  <1>2. Aborting BY StillAborting DEF Joining, ending
  <1>3. Depth > 1 /\ Top \in Bodies /\ Caller \in TaskFrames BY DEF Joining
  <1>4. m \in 1..Len(frames) BY <1>1 DEF Rebased
  <1>5. Running
    <2>1. frames \in Seq(Frame) BY DEF ShapeInv, TypeInv
    <2>2. QED BY <1>4, <2>1, EmptySeq, LenProperties DEF Running
  <1>6. Depth \in Nat \ {0} /\ Top = frames[Depth] /\ Caller = frames[m]
    BY <1>3, <1>5, TopIs
  <1>7. Heir(frames[m], f) BY <1>1, <1>3, <1>6, TaskFields DEF Heir
  <1>8. \A i \in m + 1..Depth : frames[i].kind = "cleanup" =>
           frames[i].after # "unwind" /\ frames[i].actions = <<>>
    <2> SUFFICES ASSUME NEW i \in m + 1..Depth
                 PROVE  frames[i].kind # "cleanup"
      OBVIOUS
    <2>1. i = Depth BY <1>6
    <2>2. QED BY <1>3, <1>6, <2>1, BodyFields
  <1>9. Stands(m) /\ Len(frames') = m /\ frames'[m] = f
        /\ \A i \in 1..m - 1 : frames'[i] = frames[i]
    BY <1>1, <1>2, <1>7, <1>8, RebasedStands
  <1>10. QED BY <1>1, <1>3, <1>5, <1>6, <1>9 DEF Same

\* The cleanup on top goes on with its actions.
LEMMA ContinuesHeir ==
  ASSUME NEW f, NEW d, NEW x, Continues(f, d, x)
  PROVE  Heir(Top, f)
  BY CleanupFields DEF Continues, Heir

LEMMA BeginningStands ==
  ASSUME ShapeInv, Beginning, frames' \in Seq(Frame)
  PROVE  /\ Running /\ Stands(Depth) /\ Same(Depth) /\ Top \in CleanupFrames
         /\ Top.actions # <<>>
         /\ \E p \in Producer :
              /\ Top.actions[1] = Act("producer", p)
              /\ phase' = [phase EXCEPT ![p] = "closing"]
              /\ \/ /\ phase[p] \in {"ready", "stepping"} /\ Len(frames') = Depth + 1
                    /\ Continues(frames'[Depth], 1, <<Act("second", p), Act("check", p),
                                                      Act("scope", p), Act("finish", p)>>)
                    /\ frames'[Depth + 1] \in Bodies /\ frames'[Depth + 1].of = p
                    /\ Enters(frames'[Depth + 1], {"release"}, p)
                    /\ releases' = [releases EXCEPT ![p] = Append(@, items[p])]
                 \/ /\ phase[p] \in {"new", "acquiring"} /\ Len(frames') = Depth
                    /\ Continues(frames'[Depth], 1, <<Act("scope", p), Act("finish", p)>>)
                    /\ releases' = releases
  <1>1. PICK p \in Producer :
          /\ Top.actions[1] = Act("producer", p)
          /\ phase' = [phase EXCEPT ![p] = "closing"]
          /\ Releases(p) \/ Discards(p)
    BY DEF Beginning
  <1>2. Aborting BY StillAborting DEF Beginning, ending
  <1>3. Top \in CleanupFrames /\ Top.actions # <<>> BY DEF Beginning
  <1>4. CASE Releases(p)
    <2> DEFINE x == <<Act("second", p), Act("check", p), Act("scope", p), Act("finish", p)>>
    <2>1. PICK f \in CleanupFrames, g \in Bodies :
            /\ Grown(frames, frames', Depth, f, g) /\ Continues(f, 1, x)
            /\ Enters(g, {"release"}, p) /\ g.of = p
      BY <1>4 DEF Releases
    <2>2. f \in Frame /\ Running /\ Depth \in Nat \ {0} BY <2>1, OnRunning DEF Frame
    <2>3. Heir(Top, f) BY <2>1, ContinuesHeir
    <2>4. f.actions # <<>> /\ f.actions[1] = Act("second", p)
      <3> DEFINE l == Len(f.actions)
      <3>1. Follows(Top.actions, f.actions, 1, x) BY <2>1 DEF Continues
      <3>2. Len(x) = 4 /\ x[1] = Act("second", p) OBVIOUS
      <3>3. Len(Top.actions) \in Nat /\ Top.actions # <<>> /\ Len(Top.actions) # 0
        BY <1>3, CleanupFields, EmptySeq, LenProperties
      <3>4. f.actions \in Seq(Actions) BY CleanupFields
      <3> HIDE DEF x
      <3>5. f.actions[1] = x[1] BY <3>1, <3>2 DEF Follows
      <3>6. Len(f.actions) # 0 BY <3>1, <3>2, <3>3 DEF Follows
      <3>7. QED BY <3>2, <3>4, <3>5, <3>6, EmptySeq
    <2>5. g.kind = "body" /\ g.job = "release" BY <2>1, BodyFields DEF Enters
    <2>6. f.kind = "cleanup" BY CleanupFields
    <2>7. Above(f, g) BY <2>1, <2>4, <2>5, <2>6 DEF Above
    <2>8. Stands(Depth) /\ Len(frames') = Depth + 1 /\ Same(Depth)
          /\ frames'[Depth] = f /\ frames'[Depth + 1] = g
      BY <1>2, <2>1, <2>2, <2>3, <2>7, PushedStands
    <2>9. phase[p] \in {"ready", "stepping"}
          /\ releases' = [releases EXCEPT ![p] = Append(@, items[p])]
      BY <1>4 DEF Releases
    <2>10. QED BY <1>1, <1>3, <2>1, <2>2, <2>8, <2>9
  <1>5. CASE Discards(p)
    <2>1. PICK f \in CleanupFrames :
            /\ Rebased(frames, frames', Depth, f)
            /\ Continues(f, 1, <<Act("scope", p), Act("finish", p)>>)
      BY <1>5 DEF Discards
    <2>2. f \in Frame /\ Running /\ Depth \in Nat \ {0} BY <2>1, OnRunning DEF Frame
    <2>3. Heir(Top, f) BY <2>1, ContinuesHeir
    <2>4. Stands(Depth) /\ Len(frames') = Depth /\ Same(Depth) /\ frames'[Depth] = f
      BY <1>2, <2>1, <2>2, <2>3, ReplacedStands
    <2>5. phase[p] \in {"new", "acquiring"} /\ releases' = releases BY <1>5 DEF Discards
    <2>6. QED BY <1>1, <1>3, <2>1, <2>2, <2>4, <2>5
  <1>6. QED BY <1>1, <1>4, <1>5

LEMMA ReasoningStands ==
  ASSUME ShapeInv, Reasoning, frames' \in Seq(Frame)
  PROVE  /\ Running /\ Stands(Depth) /\ Len(frames') = Depth + 1 /\ Same(Depth)
         /\ Top \in CleanupFrames /\ Top.actions # <<>>
         /\ \E p \in Producer :
              /\ Top.actions[1] = Act("second", p)
              /\ Continues(frames'[Depth], 1, <<>>)
              /\ frames'[Depth + 1] \in Bodies /\ frames'[Depth + 1].of = p
              /\ Enters(frames'[Depth + 1], {"reason"}, p)
              /\ releases' = [releases EXCEPT ![p] = Append(@, Top.reason)]
  <1>1. PICK p \in Producer, f \in CleanupFrames, g \in Bodies :
          /\ Top.actions[1] = Act("second", p)
          /\ Grown(frames, frames', Depth, f, g) /\ Continues(f, 1, <<>>)
          /\ Enters(g, {"reason"}, p) /\ g.of = p
          /\ releases' = [releases EXCEPT ![p] = Append(@, Top.reason)]
    BY DEF Reasoning
  <1>2. Aborting BY StillAborting DEF Reasoning, ending
  <1>3. Top \in CleanupFrames /\ Top.actions # <<>> BY DEF Reasoning
  <1>4. f \in Frame /\ Running /\ Depth \in Nat \ {0} BY <1>1, OnRunning DEF Frame
  <1>5. Heir(Top, f) BY <1>1, ContinuesHeir
  <1>6. f.actions # <<>> /\ f.actions[1] = Act("check", p)
    <2> DEFINE a == Top.actions
    <2>1. a \in Seq(Actions) /\ Shape(a) /\ a # <<>> BY <1>3, CleanupFields
    <2>2. a[1] = Act("second", p) /\ Follows(a, f.actions, 1, <<>>)
      BY <1>1 DEF Continues
    <2>3. f.actions \in Seq(Actions) BY CleanupFields
    <2> HIDE DEF a
    <2>4. PICK n \in Nat : n = Len(a) /\ n # 0 BY <2>1, LenProperties, EmptySeq
    <2>5. a[1].do = "second" /\ a[1].on = p /\ 1 \in 1..n BY <2>2, <2>4 DEF Act
    <2>6. n > 1 /\ a[2] = Act("check", p) BY <2>1, <2>4, <2>5 DEF Shape
    <2>7. Len(f.actions) = n - 1 /\ \A k \in 1..n - 1 : f.actions[k] = a[k + 1]
      <3> DEFINE e == <<>>
      <3>1. Len(e) = 0 OBVIOUS
      <3>2. Follows(a, f.actions, 1, e) BY <2>2
      <3> HIDE DEF e
      <3>3. QED BY <2>4, <3>1, <3>2 DEF Follows
    <2>8. f.actions[1] = a[2] /\ Len(f.actions) # 0 BY <2>4, <2>6, <2>7
    <2>9. QED BY <2>3, <2>6, <2>8, EmptySeq
  <1>7. g.kind = "body" /\ g.job = "reason" BY <1>1, BodyFields DEF Enters
  <1>8. f.kind = "cleanup" BY CleanupFields
  <1>9. Above(f, g) BY <1>1, <1>6, <1>7, <1>8 DEF Above
  <1>10. Stands(Depth) /\ Len(frames') = Depth + 1 /\ Same(Depth)
         /\ frames'[Depth] = f /\ frames'[Depth + 1] = g
    BY <1>1, <1>2, <1>4, <1>5, <1>9, PushedStands
  <1>11. QED BY <1>1, <1>3, <1>4, <1>10

LEMMA ScopingStands ==
  ASSUME ShapeInv, Scoping, frames' \in Seq(Frame)
  PROVE  /\ Running /\ Stands(Depth) /\ Len(frames') = Depth /\ Same(Depth)
         /\ Top \in CleanupFrames /\ Top.actions # <<>>
         /\ \E p \in Producer, x \in Seq(Actions) :
              /\ Top.actions[1] = Act("scope", p)
              /\ Continues(frames'[Depth], 1, x)
              /\ Closes(x, {q \in Producer : Active(q) /\ parent[q] = p},
                        {r \in live : resources[r] = p})
  <1>1. PICK p \in Producer, f \in CleanupFrames, x \in Seq(Actions) :
          /\ Top.actions[1] = Act("scope", p)
          /\ Rebased(frames, frames', Depth, f) /\ Continues(f, 1, x)
          /\ Closes(x, {q \in Producer : Active(q) /\ parent[q] = p},
                    {r \in live : resources[r] = p})
    BY DEF Scoping
  <1>2. Aborting BY StillAborting DEF Scoping, Still, ending
  <1>3. Top \in CleanupFrames /\ Top.actions # <<>> BY DEF Scoping
  <1>4. f \in Frame /\ Running BY <1>1, OnRunning DEF Frame
  <1>5. Heir(Top, f) BY <1>1, ContinuesHeir
  <1>6. Stands(Depth) /\ Len(frames') = Depth /\ Same(Depth) /\ frames'[Depth] = f
    BY <1>1, <1>2, <1>4, <1>5, ReplacedStands
  <1>7. QED BY <1>1, <1>3, <1>4, <1>6

LEMMA FinishingStands ==
  ASSUME ShapeInv, Finishing, frames' \in Seq(Frame)
  PROVE  /\ Running /\ Stands(Depth) /\ Len(frames') = Depth /\ Same(Depth)
         /\ Top \in CleanupFrames /\ Top.actions # <<>>
         /\ \E p \in Producer :
              /\ Top.actions[1] = Act("finish", p)
              /\ Continues(frames'[Depth], 1, <<>>)
              /\ phase' = [phase EXCEPT ![p] = "closed"]
              /\ token' = [q \in Producer |-> token[q] /\ parent[q] # p]
  <1>1. PICK p \in Producer, f \in CleanupFrames :
          /\ Top.actions[1] = Act("finish", p)
          /\ Rebased(frames, frames', Depth, f) /\ Continues(f, 1, <<>>)
          /\ phase' = [phase EXCEPT ![p] = "closed"]
          /\ token' = [q \in Producer |-> token[q] /\ parent[q] # p]
    BY DEF Finishing
  <1>2. Aborting BY StillAborting DEF Finishing, ending
  <1>3. Top \in CleanupFrames /\ Top.actions # <<>> BY DEF Finishing
  <1>4. f \in Frame /\ Running BY <1>1, OnRunning DEF Frame
  <1>5. Heir(Top, f) BY <1>1, ContinuesHeir
  <1>6. Stands(Depth) /\ Len(frames') = Depth /\ Same(Depth) /\ frames'[Depth] = f
    BY <1>1, <1>2, <1>4, <1>5, ReplacedStands
  <1>7. QED BY <1>1, <1>3, <1>4, <1>6

LEMMA PassingStands ==
  ASSUME ShapeInv, Passing, frames' \in Seq(Frame), errors' \in 0..MaxTroubles
  PROVE  /\ Running /\ Stands(Depth) /\ Len(frames') = Depth /\ Same(Depth)
         /\ Top \in CleanupFrames /\ Top.actions # <<>> /\ Aborting
         /\ frames'[Depth] \in CleanupFrames
         /\ frames'[Depth].reason = Top.reason /\ frames'[Depth].after = Top.after
         /\ Follows(Top.actions, frames'[Depth].actions, 1, <<>>)
         /\ \/ frames'[Depth].error = Top.error /\ UNCHANGED <<aborting, errors>>
            \/ /\ errors' = errors + 1 /\ Top.actions[1].do # "producer"
               /\ frames'[Depth].error =
                    IF Top.error.kind \in {"none", "exit"} THEN Error("op", errors + 1)
                    ELSE Noted(Top.error, Error("op", errors + 1))
               /\ frames'[Depth].error.kind =
                    IF Top.error.kind \in {"none", "exit"} THEN "op" ELSE Top.error.kind
               /\ frames'[Depth].error.id =
                    IF Top.error.kind \in {"none", "exit"} THEN errors + 1 ELSE Top.error.id
  <1> DEFINE e == Error("op", errors + 1)
  <1>1. PICK f \in CleanupFrames :
          /\ Rebased(frames, frames', Depth, f)
          /\ f.reason = Top.reason /\ f.after = Top.after
          /\ Follows(Top.actions, f.actions, 1, <<>>)
          /\ \/ /\ f.error = Top.error /\ UNCHANGED <<aborting, errors>>
             \/ /\ errors' = errors + 1
                /\ aborting' = Aborts(e)
                /\ Top.actions[1].do # "producer"
                /\ \E c \in CleanupFrames : /\ f = Survives(c, e)
                                            /\ c.error = Top.error
    BY DEF Passing
  <1>2. Top \in CleanupFrames /\ Top.actions # <<>> BY DEF Passing
  <1>3. f \in Frame /\ Running BY <1>1, OnRunning DEF Frame
  <1>4. aborting \in BOOLEAN BY DEF ShapeInv, TypeInv, VarInv
  <1>5. ASSUME /\ errors' = errors + 1
               /\ aborting' = Aborts(e)
               /\ \E c \in CleanupFrames : f = Survives(c, e) /\ c.error = Top.error
        PROVE  /\ f.error = IF Top.error.kind \in {"none", "exit"} THEN e ELSE Noted(Top.error, e)
               /\ f.error.kind = IF Top.error.kind \in {"none", "exit"} THEN "op"
                                 ELSE Top.error.kind
               /\ f.error.id = IF Top.error.kind \in {"none", "exit"} THEN errors + 1
                               ELSE Top.error.id
               /\ f.error.kind # "none" /\ aborting' = aborting
    <2>1. errors + 1 \in 0..MaxTroubles BY <1>5
    <2>2. e \in Errors /\ e.kind = "op" /\ e.id = errors + 1 BY <2>1, ErrorIs
    <2> HIDE DEF e
    <2>3. e \in Causes /\ e.kind # "none" BY <2>2 DEF Causes
    <2>4. PICK c \in CleanupFrames : f = Survives(c, e) /\ c.error = Top.error BY <1>5
    <2>5. /\ f.error = IF c.error.kind \in {"none", "exit"} THEN e ELSE Noted(c.error, e)
          /\ f.error.kind = IF c.error.kind \in {"none", "exit"} THEN e.kind ELSE c.error.kind
          /\ f.error.id = IF c.error.kind \in {"none", "exit"} THEN e.id ELSE c.error.id
          /\ f.error.kind # "none"
      BY <2>3, <2>4, SurvivesIs
    <2>6. aborting' = aborting BY <1>4, <1>5, <2>2 DEF Aborts
    <2>7. QED BY <2>2, <2>4, <2>5, <2>6
  <1>6. Aborting BY <1>1, <1>5, StillAborting
  <1>7. f.error = Top.error \/ f.error.kind # "none" BY <1>1, <1>5
  <1>8. Heir(Top, f) BY <1>1, <1>2, <1>7, CleanupFields DEF Heir
  <1> HIDE DEF e
  <1>9. Stands(Depth) /\ Len(frames') = Depth /\ Same(Depth) /\ frames'[Depth] = f
    BY <1>1, <1>3, <1>6, <1>8, ReplacedStands
  <1>10. QED BY <1>1, <1>2, <1>3, <1>5, <1>6, <1>9 DEF e

\* The stack fs up to m fails with an error: one that is raised, the first
\* interruption, or the one that the cleanup on top ends with.
Origin(m, fs, error) ==
  /\ m \in 1..Depth /\ fs \in Seq(Frame) /\ Rebased(frames, fs, m, frames[m])
  /\ error \in Errors
  /\ \/ /\ m = Depth /\ error = Error("op", errors + 1)
        /\ errors' = errors + 1 /\ stops' = stops /\ Top.kind # "cleanup"
     \/ /\ m = Depth /\ Cleanups(frames) = {} /\ error.kind \in {"cancel", "exit"}
        /\ error = Error(error.kind, 0) /\ errors' = errors /\ stops' = Append(stops, error.kind)
     \/ /\ m + 1 = Depth /\ Top \in CleanupFrames /\ Top.actions = <<>>
        /\ error = Top.error /\ error.kind \in {"op", "cancel", "exit"}
        /\ errors' = errors /\ stops' = stops

LEMMA FailedIs ==
  ASSUME ShapeInv, Failed
  PROVE  /\ Running
         /\ UNCHANGED <<phase, parent, items, opening, releases>>
         /\ \E m \in 1..Depth, error \in Errors, fs \in Seq(Frame) :
              /\ Origin(m, fs, error)
              /\ Deferred(fs, error) \/ Unwound(fs, error) \/ Returned(fs, error)
                 \/ GivenUp(fs, error)
  <1>1. PICK m \in Nat \ {0}, error \in Errors, fs \in Seq(Frame) :
       /\ m <= Depth /\ Rebased(frames, fs, m, frames[m])
       /\ Deferred(fs, error) \/ Unwound(fs, error) \/ Returned(fs, error) \/ GivenUp(fs, error)
       /\ \/ /\ m = Depth /\ fs = frames /\ error = Error("op", errors + 1)
             /\ errors' = errors + 1 /\ stops' = stops /\ Top.kind # "cleanup"
          \/ /\ m = Depth /\ fs = frames /\ Cleanups(frames) = {} /\ error.kind \in {"cancel", "exit"}
             /\ error = Error(error.kind, 0) /\ errors' = errors /\ stops' = Append(stops, error.kind)
          \/ /\ m + 1 = Depth /\ Top \in CleanupFrames /\ Top.actions = <<>>
             /\ error = Top.error /\ error.kind \in {"op", "cancel", "exit"}
             /\ errors' = errors /\ stops' = stops
    BY DEF Failed
  <1>2. frames \in Seq(Frame) /\ m \in 1..Len(frames)
    BY <1>1 DEF ShapeInv, TypeInv, Rebased
  <1>3. m \in 1..Depth BY <1>2 DEF Depth
  <1>4. Running BY <1>2, EmptySeq, LenProperties DEF Running
  <1>5. Origin(m, fs, error) BY <1>1, <1>3 DEF Origin
  <1>6. UNCHANGED <<phase, parent, items, opening, releases>> BY DEF Failed
  <1>7. QED BY <1>1, <1>3, <1>4, <1>5, <1>6

LEMMA OriginIs ==
  ASSUME ShapeInv, NEW m, NEW fs, NEW error, Origin(m, fs, error)
  PROVE  /\ m \in 1..Depth /\ Depth \in Nat \ {0} /\ Running
         /\ fs \in Seq(Frame) /\ Len(fs) = m /\ DOMAIN fs = 1..m
         /\ \A i \in 1..m : fs[i] = frames[i] /\ fs[i] \in Frame
         /\ Stacked(fs) /\ fs # <<>> /\ ~IsAttempt(fs[1])
         /\ fs[m].kind # "cleanup"
         /\ error \in Causes /\ error.kind \in {"op", "cancel", "exit"}
         /\ \A i \in m + 1..Depth : i = Depth /\ frames[i] = Top /\ Top \in CleanupFrames
                                    /\ Top.actions = <<>> /\ error = Top.error
         /\ Aborts(error) \in BOOLEAN /\ (aborting => Aborts(error))
         /\ m = Depth \/ (m + 1 = Depth /\ Top \in CleanupFrames /\ Top.actions = <<>>)
  <1>1. m \in 1..Depth /\ fs \in Seq(Frame) /\ Rebased(frames, fs, m, frames[m])
        /\ error \in Errors
    BY DEF Origin
  <1>2. frames \in Seq(Frame) /\ Stacked(frames) /\ aborting \in BOOLEAN
    BY DEF ShapeInv, TypeInv, VarInv
  <1>3. Len(frames) \in Nat BY <1>2, LenProperties
  <1>4. Running BY <1>1, <1>2, <1>3, EmptySeq DEF Running, Depth
  <1>5. /\ Depth \in Nat \ {0} /\ Top = frames[Depth] /\ Top \in Frame
        /\ \A i \in 1..Depth : frames[i] \in Frame
        /\ Depth > 1 => Caller = frames[Depth - 1] /\ Above(Caller, Top)
    BY <1>4, TopIs
  <1>6. Len(fs) = m /\ fs[m] = frames[m] /\ \A i \in 1..m - 1 : fs[i] = frames[i]
    BY <1>1 DEF Rebased
  <1>7. \A i \in 1..m : fs[i] = frames[i] /\ fs[i] \in Frame
    <2> SUFFICES ASSUME NEW i \in 1..m PROVE fs[i] = frames[i] /\ fs[i] \in Frame OBVIOUS
    <2>1. i = m \/ i \in 1..m - 1 BY <1>1, <1>5
    <2>2. i \in 1..Depth BY <1>1, <1>5
    <2>3. QED BY <1>5, <1>6, <2>1, <2>2
  <1>8. DOMAIN fs = 1..m /\ fs # <<>> BY <1>1, <1>5, <1>6, EmptySeq, LenProperties
  <1>9. Stacked(fs)
    <2>1. m \in 1..Len(frames) BY <1>1 DEF Depth
    <2>2. Heir(frames[m], frames[m]) BY <1>1, <1>5, HeirIs
    <2>3. QED BY <1>1, <1>2, <2>2, RebasedStack
  <1>10. ~IsAttempt(fs[1]) BY <1>8, <1>9 DEF Stacked, Bottom, IsAttempt
  <1>11. \/ /\ m = Depth /\ error = Error("op", errors + 1)
            /\ errors' = errors + 1 /\ stops' = stops /\ Top.kind # "cleanup"
         \/ /\ m = Depth /\ Cleanups(frames) = {} /\ error.kind \in {"cancel", "exit"}
            /\ errors' = errors
         \/ /\ m + 1 = Depth /\ Top \in CleanupFrames /\ Top.actions = <<>>
            /\ error = Top.error /\ error.kind \in {"op", "cancel", "exit"}
            /\ errors' = errors /\ stops' = stops
    BY DEF Origin
  <1>12. fs[m].kind # "cleanup"
    <2>1. CASE m = Depth /\ Top.kind # "cleanup" BY <1>5, <1>6, <2>1
    <2>2. CASE m = Depth /\ Cleanups(frames) = {}
      <3>1. Depth \in DOMAIN frames BY <1>2, <1>5, LenProperties DEF Depth
      <3>2. frames[Depth].kind # "cleanup" BY <2>2, <3>1 DEF Cleanups
      <3>3. QED BY <1>6, <2>2, <3>2
    <2>3. CASE m + 1 = Depth /\ Top \in CleanupFrames
      <3>1. Depth > 1 /\ Depth - 1 = m BY <1>1, <1>5, <2>3
      <3>2. Above(fs[m], Top) BY <1>5, <1>6, <3>1
      <3>3. Top.kind = "cleanup" /\ Top.after \in {"resume", "boundary", "unwind"}
        BY <2>3, CleanupFields
      <3>4. QED BY <3>2, <3>3 DEF Above
    <2>4. QED BY <1>11, <2>1, <2>2, <2>3
  <1>13. error.kind \in {"op", "cancel", "exit"} BY <1>11 DEF Error
  <1>14. error \in Causes BY <1>1, <1>13 DEF Causes
  <1>15. m = Depth \/ (m + 1 = Depth /\ Top \in CleanupFrames /\ Top.actions = <<>>
                       /\ error = Top.error)
    BY <1>11
  <1>16. \A i \in m + 1..Depth : i = Depth /\ frames[i] = Top /\ Top \in CleanupFrames
                                 /\ Top.actions = <<>> /\ error = Top.error
    <2> SUFFICES ASSUME NEW i \in m + 1..Depth
                 PROVE  i = Depth /\ frames[i] = Top /\ Top \in CleanupFrames
                        /\ Top.actions = <<>> /\ error = Top.error
      OBVIOUS
    <2>1. m + 1 = Depth /\ i = Depth BY <1>1, <1>5, <1>15
    <2>2. m # Depth BY <1>1, <1>5, <2>1
    <2>3. QED BY <1>5, <1>15, <2>1, <2>2
  <1>17. Aborts(error) \in BOOLEAN /\ (aborting => Aborts(error)) BY <1>2 DEF Aborts
  <1>18. QED BY <1>1, <1>4, <1>5, <1>6, <1>7, <1>8, <1>9, <1>10, <1>12, <1>13, <1>14, <1>15,
                <1>16, <1>17

\* A frame that a finished cleanup on top would discard stands above the checkpoint.
LEMMA DoomedByTop ==
  ASSUME ShapeInv, NEW m, NEW fs, NEW error, Origin(m, fs, error),
         NEW i \in Nat, NEW j \in m + 1..Depth,
         Checkpoint(SubSeq(frames, 1, j - 1), aborting) < i
  PROVE  Checkpoint(fs, Aborts(error)) < i
  <1>1. /\ m \in 1..Depth /\ Depth \in Nat \ {0}
        /\ fs \in Seq(Frame) /\ Len(fs) = m /\ DOMAIN fs = 1..m
        /\ \A k \in 1..m : fs[k] = frames[k]
        /\ Aborts(error) \in BOOLEAN /\ (aborting => Aborts(error))
        /\ m = Depth \/ m + 1 = Depth
    BY OriginIs
  <1>2. j = Depth /\ j - 1 = m BY <1>1
  <1>3. frames \in Seq(Frame) /\ aborting \in BOOLEAN BY DEF ShapeInv, TypeInv, VarInv
  <1> DEFINE b == SubSeq(frames, 1, j - 1)
  <1>4. DOMAIN b = 1..j - 1 /\ \A k \in 1..j - 1 : b[k] = frames[k]
    <2>1. j \in 1..Len(frames) BY <1>1, <1>2 DEF Depth
    <2>2. QED BY <1>3, <2>1, Prefix
  <1>5. Checkpoint(b, aborting) < i OBVIOUS
  <1> HIDE DEF b
  <1>6. DOMAIN b = DOMAIN fs /\ \A k \in DOMAIN b : b[k] = fs[k] BY <1>1, <1>2, <1>4
  <1>7. Checkpoint(b, aborting) = Checkpoint(fs, aborting) BY <1>6, SameCheckpoint
  <1> DEFINE c == Checkpoint(fs, aborting)
             d == Checkpoint(fs, Aborts(error))
  <1>8. d <= c
    <2>1. CASE Aborts(error) = aborting
      <3>1. c \in 0..Len(fs) BY <1>1, <1>3, CheckpointIs
      <3>2. c <= c BY <1>1, <3>1
      <3>3. QED BY <2>1, <3>2
    <2>2. CASE Aborts(error) # aborting
      <3>1. Aborts(error) = TRUE BY <1>1, <1>3, <2>2
      <3>2. Checkpoint(fs, TRUE) <= c BY <1>1, <1>3, CheckpointIs
      <3>3. QED BY <3>1, <3>2
    <2>3. QED BY <2>1, <2>2
  <1>9. c \in Int /\ d \in Int
    <2>1. c \in 0..Len(fs) /\ d \in 0..Len(fs) BY <1>1, <1>3, CheckpointIs
    <2> HIDE DEF c, d
    <2>2. QED BY <1>1, <2>1
  <1> HIDE DEF c, d
  <1>10. c < i BY <1>5, <1>7 DEF c
  <1>11. d < i BY <1>8, <1>9, <1>10
  <1>12. QED BY <1>11 DEF d

\* An error that leaves the frames up to n, below or at its checkpoint.
LEMMA UnwoundTo ==
  ASSUME ShapeInv, NEW m, NEW fs, NEW error, Origin(m, fs, error),
         frames' \in Seq(Frame), aborting' = Aborts(error),
         NEW n \in 1..m, n <= Checkpoint(fs, Aborts(error)), NEW f,
         Rebased(fs, frames', n, f), Heir(frames[n], f),
         \A i \in n + 1..m : frames[i].kind # "cleanup"
  PROVE  Stands(n) /\ Len(frames') = n /\ Same(n) /\ frames'[n] = f /\ Aborting
  <1>1. /\ m \in 1..Depth /\ Depth \in Nat \ {0}
        /\ fs \in Seq(Frame) /\ Len(fs) = m
        /\ \A k \in 1..m : fs[k] = frames[k]
        /\ Aborts(error) \in BOOLEAN /\ (aborting => Aborts(error))
        /\ \A i \in m + 1..Depth : i = Depth /\ frames[i] = Top /\ Top \in CleanupFrames
                                   /\ Top.actions = <<>> /\ error = Top.error
    BY OriginIs
  <1>2. frames \in Seq(Frame) /\ Stacked(frames) /\ aborting \in BOOLEAN
    BY DEF ShapeInv, TypeInv, VarInv
  <1>3. Aborting BY <1>1 DEF Aborting
  <1>4. n \in 1..Depth /\ n \in Nat \ {0} /\ m \in Nat BY <1>1
  <1>5. Rebased(frames, frames', n, f)
    <2>1. /\ Len(frames') = n /\ frames'[n] = f
          /\ \A i \in 1..n - 1 : frames'[i] = fs[i]
      BY DEF Rebased
    <2>2. \A i \in 1..n - 1 : i \in 1..m BY <1>4
    <2>3. \A i \in 1..n - 1 : frames'[i] = frames[i] BY <1>1, <2>1, <2>2
    <2>4. QED BY <1>4, <2>1, <2>3 DEF Rebased, Depth
  <1>6. Stacked(frames') /\ \A i \in 1..n : Heir(frames[i], frames'[i])
    BY <1>2, <1>5, RebasedStack
  <1>7. Len(frames') = n /\ frames'[n] = f /\ \A i \in 1..n - 1 : frames'[i] = frames[i]
    BY <1>5 DEF Rebased
  <1>8. \A i \in 1..n : Doomed(i) => Doomed(i)'
    <2> SUFFICES ASSUME NEW i \in 1..n, Doomed(i) PROVE Doomed(i)' OBVIOUS
    <2>1. Len(frames') \in {n, n + 1} BY <1>7
    <2>2. aborting' \in BOOLEAN /\ (aborting => aborting') BY <1>3 DEF Aborting
    <2>3. ASSUME NEW j \in n + 1..Depth,
                 frames[j].kind = "cleanup" /\ frames[j].after = "unwind"
                   /\ Checkpoint(SubSeq(frames, 1, j - 1), aborting) < i
          PROVE  Doomed(i)'
      <3>1. j \in m + 1..Depth BY <1>1, <1>4, <2>3
      <3>2. i \in Nat BY <1>4
      <3> DEFINE at == Checkpoint(fs, Aborts(error))
      <3>3. at < i BY <2>3, <3>1, <3>2, DoomedByTop
      <3>4. at \in 0..Len(fs) BY <1>1, CheckpointIs
      <3>5. n <= at OBVIOUS
      <3> HIDE DEF at
      <3>6. QED BY <1>1, <1>4, <3>3, <3>4, <3>5
    <2>4. QED BY <1>2, <1>4, <1>6, <2>1, <2>2, <2>3, DoomedStays
  <1>9. \A i \in n + 1..Depth : frames[i].kind = "cleanup" => frames[i].actions = <<>>
    <2> SUFFICES ASSUME NEW i \in n + 1..Depth, frames[i].kind = "cleanup"
                 PROVE  frames[i].actions = <<>>
      OBVIOUS
    <2>1. i \in n + 1..m \/ i \in m + 1..Depth BY <1>1, <1>4
    <2>2. QED BY <1>1, <2>1
  <1>10. Len(frames') \in {n, n + 1} BY <1>7
  <1>11. Stands(n) BY <1>4, <1>6, <1>8, <1>9, <1>10 DEF Stands
  <1>12. QED BY <1>3, <1>7, <1>11 DEF Same

LEMMA DeferredStands ==
  ASSUME ShapeInv, NEW m, NEW fs, NEW error, Origin(m, fs, error), Deferred(fs, error)
  PROVE  LET at == Checkpoint(fs, Aborts(error))
         IN  /\ at \in 1..m /\ Stands(at) /\ Len(frames') = at /\ Same(at) /\ Aborting
             /\ frames[at] \in CleanupFrames
             /\ frames'[at] = Survives(frames[at], error)
  <1> DEFINE at == Checkpoint(fs, Aborts(error))
  <1>1. /\ m \in 1..Depth /\ Depth \in Nat \ {0}
        /\ fs \in Seq(Frame) /\ Len(fs) = m /\ DOMAIN fs = 1..m
        /\ \A k \in 1..m : fs[k] = frames[k] /\ fs[k] \in Frame
        /\ error \in Causes /\ error.kind \in {"op", "cancel", "exit"}
        /\ Aborts(error) \in BOOLEAN
    BY OriginIs
  <1>2. /\ at \in 1..m /\ fs[at].kind = "cleanup"
        /\ frames' \in Seq(Frame) /\ Rebased(fs, frames', at, Survives(fs[at], error))
        /\ aborting' = Aborts(error)
    BY <1>1 DEF Deferred
  <1>3. \A i \in Cleanups(fs) : i <= at BY <1>1, CheckpointIs
  <1>4. at <= Checkpoint(fs, Aborts(error)) BY <1>2
  <1> HIDE DEF at
  <1>5. fs[at] = frames[at] /\ frames[at] \in CleanupFrames BY <1>1, <1>2, FrameKinds
  <1>6. Heir(frames[at], Survives(frames[at], error))
    <2>1. /\ Survives(frames[at], error).kind = "cleanup"
          /\ Survives(frames[at], error).after = frames[at].after
          /\ Survives(frames[at], error).error.kind # "none"
      BY <1>1, <1>5, SurvivesIs
    <2>2. QED BY <1>5, <2>1, CleanupFields DEF Heir
  <1>7. \A i \in at + 1..m : frames[i].kind # "cleanup"
    <2> SUFFICES ASSUME NEW i \in at + 1..m, frames[i].kind = "cleanup" PROVE FALSE OBVIOUS
    <2>1. i \in 1..m BY <1>1, <1>2
    <2>2. i \in Cleanups(fs) BY <1>1, <2>1 DEF Cleanups
    <2>3. i <= at BY <1>3, <2>2
    <2>4. QED BY <1>1, <1>2, <2>3
  <1>8. Rebased(fs, frames', at, Survives(frames[at], error)) BY <1>2, <1>5
  <1>9. /\ Stands(at) /\ Len(frames') = at /\ Same(at)
        /\ frames'[at] = Survives(frames[at], error) /\ Aborting
    BY <1>2, <1>4, <1>6, <1>7, <1>8, UnwoundTo
  <1>10. QED BY <1>2, <1>5, <1>9 DEF at

LEMMA ReturnedStands ==
  ASSUME ShapeInv, NEW m, NEW fs, NEW error, Origin(m, fs, error), Returned(fs, error)
  PROVE  LET at == Checkpoint(fs, Aborts(error))
         IN  /\ at \in 2..m /\ IsAttempt(frames[at])
             /\ Stands(at - 1) /\ Len(frames') = at - 1 /\ Same(at - 1) /\ Aborting
             /\ frames'[at - 1] = frames[at - 1]
             /\ LeftOpen(fs, at) = {} /\ Unclosed(fs, at) = {}
             /\ token' = [p \in Producer |-> token[p] /\ p <= frames[at].made]
  <1> DEFINE at == Checkpoint(fs, Aborts(error))
  <1>1. /\ m \in 1..Depth /\ Depth \in Nat \ {0}
        /\ fs \in Seq(Frame) /\ Len(fs) = m /\ DOMAIN fs = 1..m
        /\ \A k \in 1..m : fs[k] = frames[k] /\ fs[k] \in Frame
        /\ Aborts(error) \in BOOLEAN
    BY OriginIs
  <1>2. /\ at \in 2..m /\ IsAttempt(fs[at])
        /\ LeftOpen(fs, at) = {} /\ Unclosed(fs, at) = {}
        /\ frames' \in Seq(Frame) /\ Rebased(fs, frames', at - 1, fs[at - 1])
        /\ token' = [p \in Producer |-> token[p] /\ p <= fs[at].made]
        /\ aborting' = Aborts(error)
    BY <1>1 DEF Returned
  <1>3. \A i \in Cleanups(fs) : i <= at BY <1>1, CheckpointIs
  <1>4. at - 1 <= Checkpoint(fs, Aborts(error)) /\ at \in 1..m /\ at - 1 \in 1..m
    BY <1>1, <1>2
  <1> HIDE DEF at
  <1>5. fs[at] = frames[at] /\ fs[at - 1] = frames[at - 1] /\ frames[at - 1] \in Frame
    BY <1>1, <1>4
  <1>6. Heir(frames[at - 1], frames[at - 1]) BY <1>5, HeirIs
  <1>7. \A i \in at - 1 + 1..m : frames[i].kind # "cleanup"
    <2> SUFFICES ASSUME NEW i \in at - 1 + 1..m, frames[i].kind = "cleanup" PROVE FALSE OBVIOUS
    <2>1. i \in 1..m BY <1>1, <1>2
    <2>2. i \in Cleanups(fs) BY <1>1, <2>1 DEF Cleanups
    <2>3. i <= at BY <1>3, <2>2
    <2>4. i = at BY <1>1, <1>2, <2>3
    <2>5. QED BY <1>2, <1>5, <2>4 DEF IsAttempt
  <1>8. Rebased(fs, frames', at - 1, frames[at - 1]) BY <1>2, <1>5
  <1>9. /\ Stands(at - 1) /\ Len(frames') = at - 1 /\ Same(at - 1)
        /\ frames'[at - 1] = frames[at - 1] /\ Aborting
    <2> DEFINE l == at - 1
    <2>1. l \in 1..m /\ l <= Checkpoint(fs, Aborts(error)) BY <1>4
    <2>2. \A i \in l + 1..m : frames[i].kind # "cleanup" BY <1>7
    <2>3. Rebased(fs, frames', l, frames[l]) /\ Heir(frames[l], frames[l]) BY <1>6, <1>8
    <2> HIDE DEF l
    <2>4. Stands(l) /\ Len(frames') = l /\ Same(l) /\ frames'[l] = frames[l] /\ Aborting
      BY <1>2, <2>1, <2>2, <2>3, UnwoundTo
    <2>5. QED BY <2>4 DEF l
  <1>10. QED BY <1>2, <1>5, <1>9 DEF at

LEMMA UnwoundStands ==
  ASSUME ShapeInv, NEW m, NEW fs, NEW error, Origin(m, fs, error), Unwound(fs, error)
  PROVE  LET at == Checkpoint(fs, Aborts(error))
         IN  /\ at \in 0..m /\ (at > 0 => IsAttempt(fs[at]))
             /\ Stands(m) /\ Len(frames') = m + 1 /\ Same(m) /\ Aborting
             /\ frames'[m] = frames[m]
             /\ \A i \in 1..m : frames'[i] = frames[i]
             /\ frames'[m + 1] \in CleanupFrames
             /\ frames'[m + 1].after = "unwind" /\ frames'[m + 1].error = error
             /\ Closes(frames'[m + 1].actions, LeftOpen(fs, at), Unclosed(fs, at))
             /\ \A i \in 1..m : at < i => Doomed(i)'
  <1> DEFINE at == Checkpoint(fs, Aborts(error))
  <1>1. /\ m \in 1..Depth /\ Depth \in Nat \ {0}
        /\ fs \in Seq(Frame) /\ Len(fs) = m /\ DOMAIN fs = 1..m
        /\ \A k \in 1..m : fs[k] = frames[k] /\ fs[k] \in Frame
        /\ fs[m].kind # "cleanup" /\ Stacked(fs)
        /\ error \in Causes /\ error.kind \in {"op", "cancel", "exit"}
        /\ Aborts(error) \in BOOLEAN /\ (aborting => Aborts(error))
        /\ \A i \in m + 1..Depth : i = Depth /\ frames[i] = Top /\ Top \in CleanupFrames
                                   /\ Top.actions = <<>> /\ error = Top.error
    BY OriginIs
  <1>2. PICK g \in CleanupFrames :
           /\ g.after = "unwind" /\ g.error = error
           /\ Closes(g.actions, LeftOpen(fs, at), Unclosed(fs, at))
           /\ frames' \in Seq(Frame) /\ Grown(fs, frames', m, fs[m], g)
    BY <1>1 DEF Unwound
  <1>3. aborting' = Aborts(error) /\ (at > 0 => IsAttempt(fs[at])) BY DEF Unwound
  <1>4. at \in 0..m BY <1>1, CheckpointIs
  <1>5. frames \in Seq(Frame) /\ aborting \in BOOLEAN BY DEF ShapeInv, TypeInv, VarInv
  <1>6. Above(fs[m], g) BY <1>1, <1>2, CleanupFields DEF Above
  <1>7. Heir(fs[m], fs[m]) BY <1>1, HeirIs
  <1>8. Stacked(frames') /\ \A i \in 1..m : Heir(fs[i], frames'[i])
    BY <1>1, <1>2, <1>6, <1>7, GrownStack
  <1>9. /\ Len(frames') = m + 1 /\ frames'[m] = fs[m] /\ frames'[m + 1] = g
        /\ \A i \in 1..m - 1 : frames'[i] = fs[i]
    BY <1>2 DEF Grown
  <1>10. \A i \in 1..m : frames'[i] = frames[i]
    <2> SUFFICES ASSUME NEW i \in 1..m PROVE frames'[i] = frames[i] OBVIOUS
    <2>1. i = m \/ i \in 1..m - 1 BY <1>1
    <2>2. QED BY <1>1, <1>9, <2>1
  <1>11. Checkpoint(SubSeq(frames', 1, m), aborting') = at
    <2> DEFINE b == SubSeq(frames', 1, m)
    <2>1. m + 1 \in 1..Len(frames') /\ m + 1 - 1 = m BY <1>1, <1>9
    <2>2. DOMAIN b = 1..m /\ \A i \in 1..m : b[i] = frames'[i]
      <3> DEFINE j == m + 1
      <3>1. j \in 1..Len(frames') /\ j - 1 = m BY <1>1, <2>1
      <3> HIDE DEF j, b
      <3>2. /\ DOMAIN SubSeq(frames', 1, j - 1) = 1..j - 1
            /\ \A i \in 1..j - 1 : SubSeq(frames', 1, j - 1)[i] = frames'[i]
        BY <1>2, <3>1, Prefix
      <3>3. QED BY <3>1, <3>2 DEF b
    <2> HIDE DEF b
    <2>3. \A i \in DOMAIN b : b[i] = fs[i] BY <1>1, <1>10, <2>2
    <2>4. Checkpoint(b, Aborts(error)) = Checkpoint(fs, Aborts(error))
      BY <1>1, <2>2, <2>3, SameCheckpoint
    <2>5. QED BY <1>3, <2>4 DEF b
  <1>12. \A i \in 1..m : at < i => Doomed(i)'
    <2> SUFFICES ASSUME NEW i \in 1..m, at < i PROVE Doomed(i)' OBVIOUS
    <2>1. PICK j \in i + 1..Len(frames') : j = m + 1 /\ j - 1 = m
      <3>1. m \in Nat /\ i \in Nat /\ i <= m BY <1>1
      <3>2. Len(frames') = m + 1 BY <1>9
      <3>3. m + 1 \in i + 1..m + 1 /\ m + 1 - 1 = m BY <3>1
      <3>4. QED BY <3>1, <3>2, <3>3
    <2>2. frames'[j].kind = "cleanup" /\ frames'[j].after = "unwind"
      BY <1>2, <1>9, <2>1, CleanupFields
    <2> HIDE DEF at
    <2>3. Checkpoint(SubSeq(frames', 1, j - 1), aborting') < i
      <3>1. at < i OBVIOUS
      <3>2. QED BY <1>11, <2>1, <3>1
    <2>4. QED BY <2>2, <2>3 DEF Doomed
  <1>13. Aborting BY <1>1, <1>3 DEF Aborting
  <1>14. \A i \in 1..m : Heir(frames[i], frames'[i]) BY <1>1, <1>8
  <1>15. \A i \in 1..m : Doomed(i) => Doomed(i)'
    <2> SUFFICES ASSUME NEW i \in 1..m, Doomed(i) PROVE Doomed(i)' OBVIOUS
    <2>1. Len(frames') \in {m, m + 1} BY <1>9
    <2>2. aborting' \in BOOLEAN /\ (aborting => aborting') BY <1>13 DEF Aborting
    <2>3. ASSUME NEW j \in m + 1..Depth,
                 frames[j].kind = "cleanup" /\ frames[j].after = "unwind"
                   /\ Checkpoint(SubSeq(frames, 1, j - 1), aborting) < i
          PROVE  Doomed(i)'
      <3>1. i \in Nat BY <1>1
      <3>2. Checkpoint(fs, Aborts(error)) < i BY <2>3, <3>1, DoomedByTop
      <3>3. QED BY <1>12, <3>2
    <2> HIDE DEF at
    <2>4. QED BY <1>1, <1>2, <1>5, <1>14, <2>1, <2>2, <2>3, DoomedStays
  <1>16. \A i \in m + 1..Depth : frames[i].kind = "cleanup" => frames[i].actions = <<>>
    BY <1>1
  <1>17. Len(frames') \in {m, m + 1} BY <1>9
  <1>18. Stands(m) BY <1>1, <1>8, <1>14, <1>15, <1>16, <1>17 DEF Stands
  <1>19. Same(m) /\ frames'[m] = frames[m]
    <2>1. m \in 1..m /\ \A i \in 1..m - 1 : i \in 1..m BY <1>1
    <2>2. QED BY <1>10, <2>1 DEF Same
  <1>20. QED BY <1>2, <1>3, <1>4, <1>9, <1>10, <1>12, <1>13, <1>18, <1>19 DEF at

LEMMA InterruptingStands ==
  ASSUME ShapeInv, Interrupting, frames' \in Seq(Frame)
  PROVE  /\ Running /\ Stands(Depth) /\ Len(frames') = Depth /\ Aborting
         /\ \E i \in Cleanups(frames), kind \in {"cancel", "exit"} :
              /\ i \in 1..Depth /\ frames[i] \in CleanupFrames
              /\ \A j \in Cleanups(frames) : i <= j
              /\ frames'[i] = Interrupted(frames[i], kind)
              /\ \A j \in 1..Depth : j # i => frames'[j] = frames[j]
              /\ \A j \in 1..Depth : frames[j].kind = "cleanup" =>
                   frames'[j].actions = frames[j].actions
  <1>1. frames \in Seq(Frame) /\ Stacked(frames) /\ aborting \in BOOLEAN
    BY DEF ShapeInv, TypeInv, VarInv
  <1>2. PICK i \in Cleanups(frames), kind \in {"cancel", "exit"} :
       /\ \A j \in Cleanups(frames) : i <= j
       /\ frames' = [frames EXCEPT ![i] = Interrupted(frames[i], kind)]
    BY DEF Interrupting
  <1>3. Aborting BY DEF Aborting, Interrupting
  <1>4. PICK n \in Nat : n = Len(frames) /\ n = Depth /\ DOMAIN frames = 1..n
    BY <1>1, LenProperties DEF Depth
  <1>5. i \in 1..n /\ frames[i].kind = "cleanup" BY <1>4 DEF Cleanups
  <1>6. \A j \in 1..n : frames[j] \in Frame BY <1>1, <1>4, ElementOfSeq
  <1>7. frames[i] \in CleanupFrames BY <1>5, <1>6, FrameKinds
  <1>8. Running BY <1>1, <1>4, <1>5, EmptySeq DEF Running
  <1> DEFINE g == Interrupted(frames[i], kind)
  <1>9. /\ g.kind = "cleanup" /\ g.after = frames[i].after /\ g.actions = frames[i].actions
        /\ g.error.kind # "none"
    BY <1>7, InterruptedIs
  <1> HIDE DEF g
  <1>10. /\ frames'[i] = g
         /\ \A j \in 1..n : j # i => frames'[j] = frames[j]
         /\ DOMAIN frames' = 1..n
    BY <1>2, <1>4, <1>5 DEF g
  <1>11. Len(frames') = n
    <2>1. DOMAIN frames' = 1..Len(frames') /\ Len(frames') \in Nat BY LenProperties
    <2>2. QED BY <1>10, <2>1
  <1>12. \A j \in 1..n : Heir(frames[j], frames'[j])
    <2> SUFFICES ASSUME NEW j \in 1..n PROVE Heir(frames[j], frames'[j]) OBVIOUS
    <2>1. CASE j = i BY <1>5, <1>9, <1>10, <2>1 DEF Heir
    <2>2. CASE j # i BY <1>6, <1>10, <2>2, HeirIs
    <2>3. QED BY <2>1, <2>2
  <1>13. \A j \in 1..n : frames[j].kind = "cleanup" => frames'[j].actions = frames[j].actions
    BY <1>9, <1>10
  <1>14. Stacked(frames')
    <2>1. Bottom(frames'[1])
      <3>1. frames # <<>> /\ 1 \in 1..n BY <1>4, <1>5, <1>8 DEF Running
      <3>2. Bottom(frames[1]) /\ Heir(frames[1], frames'[1]) BY <1>1, <1>12, <3>1 DEF Stacked
      <3>3. QED BY <3>2, HeirStands
    <2>2. ASSUME NEW j \in 2..n PROVE Above(frames'[j - 1], frames'[j])
      <3>1. j \in 1..n /\ j - 1 \in 1..n /\ j \in 2..Len(frames) BY <1>4
      <3>2. Above(frames[j - 1], frames[j]) BY <1>1, <3>1 DEF Stacked
      <3> DEFINE f == frames[j - 1]
                 h == frames'[j - 1]
                 x == frames[j]
      <3>3. h = f \/ (h.kind = "cleanup" /\ f.kind = "cleanup" /\ h.actions = f.actions)
        <4>1. CASE j - 1 = i BY <1>5, <1>9, <1>10, <4>1
        <4>2. CASE j - 1 # i BY <1>10, <3>1, <4>2
        <4>3. QED BY <4>1, <4>2
      <3>4. Heir(frames[j], frames'[j]) BY <1>12, <3>1
      <3> HIDE DEF f, h, x
      <3>5. Above(f, x) BY <3>2 DEF f, x
      <3>6. Above(h, x) BY <3>3, <3>5 DEF Above
      <3>7. \A y : Above(y, x) => Above(y, frames'[j]) BY <3>4, HeirStands DEF x
      <3>8. QED BY <3>6, <3>7 DEF h
    <2>3. QED BY <1>11, <2>1, <2>2 DEF Stacked
  <1>15. \A j \in 1..n : Doomed(j) => Doomed(j)'
    <2> SUFFICES ASSUME NEW j \in 1..n, Doomed(j) PROVE Doomed(j)' OBVIOUS
    <2>1. Len(frames') \in {n, n + 1} BY <1>11
    <2>2. aborting' \in BOOLEAN /\ (aborting => aborting') BY <1>3 DEF Aborting
    <2>3. \A k \in n + 1..Depth : FALSE BY <1>4
    <2>4. n \in 1..Depth BY <1>4, <1>5
    <2>5. QED BY <1>1, <1>12, <2>1, <2>2, <2>3, <2>4, DoomedStays
  <1>16. Stands(Depth)
    <2>1. \A k \in n + 1..n : FALSE BY <1>4
    <2>2. Len(frames') \in {n, n + 1} /\ n \in 1..n BY <1>4, <1>5, <1>11
    <2>3. QED BY <1>4, <1>12, <1>14, <1>15, <2>1, <2>2 DEF Stands
  <1>17. QED BY <1>2, <1>3, <1>4, <1>5, <1>7, <1>8, <1>10, <1>11, <1>13, <1>16 DEF g

-----------------------------------------------------------------------------
(* Types.                                                                  *)

LEMMA FailToken ==
  ASSUME token \in [Producer -> BOOLEAN], NEW fs, NEW error, Fail(fs, error)
  PROVE  token' \in [Producer -> BOOLEAN]
  <1>1. CASE UNCHANGED <<outcome, caught, token>> BY <1>1
  <1>2. ASSUME NEW at, token' = [p \in Producer |-> token[p] /\ p <= fs[at].made]
        PROVE  token' \in [Producer -> BOOLEAN]
    <2>1. \A p \in Producer : (token[p] /\ p <= fs[at].made) \in BOOLEAN OBVIOUS
    <2>2. QED BY <1>2, <2>1
  <1>3. CASE token' = [p \in Producer |-> FALSE] BY <1>3
  <1>4. QED BY <1>1, <1>2, <1>3 DEF Fail

LEMMA Counted ==
  ASSUME ShapeInv, [Next]_vars
  PROVE  /\ errors' \in 0..MaxTroubles /\ errors <= errors' /\ stops' \in Seq({"cancel", "exit"})
         /\ token' \in [Producer -> BOOLEAN]
  <1> USE Bounds
  <1>1. /\ errors \in 0..MaxTroubles /\ stops \in Seq({"cancel", "exit"})
        /\ token \in [Producer -> BOOLEAN]
    BY DEF ShapeInv, TypeInv, VarInv
  <1>2. errors \in Nat /\ Len(stops) \in Nat /\ errors <= errors BY <1>1, LenProperties
  <1>3. ASSUME NEW fs, Raises(fs)
        PROVE  errors' \in 0..MaxTroubles /\ errors <= errors'
               /\ token' \in [Producer -> BOOLEAN]
    <2>1. errors + Len(stops) < MaxTroubles /\ errors' = errors + 1 BY <1>3 DEF Raises, Calm
    <2>2. token' \in [Producer -> BOOLEAN] BY <1>1, <1>3, FailToken DEF Raises
    <2>3. QED BY <1>2, <2>1, <2>2
  <1>4. CASE Raise \/ UnconsumedStream \/ TaskRaises
    BY <1>1, <1>3, <1>4 DEF Raise, UnconsumedStream, TaskRaises
  <1>5. CASE CheckUnit \/ CloseKeys
    BY <1>1, <1>2, <1>3, <1>5 DEF CheckUnit, CloseKeys, producing
  <1>6. CASE CleanupEnds
    <2>1. errors' = errors /\ stops' = stops BY <1>6 DEF CleanupEnds
    <2>2. token' = token \/ Fail(Below(frames), Top.error) BY <1>6 DEF CleanupEnds
    <2>3. QED BY <1>1, <1>2, <2>1, <2>2, FailToken
  <1>7. ASSUME NEW kind \in {"cancel", "exit"}, Stop(kind)
        PROVE  /\ errors' = errors /\ stops' \in Seq({"cancel", "exit"})
               /\ token' \in [Producer -> BOOLEAN]
    <2>1. errors' = errors /\ stops' = Append(stops, kind) BY <1>7 DEF Stop
    <2>2. token' = token \/ Fail(frames, Error(kind, 0)) BY <1>7 DEF Stop
    <2>3. stops' \in Seq({"cancel", "exit"}) BY <1>1, <2>1, AppendProperties
    <2>4. QED BY <1>1, <2>1, <2>2, <2>3, FailToken
  <1>8. CASE Boundary
    <2>1. errors' = errors /\ stops' = stops BY <1>8 DEF Boundary
    <2>2. token' = token \/ token' = [p \in Producer |-> FALSE] BY <1>8 DEF Boundary
    <2>3. QED BY <1>1, <1>2, <2>1, <2>2
  <1>9. CASE Produce \/ Consume \/ Opened
    <2>1. errors' = errors /\ stops' = stops BY <1>9 DEF Produce, Consume, Opened
    <2>2. \E p \in Producer, b \in BOOLEAN : token' = [token EXCEPT ![p] = b]
      BY <1>9 DEF Produce, Consume, Opened
    <2>3. QED BY <1>1, <1>2, <2>1, <2>2
  <1>10. CASE Finish
    <2>1. errors' = errors /\ stops' = stops BY <1>10 DEF Finish
    <2>2. \A p \in Producer : (token[p] /\ parent[p] # On) \in BOOLEAN OBVIOUS
    <2>3. token' \in [Producer -> BOOLEAN] BY <1>10, <2>2 DEF Finish
    <2>4. QED BY <1>1, <1>2, <2>1, <2>3
  <1>11. CASE UNCHANGED <<token, errors, stops>> BY <1>1, <1>2, <1>11
  <1>12. CASE \/ Open \/ Attempt \/ AttemptReturns \/ StatementEnds
              \/ Pull \/ Acquired \/ Yielded \/ Exhausted \/ Listed \/ SourceEnds \/ Consumes
              \/ Continued \/ Stopped \/ Settle \/ Done \/ CloseProducer \/ Released
              \/ ApplyReason \/ CloseScope \/ Finished \/ UNCHANGED vars
    <2>1. UNCHANGED <<token, errors, stops>>
      BY <1>12 DEF Open, Attempt, AttemptReturns, StatementEnds, Pull, Acquired, Yielded,
                   Exhausted, Listed, SourceEnds, Consumes, Continued, Stopped, Settle, Done,
                   CloseProducer, Released, ApplyReason, CloseScope, Finished, producing, vars
    <2>2. QED BY <1>11, <2>1
  <1>13. QED
    BY <1>1, <1>2, <1>4, <1>5, <1>6, <1>7, <1>8, <1>9, <1>10, <1>12
    DEF Next, Coded, Consumed, Cleaned, Stops

\* Where the stack of a step comes from.
LEMMA StepStands ==
  ASSUME ShapeInv, [Next]_vars
  PROVE  frames' = frames \/ frames' = <<>> \/ \E n \in 1..Depth : Stands(n)
  <1>1. Kinds /\ frames' \in Seq(Frame) BY StepIs
  <1>2. errors' \in 0..MaxTroubles BY Counted
  <1>3. CASE Produce \/ Open \/ UNCHANGED vars BY <1>3 DEF Produce, Open, vars
  <1>4. CASE Minor BY <1>1, <1>4, MinorStands DEF Stands
  <1>5. CASE Calling BY <1>1, <1>5, CallingStands DEF Stands
  <1>6. CASE Shutting BY <1>1, <1>6, ShuttingStands DEF Stands
  <1>7. CASE Ending BY <1>7 DEF Ending
  <1>8. CASE Consuming BY <1>1, <1>8, ConsumingStands DEF Stands
  <1>9. CASE Entering BY <1>1, <1>9, EnteringStands DEF Stands
  <1>10. CASE Answering BY <1>1, <1>10, AnsweringStands DEF Stands
  <1>11. CASE Joining BY <1>1, <1>11, JoiningStands DEF Stands
  <1>12. CASE Beginning BY <1>1, <1>12, BeginningStands DEF Stands
  <1>13. CASE Reasoning BY <1>1, <1>13, ReasoningStands DEF Stands
  <1>14. CASE Scoping BY <1>1, <1>14, ScopingStands DEF Stands
  <1>15. CASE Finishing BY <1>1, <1>15, FinishingStands DEF Stands
  <1>16. CASE Passing BY <1>1, <1>2, <1>16, PassingStands DEF Stands
  <1>17. CASE Interrupting BY <1>1, <1>17, InterruptingStands DEF Stands
  <1>18. CASE Failed
    <2>1. PICK m \in 1..Depth, error \in Errors, fs \in Seq(Frame) :
              /\ Origin(m, fs, error)
              /\ Deferred(fs, error) \/ Unwound(fs, error) \/ Returned(fs, error)
                 \/ GivenUp(fs, error)
      BY <1>18, FailedIs
    <2>2. CASE Deferred(fs, error) BY <2>1, <2>2, DeferredStands DEF Stands
    <2>3. CASE Unwound(fs, error) BY <2>1, <2>3, UnwoundStands DEF Stands
    <2>4. CASE Returned(fs, error) BY <2>1, <2>4, ReturnedStands DEF Stands
    <2>5. CASE GivenUp(fs, error) BY <2>5 DEF GivenUp
    <2>6. QED BY <2>1, <2>2, <2>3, <2>4, <2>5
  <1>19. QED
    BY <1>1, <1>3, <1>4, <1>5, <1>6, <1>7, <1>8, <1>9, <1>10, <1>11, <1>12, <1>13, <1>14, <1>15,
       <1>16, <1>17, <1>18
    DEF Kinds

LEMMA VarsHold ==
  ASSUME ShapeInv, [Next]_vars
  PROVE  VarInv'
  <1>1. Kinds /\ frames' \in Seq(Frame) BY StepIs
  <1>2. /\ errors' \in 0..MaxTroubles /\ stops' \in Seq({"cancel", "exit"})
        /\ token' \in [Producer -> BOOLEAN]
    BY Counted
  <1>3. /\ phase \in [Producer -> Phases]
        /\ parent \in [Producer -> Scope]
        /\ items \in [Producer -> NoState..MaxItems]
        /\ resources \in Seq(Scope) /\ Len(resources) <= MaxResources
        /\ live \subseteq 1..Len(resources)
        /\ aborting \in BOOLEAN
        /\ outcome \in Errors
        /\ caught \subseteq Errors
        /\ releases \in [Producer -> Seq(Int \cup Reason)]
    BY DEF ShapeInv, TypeInv, VarInv
  <1> DEFINE Made2 == /\ phase' \in [Producer -> Phases]
                      /\ parent' \in [Producer -> Scope]
                      /\ items' \in [Producer -> NoState..MaxItems]
             Opened2 == /\ resources' \in Seq(Scope) /\ Len(resources') <= MaxResources
                        /\ live' \subseteq 1..Len(resources')
             Ended2 == aborting' \in BOOLEAN /\ outcome' \in Errors /\ caught' \subseteq Errors
             Released2 == releases' \in [Producer -> Seq(Int \cup Reason)]
  <1>4. Made2 /\ Opened2 /\ Ended2 /\ Released2 => VarInv' BY <1>2 DEF VarInv
  <1>5. UNCHANGED <<phase, parent, items>> => Made2 BY <1>3
  <1>6. UNCHANGED opening => Opened2 BY <1>3 DEF opening
  <1>7. UNCHANGED <<aborting, outcome, caught>> => Ended2 BY <1>3
  <1>8. UNCHANGED releases => Released2 BY <1>3
  <1>9. \A p \in Producer, x \in Phases :
          phase' = [phase EXCEPT ![p] = x] => phase' \in [Producer -> Phases]
    BY <1>3
  <1>10. \A p \in Producer, x \in Int \cup Reason :
           releases' = [releases EXCEPT ![p] = Append(@, x)] => Released2
    <2> SUFFICES ASSUME NEW p \in Producer, NEW x \in Int \cup Reason,
                        releases' = [releases EXCEPT ![p] = Append(@, x)]
                 PROVE  Released2
      OBVIOUS
    <2>1. Append(releases[p], x) \in Seq(Int \cup Reason) BY <1>3, AppendProperties
    <2>2. QED BY <1>3, <2>1
  <1> HIDE DEF Opened2, Ended2, Released2
  <1>11. CASE Produce
    <2>1. UNCHANGED <<items, opening, aborting, outcome, caught, releases>>
      BY <1>11 DEF Produce, ending
    <2>2. \E p \in Producer : /\ phase' = [phase EXCEPT ![p] = "new"]
                              /\ parent' = [parent EXCEPT ![p] = Top.owner]
      BY <1>11 DEF Produce
    <2>3. Top.owner \in Scope
      <3>1. Running /\ Top.kind = "body" BY <1>11 DEF Produce, Coding, OnTop
      <3>2. QED BY <3>1, TopIs, OwnerFields
    <2>4. "new" \in Phases BY DEF Phases
    <2>5. phase' \in [Producer -> Phases] /\ parent' \in [Producer -> Scope]
      BY <1>3, <1>9, <2>2, <2>3, <2>4
    <2>6. items' \in [Producer -> NoState..MaxItems] BY <1>3, <2>1
    <2>7. QED BY <1>4, <1>6, <1>7, <1>8, <2>1, <2>5, <2>6
  <1>12. CASE Open
    <2>1. UNCHANGED <<phase, parent, items, aborting, outcome, caught, releases>>
      BY <1>12 DEF Open, producing, ending
    <2>2. /\ Len(resources) < MaxResources
          /\ resources' = Append(resources, Top.owner)
          /\ live' = live \cup {Len(resources) + 1}
      BY <1>12 DEF Open
    <2>3. Top.owner \in Scope
      <3>1. Running /\ Top.kind = "body" BY <1>12 DEF Open, Coding, OnTop
      <3>2. QED BY <3>1, TopIs, OwnerFields
    <2>4. resources' \in Seq(Scope) /\ Len(resources') = Len(resources) + 1
      BY <1>3, <2>2, <2>3, AppendProperties
    <2>5. PICK l \in Nat : l = Len(resources) BY <1>3, LenProperties
    <2>6. Opened2
      <3>1. l < MaxResources /\ live \subseteq 1..l /\ live' = live \cup {l + 1}
        BY <1>3, <2>2, <2>5
      <3>2. l + 1 <= MaxResources /\ live' \subseteq 1..l + 1 BY <3>1, Bounds
      <3>3. QED BY <2>4, <2>5, <3>2 DEF Opened2
    <2>7. QED BY <1>4, <1>5, <1>7, <1>8, <2>1, <2>6
  <1>13. CASE Minor \/ Calling \/ Scoping
    <2>1. Still BY <1>13 DEF Minor, Calling, Scoping
    <2>2. UNCHANGED <<phase, parent, items, opening, aborting, outcome, caught, releases>>
      BY <2>1 DEF Still, producing, ending
    <2>3. QED BY <1>4, <1>5, <1>6, <1>7, <1>8, <2>2
  <1>14. CASE Shutting \/ Consuming \/ Joining \/ UNCHANGED vars
    <2>1. UNCHANGED <<phase, parent, items, opening, aborting, outcome, caught, releases>>
      BY <1>14 DEF Shutting, Consuming, Joining, vars, producing, ending
    <2>2. QED BY <1>4, <1>5, <1>6, <1>7, <1>8, <2>1
  <1>15. CASE Ending
    <2>1. UNCHANGED <<phase, parent, items, opening, aborting, caught, releases>>
          /\ outcome' \in Errors
      BY <1>15, ErrorIs, Bounds DEF Ending
    <2>2. Ended2 BY <1>3, <2>1 DEF Ended2
    <2>3. QED BY <1>4, <1>5, <1>6, <1>8, <2>1, <2>2
  <1>16. CASE Entering
    <2>1. UNCHANGED <<parent, items, opening, aborting, outcome, caught, releases>>
      BY <1>16 DEF Entering, ending
    <2>2. PICK p \in Top.graph, g \in Bodies :
            phase' = [phase EXCEPT ![p] = IF g.job = "acquire" THEN "acquiring" ELSE "stepping"]
      BY <1>16 DEF Entering
    <2>3. p \in Producer
      <3>1. Top \in TaskFrames BY <1>16 DEF Entering
      <3>2. QED BY <3>1, TaskFields
    <2>4. (IF g.job = "acquire" THEN "acquiring" ELSE "stepping") \in Phases BY DEF Phases
    <2>5. phase' \in [Producer -> Phases] BY <1>9, <2>2, <2>3, <2>4
    <2>6. Made2 BY <1>3, <2>1, <2>5
    <2>7. QED BY <1>4, <1>6, <1>7, <1>8, <2>1, <2>6
  <1>17. CASE Answering
    <2>1. UNCHANGED <<parent, opening, aborting, outcome, caught, releases>>
      BY <1>17 DEF Answering, ending
    <2>2. /\ Top \in Bodies /\ Top.job \in {"acquire", "step"}
          /\ phase' = [phase EXCEPT ![Top.of] = "ready"]
          /\ Top.job = "acquire" => items' = [items EXCEPT ![Top.of] = 0]
          /\ Top.job = "step" => \/ items' = items
                                 \/ /\ items[Top.of] < MaxItems
                                    /\ items' = [items EXCEPT ![Top.of] = @ + 1]
      BY <1>17 DEF Answering
    <2>3. Top.of \in Producer BY <2>2, BodyFields DEF Callbacks
    <2>4. "ready" \in Phases BY DEF Phases
    <2>5. phase' \in [Producer -> Phases] BY <1>9, <2>2, <2>3, <2>4
    <2>6. items' \in [Producer -> NoState..MaxItems]
      <3>1. 0 \in NoState..MaxItems BY Bounds DEF NoState
      <3>2. CASE Top.job = "acquire" BY <1>3, <2>2, <2>3, <3>1, <3>2
      <3>3. CASE items' = items BY <1>3, <3>3
      <3>4. CASE items[Top.of] < MaxItems /\ items' = [items EXCEPT ![Top.of] = @ + 1]
        <4>1. items[Top.of] \in NoState..MaxItems BY <1>3, <2>3
        <4>2. items[Top.of] + 1 \in NoState..MaxItems BY <3>4, <4>1, Bounds DEF NoState
        <4>3. QED BY <1>3, <2>3, <3>4, <4>2
      <3>5. QED BY <2>2, <3>2, <3>3, <3>4
    <2>7. Made2 BY <1>3, <2>1, <2>5, <2>6
    <2>8. QED BY <1>4, <1>6, <1>7, <1>8, <2>1, <2>7
  <1>18. CASE Beginning
    <2>1. UNCHANGED <<parent, items, opening, aborting, outcome, caught>>
      BY <1>18 DEF Beginning, ending
    <2>2. PICK p \in Producer : /\ phase' = [phase EXCEPT ![p] = "closing"]
                                /\ Releases(p) \/ Discards(p)
      BY <1>18 DEF Beginning
    <2>3. "closing" \in Phases BY DEF Phases
    <2>4. Made2 BY <1>3, <1>9, <2>1, <2>2, <2>3
    <2>5. items[p] \in Int \cup Reason BY <1>3, Bounds DEF NoState
    <2>6. Released2
      <3>1. releases' = releases \/ releases' = [releases EXCEPT ![p] = Append(@, items[p])]
        BY <2>2 DEF Releases, Discards
      <3>2. QED BY <1>8, <1>10, <2>5, <3>1
    <2>7. QED BY <1>4, <1>6, <1>7, <2>1, <2>4, <2>6
  <1>19. CASE Reasoning
    <2>1. UNCHANGED <<phase, parent, items, opening, aborting, outcome, caught>>
      BY <1>19 DEF Reasoning, ending, producing
    <2>2. /\ Top \in CleanupFrames
          /\ \E p \in Producer : releases' = [releases EXCEPT ![p] = Append(@, Top.reason)]
      BY <1>19 DEF Reasoning
    <2>3. Top.reason \in Int \cup Reason BY <2>2, CleanupFields
    <2>4. Released2 BY <1>10, <2>2, <2>3
    <2>5. QED BY <1>4, <1>5, <1>6, <1>7, <2>1, <2>4
  <1>20. CASE Finishing
    <2>1. UNCHANGED <<parent, items, opening, aborting, outcome, caught, releases>>
      BY <1>20 DEF Finishing, ending
    <2>2. \E p \in Producer : phase' = [phase EXCEPT ![p] = "closed"]
      BY <1>20 DEF Finishing
    <2>3. "closed" \in Phases BY DEF Phases
    <2>4. Made2 BY <1>3, <1>9, <2>1, <2>2, <2>3
    <2>5. QED BY <1>4, <1>6, <1>7, <1>8, <2>1, <2>4
  <1>21. CASE Passing
    <2>1. /\ UNCHANGED <<phase, parent, items, resources, outcome, caught, releases>>
          /\ live' \subseteq live
      BY <1>21 DEF Passing, producing
    <2>2. Aborting BY <1>1, <1>2, <1>21, PassingStands
    <2>3. Ended2 BY <1>3, <2>1, <2>2 DEF Ended2, Aborting
    <2>4. Opened2 BY <1>3, <2>1 DEF Opened2
    <2>5. QED BY <1>4, <1>5, <1>8, <2>1, <2>3, <2>4
  <1>22. CASE Interrupting
    <2>1. /\ UNCHANGED <<phase, parent, items, opening, outcome, caught, releases>>
          /\ aborting' = TRUE
      BY <1>22 DEF Interrupting, producing
    <2>2. Ended2 BY <1>3, <2>1 DEF Ended2
    <2>3. QED BY <1>4, <1>5, <1>6, <1>8, <2>1, <2>2
  <1>23. CASE Failed
    <2>1. UNCHANGED <<phase, parent, items, opening, releases>> BY <1>23, FailedIs
    <2>2. PICK m \in 1..Depth, error \in Errors, fs \in Seq(Frame) :
              /\ Origin(m, fs, error)
              /\ Deferred(fs, error) \/ Unwound(fs, error) \/ Returned(fs, error)
                 \/ GivenUp(fs, error)
      BY <1>23, FailedIs
    <2>3. Aborts(error) \in BOOLEAN BY <2>2, OriginIs
    <2>4. Ended2
      <3>1. CASE Deferred(fs, error) BY <1>3, <2>3, <3>1 DEF Deferred, Ended2
      <3>2. CASE Unwound(fs, error) BY <1>3, <2>3, <3>2 DEF Unwound, Ended2
      <3>3. CASE Returned(fs, error) BY <1>3, <2>3, <3>3 DEF Returned, Ended2
      <3>4. CASE GivenUp(fs, error) BY <1>3, <3>4 DEF GivenUp, Ended2
      <3>5. QED BY <2>2, <3>1, <3>2, <3>3, <3>4
    <2>5. QED BY <1>4, <1>5, <1>6, <1>8, <2>1, <2>4
  <1>24. QED
    BY <1>1, <1>11, <1>12, <1>13, <1>14, <1>15, <1>16, <1>17, <1>18, <1>19, <1>20, <1>21, <1>22,
       <1>23
    DEF Kinds

LEMMA ShapeStep ==
  ASSUME ShapeInv, [Next]_vars
  PROVE  ShapeInv'
  <1>1. frames' \in Seq(Frame) BY StepIs
  <1>2. VarInv' BY VarsHold
  <1>3. Stacked(frames')
    <2>1. CASE frames' = frames BY <2>1 DEF ShapeInv
    <2>2. CASE frames' = <<>>
      <3> DEFINE e == <<>>
      <3>1. Len(e) = 0 OBVIOUS
      <3> HIDE DEF e
      <3>2. \A i \in 2..Len(e) : FALSE BY <3>1
      <3>3. Stacked(e) BY <3>2 DEF Stacked, e
      <3>4. QED BY <2>2, <3>3 DEF e
    <2>3. CASE \E n \in 1..Depth : Stands(n) BY <2>3 DEF Stands
    <2>4. QED BY <2>1, <2>2, <2>3, StepStands
  <1>4. QED BY <1>1, <1>2, <1>3 DEF ShapeInv, TypeInv

LEMMA ShapeInit ==
  ASSUME Init
  PROVE  ShapeInv
  <1> DEFINE f == [kind |-> "body", job |-> "entry", of |-> 0, owner |-> 0, made |-> 0,
                   opened |-> 0]
  <1>1. f \in Bodies BY Bounds DEF Bodies, Jobs, Callbacks, Scope
  <1>2. Bottom(f) BY DEF Bottom
  <1>3. f \in Frame BY <1>1 DEF Frame
  <1> HIDE DEF f
  <1>4. frames = <<f>> BY DEF Init, f
  <1>5. frames \in Seq(Frame) /\ Len(frames) = 1 /\ frames[1] = f BY <1>3, <1>4
  <1>6. Stacked(frames)
    <2>1. \A i \in 2..Len(frames) : FALSE BY <1>5
    <2>2. QED BY <1>2, <1>5, <2>1 DEF Stacked
  <1>7. None \in Errors BY ErrorIs, Bounds
  <1>8. /\ phase = [p \in Producer |-> "none"] /\ parent = [p \in Producer |-> 0]
        /\ token = [p \in Producer |-> FALSE] /\ items = [p \in Producer |-> NoState]
        /\ resources = <<>> /\ live = {} /\ aborting = FALSE /\ outcome = None
        /\ errors = 0 /\ stops = <<>> /\ caught = {}
        /\ releases = [p \in Producer |-> <<>>]
    BY DEF Init
  <1>9. /\ phase \in [Producer -> Phases] /\ parent \in [Producer -> Scope]
        /\ token \in [Producer -> BOOLEAN] /\ items \in [Producer -> NoState..MaxItems]
    BY <1>8, Bounds DEF Phases, Scope, NoState
  <1>10. /\ resources \in Seq(Scope) /\ Len(resources) <= MaxResources
         /\ live \subseteq 1..Len(resources) /\ errors \in 0..MaxTroubles
         /\ stops \in Seq({"cancel", "exit"})
    BY <1>8, Bounds
  <1>11. <<>> \in Seq(Int \cup Reason) OBVIOUS
  <1>12. releases \in [Producer -> Seq(Int \cup Reason)] BY <1>8, <1>11
  <1>13. VarInv BY <1>7, <1>8, <1>9, <1>10, <1>12 DEF VarInv
  <1>14. QED BY <1>5, <1>6, <1>13 DEF ShapeInv, TypeInv

LEMMA ShapeAlways == Spec => []ShapeInv
  BY ShapeInit, ShapeStep, PTL DEF Spec

LEMMA FrameIsOK ==
  ASSUME NEW f \in Frame
  PROVE  FrameOK(f)
  <1>1. CASE f \in Bodies
    BY <1>1, BodyFields DEF FrameOK, Jobs
  <1>2. CASE f \in TaskFrames
    <2>1. f.kind = "task" /\ f.at \in Stages BY <1>2, TaskFields
    <2>2. /\ f.consumer \in Consumers /\ f.owner \in Scope
          /\ {f.outer, f.inner, f.from} \subseteq Scope
          /\ f.graph \subseteq Producer /\ f.owned \subseteq f.graph
      BY <1>2, TaskFields
    <2>3. QED BY <2>1, <2>2 DEF FrameOK, Stages
  <1>3. CASE f \in CleanupFrames
    <2>1. /\ f.kind = "cleanup" /\ f.reason \in Reason
          /\ f.after \in {"resume", "boundary", "unwind"} /\ f.error \in Errors
          /\ f.actions \in Seq(Actions)
      BY <1>3, CleanupFields DEF Causes
    <2>2. \A i \in DOMAIN f.actions : f.actions[i] \in Actions
      <3>1. DOMAIN f.actions = 1..Len(f.actions) BY <2>1, LenProperties
      <3>2. QED BY <2>1, <3>1, ElementOfSeq
    <2>3. \A a \in Actions :
            /\ a.do \in {"producer", "second", "check", "scope", "close", "finish"}
            /\ IF a.do = "close" THEN a.on \subseteq 1..MaxResources ELSE a.on \in Producer
      BY DEF Actions
    <2>4. QED BY <2>1, <2>2, <2>3 DEF FrameOK
  <1>4. QED BY <1>1, <1>2, <1>3 DEF Frame

\* Every variable has its type and every frame its shape, whatever the program's code
\* does and whenever an error, an interrupt or an exit arrives.
THEOREM ProducersTypes == Spec => []TypeOK
  <1>1. ASSUME ShapeInv PROVE TypeOK
    <2>1. frames \in Seq(Frame) /\ VarInv BY <1>1 DEF ShapeInv, TypeInv
    <2>2. \A i \in DOMAIN frames : FrameOK(frames[i])
      <3>1. DOMAIN frames = 1..Len(frames) BY <2>1, LenProperties
      <3>2. \A i \in DOMAIN frames : frames[i] \in Frame BY <2>1, <3>1, ElementOfSeq
      <3>3. QED BY <3>2, FrameIsOK
    <2>3. QED BY <2>1, <2>2 DEF VarInv, TypeOK, Phases
  <1>2. QED BY <1>1, ShapeAlways, PTL

-----------------------------------------------------------------------------
(* What a step leaves of the cleanups, and of the consumers.               *)

Ruins == UNCHANGED <<phase, parent, items, opening, releases>>
Deferring ==
  Ruins /\ \E m, error, fs : Origin(m, fs, error) /\ Deferred(fs, error)
Unwinding ==
  Ruins /\ \E m, error, fs : Origin(m, fs, error) /\ Unwound(fs, error)
Returning ==
  Ruins /\ \E m, error, fs : Origin(m, fs, error) /\ Returned(fs, error)
Quitting ==
  Ruins /\ \E m, error, fs : Origin(m, fs, error) /\ GivenUp(fs, error)

LEMMA FailedKinds ==
  ASSUME ShapeInv, Failed
  PROVE  Deferring \/ Unwinding \/ Returning \/ Quitting
  BY FailedIs DEF Deferring, Unwinding, Returning, Quitting, Ruins

\* No cleanup goes on with its actions.
Quiet(n) ==
  /\ Stands(n)
  /\ \A i \in 1..n : frames[i].kind = "cleanup" => frames'[i].actions = frames[i].actions

\* A new cleanup closes the producers S and the resources of keys: those of a
\* consumer, all that the boundary finds, the one whose step ends, or those that an
\* error leaves open.
Purpose(n, S, keys) ==
  \/ n = Depth /\ Top.kind = "task" /\ S \subseteq Top.graph
  \/ n = Depth /\ Top.kind = "body" /\ Top.job = "ended" /\ \A p \in S : Active(p)
  \/ Answering /\ n + 1 = Depth /\ S = {Top.of}
  \/ Unwinding /\ \E fs, error :
       /\ Origin(n, fs, error) /\ Unwound(fs, error)
       /\ S = LeftOpen(fs, Checkpoint(fs, Aborts(error)))
       /\ keys = Unclosed(fs, Checkpoint(fs, Aborts(error)))

Fresh(n) ==
  frames'[n + 1].kind = "cleanup" =>
    \E S \in SUBSET Producer, keys \in SUBSET live :
      Closes(frames'[n + 1].actions, S, keys) /\ Purpose(n, S, keys)

\* What is entered on top of n belongs to the scope of n, or is the callback of a
\* producer that demand reaches.
Inherits(n, g) ==
  /\ frames[n].kind # "cleanup" /\ g.owner = frames[n].owner
  /\ g.kind = "body" => g.job \notin {"acquire", "step"}
  /\ \A j \in n + 1..Depth : frames[j].kind # "cleanup"
Demands(n, g) ==
  /\ n = Depth /\ g.kind = "body" /\ g.job \in {"acquire", "step"}
  /\ g.of \in Producer /\ g.owner = g.of
  /\ phase' = [phase EXCEPT ![g.of] = IF g.job = "acquire" THEN "acquiring" ELSE "stepping"]
Entered(n) ==
  frames'[n + 1].kind # "cleanup" => Inherits(n, frames'[n + 1]) \/ Demands(n, frames'[n + 1])

Gently(n) ==
  \/ Minor \/ Calling \/ Shutting \/ Consuming \/ Entering \/ Joining
  \/ Unwinding \/ Returning \/ Interrupting
  \/ Answering /\ n + 1 = Depth

Quieting(n) == Quiet(n) /\ Gently(n) /\ (Len(frames') = n + 1 => Fresh(n) /\ Entered(n))

\* The cleanup at n has done its first d actions and is to do x before the others.
Working(n, d, x) ==
  /\ Stands(n) /\ Same(n)
  /\ frames[n] \in CleanupFrames /\ frames'[n] \in CleanupFrames
  /\ Follows(frames[n].actions, frames'[n].actions, d, x)
  /\ Len(frames') = n + 1 =>
       frames'[n + 1].kind = "body" /\ frames'[n + 1].job \in {"release", "reason"}

LEMMA SameQuiet ==
  ASSUME ShapeInv, NEW n, Stands(n), Same(n),
         frames[n].kind = "cleanup" => frames'[n].actions = frames[n].actions
  PROVE  Quiet(n)
  <1>1. n \in 1..Depth BY DEF Stands
  <1>2. n \in Int
    <2>1. Len(frames) \in Nat BY LenProperties DEF ShapeInv, TypeInv
    <2>2. QED BY <1>1, <2>1 DEF Depth
  <1>3. \A i \in 1..n : i = n \/ i \in 1..n - 1 BY <1>2
  <1>4. \A i \in 1..n - 1 : frames'[i] = frames[i] BY DEF Same
  <1>5. QED BY <1>3, <1>4 DEF Quiet

LEMMA QuietIs ==
  ASSUME ShapeInv, frames' \in Seq(Frame),
         \/ Minor \/ Calling \/ Shutting \/ Consuming \/ Entering \/ Answering \/ Joining
         \/ Unwinding \/ Returning \/ Interrupting
  PROVE  \E n \in 1..Depth : Quieting(n)
  <1>1. \A n : Stands(n) => n \in 1..Depth BY DEF Stands
  <1>2. Depth \in Nat BY LenProperties DEF Depth, ShapeInv, TypeInv
  <1>3. \A n \in 1..Depth : n \in Nat /\ (Len(frames') = n => Len(frames') # n + 1) BY <1>2
  <1>4. CASE Minor
    <2>1. PICK n \in Nat : /\ Stands(n) /\ Len(frames') = n /\ Same(n)
                           /\ Alike(frames[n], frames'[n])
      BY <1>4, MinorStands
    <2>2. Quiet(n) BY <2>1, SameQuiet DEF Alike
    <2>3. QED BY <1>1, <1>3, <1>4, <2>1, <2>2 DEF Quieting, Gently
  <1>5. CASE Calling
    <2>1. /\ Running /\ Stands(Depth) /\ Len(frames') = Depth + 1 /\ Same(Depth)
          /\ Alike(Top, frames'[Depth]) /\ frames'[Depth + 1] \in Bodies
          /\ Enters(frames'[Depth + 1], {"attempt", "fold"}, Top.owner)
      BY <1>5, CallingStands
    <2>2. Top = frames[Depth] BY <2>1, TopIs
    <2>3. Quiet(Depth) BY <2>1, <2>2, SameQuiet DEF Alike
    <2>4. frames'[Depth + 1].kind # "cleanup" BY <2>1, BodyFields
    <2>5. Inherits(Depth, frames'[Depth + 1])
      <3>1. Top.kind # "cleanup" BY <1>5 DEF Calling
      <3>2. frames'[Depth + 1].job \notin {"acquire", "step"}
            /\ frames'[Depth + 1].owner = Top.owner
        BY <2>1 DEF Enters
      <3>3. Depth + 1..Depth = {} BY <1>2
      <3>4. QED BY <2>2, <3>1, <3>2, <3>3 DEF Inherits
    <2>6. Fresh(Depth) /\ Entered(Depth) BY <2>4, <2>5 DEF Fresh, Entered
    <2>7. QED BY <1>1, <1>5, <2>1, <2>3, <2>6 DEF Quieting, Gently
  <1>6. CASE Shutting
    <2>1. /\ Running /\ Stands(Depth) /\ Len(frames') = Depth + 1 /\ Same(Depth)
          /\ Alike(Top, frames'[Depth])
          /\ \E g \in CleanupFrames, S \in SUBSET Producer, keys \in SUBSET live :
               /\ frames'[Depth + 1] = g
               /\ Closes(g.actions, S, keys)
               /\ \/ Top.kind = "task" /\ S \subseteq Top.graph
                  \/ Top.kind = "body" /\ Top.job = "ended" /\ \A p \in S : Active(p)
      BY <1>6, ShuttingStands
    <2>2. Top = frames[Depth] BY <2>1, TopIs
    <2>3. Quiet(Depth) BY <2>1, <2>2, SameQuiet DEF Alike
    <2>4. Fresh(Depth) BY <2>1 DEF Fresh, Purpose
    <2>5. frames'[Depth + 1].kind = "cleanup" BY <2>1, CleanupFields
    <2>6. QED BY <1>1, <1>6, <2>1, <2>3, <2>4, <2>5 DEF Quieting, Gently, Entered
  <1>7. CASE Consuming
    <2>1. /\ Running /\ Stands(Depth) /\ Len(frames') = Depth + 1 /\ Same(Depth)
          /\ Top.kind = "body" /\ frames'[Depth] = Top /\ frames'[Depth + 1] \in TaskFrames
          /\ frames'[Depth + 1].owner = Top.owner
      BY <1>7, ConsumingStands
    <2>2. Top = frames[Depth] BY <2>1, TopIs
    <2>3. Quiet(Depth) BY <2>1, <2>2, SameQuiet
    <2>4. frames'[Depth + 1].kind = "task" BY <2>1, TaskFields
    <2>5. Inherits(Depth, frames'[Depth + 1])
      <3>1. Depth + 1..Depth = {} BY <1>2
      <3>2. QED BY <2>1, <2>2, <2>4, <3>1 DEF Inherits
    <2>6. Fresh(Depth) /\ Entered(Depth) BY <2>4, <2>5 DEF Fresh, Entered
    <2>7. QED BY <1>1, <1>7, <2>1, <2>3, <2>6 DEF Quieting, Gently
  <1>8. CASE Entering
    <2>1. /\ Running /\ Stands(Depth) /\ Len(frames') = Depth + 1 /\ Same(Depth)
          /\ Alike(Top, frames'[Depth]) /\ frames'[Depth + 1] \in Bodies
          /\ \E p : /\ frames'[Depth + 1].of = p
                    /\ Enters(frames'[Depth + 1], {"acquire", "step"}, p)
                    /\ phase' = [phase EXCEPT ![p] =
                                  IF frames'[Depth + 1].job = "acquire" THEN "acquiring" ELSE "stepping"]
      BY <1>8, EnteringStands
    <2>2. Top = frames[Depth] BY <2>1, TopIs
    <2>3. Quiet(Depth) BY <2>1, <2>2, SameQuiet DEF Alike
    <2>4. frames'[Depth + 1].kind # "cleanup" BY <2>1, BodyFields
    <2>5. Demands(Depth, frames'[Depth + 1])
      <3>1. frames'[Depth + 1].job \in {"acquire", "step"} BY <2>1 DEF Enters
      <3>2. frames'[Depth + 1].kind = "body" /\ frames'[Depth + 1].of \in Producer
        BY <2>1, <3>1, BodyFields DEF Callbacks
      <3>3. frames'[Depth + 1].owner = frames'[Depth + 1].of BY <2>1 DEF Enters
      <3>4. QED BY <2>1, <3>1, <3>2, <3>3 DEF Demands
    <2>6. Fresh(Depth) /\ Entered(Depth) BY <2>4, <2>5 DEF Fresh, Entered
    <2>7. QED BY <1>1, <1>8, <2>1, <2>3, <2>6 DEF Quieting, Gently
  <1>9. CASE Answering
    <2> DEFINE m == Depth - 1
    <2>1. /\ Running /\ Depth > 1 /\ Stands(m) /\ Same(m)
          /\ Caller = frames[m] /\ Alike(Caller, frames'[m])
          /\ \/ Len(frames') = m
             \/ /\ Len(frames') = Depth /\ frames'[Depth] \in Bodies
                /\ Enters(frames'[Depth], {"transform"}, Caller.owner)
             \/ /\ Len(frames') = Depth /\ frames'[Depth] \in CleanupFrames
                /\ Closes(frames'[Depth].actions, {Top.of}, {})
      BY <1>9, AnsweringStands
    <2>2. Quiet(m) BY <2>1, SameQuiet DEF Alike
    <2>3. m + 1 = Depth /\ m \in Nat BY <1>2, <2>1
    <2>4. Top.of \in Producer BY <1>9, BodyFields DEF Answering, Callbacks
    <2> HIDE DEF m
    <2>c. Caller \in TaskFrames /\ Top \in Bodies BY <1>9 DEF Answering
    <2>5. (Fresh(m) /\ Entered(m)) \/ Len(frames') = m
      <3>1. CASE /\ Len(frames') = Depth /\ frames'[Depth] \in Bodies
                 /\ Enters(frames'[Depth], {"transform"}, Caller.owner)
        <4>1. frames'[Depth].kind = "body" BY <3>1, BodyFields
        <4>2. frames[m].kind = "task" BY <2>1, <2>c, TaskFields
        <4>3. Top = frames[Depth] /\ Top.kind = "body" BY <2>1, <2>c, TopIs, BodyFields
        <4>4. m + 1..Depth = {Depth} BY <2>3
        <4>5. frames'[Depth].job \notin {"acquire", "step"} /\ frames'[Depth].owner = Caller.owner
          BY <3>1 DEF Enters
        <4>6. Inherits(m, frames'[Depth]) BY <2>1, <4>2, <4>3, <4>4, <4>5 DEF Inherits
        <4>7. QED BY <2>3, <4>1, <4>6 DEF Fresh, Entered
      <3>2. CASE /\ Len(frames') = Depth /\ frames'[Depth] \in CleanupFrames
                 /\ Closes(frames'[Depth].actions, {Top.of}, {})
        <4>1. {Top.of} \in SUBSET Producer /\ {} \in SUBSET live BY <2>4
        <4>2. Purpose(m, {Top.of}, {}) BY <1>9, <2>3 DEF Purpose
        <4>3. frames'[Depth].kind = "cleanup" BY <3>2, CleanupFields
        <4>4. QED BY <2>3, <3>2, <4>1, <4>2, <4>3 DEF Fresh, Entered
      <3>3. QED BY <2>1, <3>1, <3>2
    <2>6. Gently(m) BY <1>9, <2>3 DEF Gently
    <2>7. QED BY <1>1, <1>3, <2>1, <2>2, <2>5, <2>6 DEF Quieting
  <1>10. CASE Joining
    <2> DEFINE m == Depth - 1
    <2>1. /\ Stands(m) /\ Len(frames') = m /\ Same(m)
          /\ Caller = frames[m] /\ Caller \in TaskFrames
      BY <1>10, JoiningStands
    <2> HIDE DEF m
    <2>2. frames[m].kind # "cleanup" BY <2>1, TaskFields
    <2>3. Quiet(m) BY <2>1, <2>2, SameQuiet
    <2>4. QED BY <1>1, <1>3, <1>10, <2>1, <2>3 DEF Quieting, Gently
  <1>11. CASE Unwinding
    <2>1. PICK m, error, fs : Origin(m, fs, error) /\ Unwound(fs, error)
      BY <1>11 DEF Unwinding
    <2> DEFINE at == Checkpoint(fs, Aborts(error))
               S == LeftOpen(fs, at)
               keys == Unclosed(fs, at)
    <2>2. /\ at \in 0..m
          /\ Stands(m) /\ Len(frames') = m + 1 /\ Same(m)
          /\ frames'[m] = frames[m]
          /\ Closes(frames'[m + 1].actions, S, keys)
      BY <2>1, UnwoundStands
    <2>a. fs \in Seq(Frame) /\ Len(fs) = m /\ m \in 1..Depth BY <2>1, OriginIs
    <2>b. at > 0 => IsAttempt(fs[at]) BY <2>1, UnwoundStands
    <2> HIDE DEF at
    <2>3. S \in SUBSET Producer BY <2>a, <2>b, <2>2, AbandonedIs
    <2>4. keys \in SUBSET live BY DEF Unclosed
    <2> USE DEF at
    <2>5. Purpose(m, S, keys) BY <1>11, <2>1 DEF Purpose
    <2> HIDE DEF S, keys, at
    <2>6. Quiet(m) BY <2>2, SameQuiet
    <2>7. Fresh(m) BY <2>2, <2>3, <2>4, <2>5 DEF Fresh
    <2>8. frames'[m + 1].kind = "cleanup" BY <2>1, UnwoundStands, CleanupFields
    <2>9. QED BY <1>11, <2>a, <2>6, <2>7, <2>8 DEF Quieting, Gently, Entered
  <1>12. CASE Returning
    <2>1. PICK m, error, fs : Origin(m, fs, error) /\ Returned(fs, error)
      BY <1>12 DEF Returning
    <2> DEFINE n == Checkpoint(fs, Aborts(error)) - 1
    <2>2. Stands(n) /\ Len(frames') = n /\ Same(n) /\ frames'[n] = frames[n]
      BY <2>1, ReturnedStands
    <2> HIDE DEF n
    <2>3. Quiet(n) BY <2>2, SameQuiet
    <2>4. QED BY <1>1, <1>3, <1>12, <2>2, <2>3 DEF Quieting, Gently
  <1>13. CASE Interrupting
    <2>1. /\ Running /\ Stands(Depth) /\ Len(frames') = Depth
          /\ \A j \in 1..Depth : frames[j].kind = "cleanup" =>
               frames'[j].actions = frames[j].actions
      BY <1>13, InterruptingStands
    <2>2. Quiet(Depth) BY <2>1 DEF Quiet
    <2>3. QED BY <1>1, <1>3, <1>13, <2>1, <2>2 DEF Quieting, Gently
  <1>14. QED BY <1>4, <1>5, <1>6, <1>7, <1>8, <1>9, <1>10, <1>11, <1>12, <1>13

(* Of the running producers' phases, the ones that a step leaves alone.    *)
\* What exists goes on existing, in its scope, and no token comes back.
Lasting ==
  \A p \in Producer : phase[p] # "none" =>
    phase'[p] # "none" /\ parent'[p] = parent[p] /\ (token'[p] => token[p])
\* Nothing is constructed.
Barren ==
  \A p \in Producer : phase[p] = "none" => phase'[p] = "none" /\ (token'[p] => token[p])

\* A consumer's graph are producers of its scope whose streams are consumed, and no
\* two consumers share one.
GraphInv ==
  /\ \A i \in 1..Depth : frames[i].kind = "task" =>
       \A p \in frames[i].graph :
         phase[p] # "none" /\ ~token[p] /\ parent[p] = frames[i].owner
  /\ \A i, j \in 1..Depth :
       frames[i].kind = "task" /\ frames[j].kind = "task" /\ i # j =>
         frames[i].graph \cap frames[j].graph = {}
\* Producers are constructed in their order; only one that has been is finished, and
\* what runs on top of a callback has been entered after that one's producer was made.
MadeInv ==
  /\ \A p \in Producer : phase[p] = "none" => ~token[p]
  /\ \A p, q \in Producer : q <= p /\ phase[p] # "none" => phase[q] # "none"
  /\ \A i \in 1..Depth : frames[i].kind = "cleanup" =>
       \A k \in 1..Len(frames[i].actions) :
         frames[i].actions[k].do = "finish" => phase[frames[i].actions[k].on] # "none"
  /\ \A k, i \in 1..Depth :
       /\ frames[k].kind = "body" /\ frames[i].kind = "body"
       /\ k < i /\ frames[k].job \in {"acquire", "step"}
       => frames[k].of <= frames[i].made

LEMMA PhasesStep ==
  ASSUME ShapeInv, GraphInv, MadeInv, [Next]_vars
  PROVE  Lasting /\ (Barren \/ Produce)
  <1>1. Kinds /\ frames' \in Seq(Frame) BY StepIs
  <1>2. /\ phase \in [Producer -> Phases] /\ parent \in [Producer -> Scope]
        /\ token \in [Producer -> BOOLEAN]
    BY DEF ShapeInv, TypeInv, VarInv
  <1>a. /\ \A i \in 1..Depth : frames[i] \in Frame
        /\ Running => Depth \in 1..Depth /\ Top = frames[Depth]
    <2>1. CASE Running
      BY <2>1, TopIs
    <2>2. CASE ~Running
      <3>1. Depth = 0 BY <2>2 DEF Running, Depth
      <3>2. QED BY <2>2, <3>1
    <2>3. QED BY <2>1, <2>2
  <1>3. ASSUME UNCHANGED <<phase, parent>>, \A p \in Producer : token'[p] => token[p]
        PROVE  Lasting /\ Barren
    BY <1>3 DEF Lasting, Barren
  <1>4. ASSUME NEW p \in Producer, phase[p] # "none", NEW x \in Phases, x # "none",
               phase' = [phase EXCEPT ![p] = x], parent' = parent,
               \A q \in Producer : token'[q] => token[q]
        PROVE  Lasting /\ Barren
    <2>1. \A q \in Producer : phase'[q] = IF q = p THEN x ELSE phase[q] BY <1>2, <1>4
    <2>2. QED BY <1>4, <2>1 DEF Lasting, Barren
  <1>5. {"new", "acquiring", "ready", "stepping", "closing", "closed"} \subseteq Phases BY DEF Phases
  <1>6. CASE Produce
    <2>1. PICK p \in Producer : /\ phase[p] = "none"
                                /\ phase' = [phase EXCEPT ![p] = "new"]
                                /\ parent' = [parent EXCEPT ![p] = Top.owner]
                                /\ token' = [token EXCEPT ![p] = TRUE]
      BY <1>6 DEF Produce
    <2>2. \A q \in Producer : q # p => phase'[q] = phase[q] /\ parent'[q] = parent[q]
                                       /\ token'[q] = token[q]
      BY <1>2, <2>1
    <2>3. QED BY <1>6, <2>1, <2>2 DEF Lasting
  <1>7. CASE Open
    BY <1>3, <1>7 DEF Open, producing
  <1>8. CASE Minor
    BY <1>3, <1>8 DEF Minor, Still, producing
  <1>9. CASE Calling
    BY <1>3, <1>9 DEF Calling, Still, producing
  <1>10. CASE Shutting
    BY <1>3, <1>10 DEF Shutting
  <1>11. CASE Ending
    BY <1>3, <1>11 DEF Ending
  <1>12. CASE Consuming
    <2>1. PICK p \in Producer : token' = [token EXCEPT ![p] = FALSE] BY <1>12 DEF Consuming
    <2>2. \A q \in Producer : token'[q] => token[q] BY <1>2, <2>1
    <2>3. QED BY <1>3, <1>12, <2>2 DEF Consuming
  <1>13. CASE Entering
    <2>1. PICK p \in Top.graph : /\ phase[p] \in {"new", "ready"}
                                 /\ \/ phase' = [phase EXCEPT ![p] = "acquiring"]
                                    \/ phase' = [phase EXCEPT ![p] = "stepping"]
      BY <1>13 DEF Entering
    <2>2. p \in Producer BY <1>13, TaskFields DEF Entering
    <2>3. QED BY <1>4, <1>5, <1>13, <2>1, <2>2 DEF Entering
  <1>14. CASE Answering
    <2>1. Running /\ Depth > 1 /\ Depth \in Nat BY <1>1, <1>14, AnsweringStands, TopIs
    <2>2. Caller = frames[Depth - 1] /\ Depth - 1 \in 1..Depth BY <1>1, <1>14, <2>1, AnsweringStands
    <2>3. /\ Caller \in TaskFrames /\ Top.of \in Caller.graph
          /\ phase' = [phase EXCEPT ![Top.of] = "ready"]
          /\ UNCHANGED <<parent, token>>
      BY <1>14 DEF Answering
    <2>4. Caller.kind = "task" /\ Top.of \in Producer BY <2>3, TaskFields
    <2>5. phase[Top.of] # "none" BY <2>2, <2>3, <2>4 DEF GraphInv
    <2>6. QED BY <1>4, <1>5, <2>3, <2>4, <2>5
  <1>15. CASE Joining
    <2>1. PICK p \in Producer : token' = [token EXCEPT ![p] = FALSE] BY <1>15 DEF Joining
    <2>2. \A q \in Producer : token'[q] => token[q] BY <1>2, <2>1
    <2>3. QED BY <1>3, <1>15, <2>2 DEF Joining
  <1>16. CASE Beginning
    <2>1. PICK p \in Producer : /\ phase' = [phase EXCEPT ![p] = "closing"]
                                /\ phase[p] # "none"
      BY <1>16 DEF Beginning, Releases, Discards
    <2>2. QED BY <1>4, <1>5, <1>16, <2>1 DEF Beginning
  <1>17. CASE Reasoning
    BY <1>3, <1>17 DEF Reasoning, producing
  <1>18. CASE Scoping
    BY <1>3, <1>18 DEF Scoping, Still, producing
  <1>19. CASE Finishing
    <2>1. /\ Running /\ Top \in CleanupFrames /\ Top.actions # <<>>
          /\ \E p \in Producer :
               /\ Top.actions[1] = Act("finish", p)
               /\ phase' = [phase EXCEPT ![p] = "closed"]
               /\ token' = [q \in Producer |-> token[q] /\ parent[q] # p]
      BY <1>1, <1>19, FinishingStands
    <2>2. PICK p \in Producer :
               /\ Top.actions[1] = Act("finish", p)
               /\ phase' = [phase EXCEPT ![p] = "closed"]
               /\ token' = [q \in Producer |-> token[q] /\ parent[q] # p]
      BY <2>1
    <2>3. Top.kind = "cleanup" /\ 1 \in 1..Len(Top.actions)
      BY <2>1, CleanupFields, EmptySeq, LenProperties
    <2>4. Top.actions[1].do = "finish" /\ Top.actions[1].on = p BY <2>2 DEF Act
    <2>5. phase[p] # "none" BY <1>a, <2>1, <2>3, <2>4 DEF MadeInv
    <2>6. \A q \in Producer : token'[q] => token[q] BY <2>2
    <2>7. QED BY <1>4, <1>5, <1>19, <2>2, <2>5, <2>6 DEF Finishing
  <1>20. CASE Passing
    BY <1>3, <1>20 DEF Passing, producing
  <1>21. CASE Failed
    <2>1. UNCHANGED <<phase, parent>> BY <1>21 DEF Failed
    <2>2. PICK fs, error : Deferred(fs, error) \/ Unwound(fs, error) \/ Returned(fs, error)
                           \/ GivenUp(fs, error)
      BY <1>21 DEF Failed
    <2>3. \A p \in Producer : token'[p] => token[p]
      <3>1. CASE token' = token BY <3>1
      <3>2. CASE Returned(fs, error) BY <3>2 DEF Returned
      <3>3. CASE GivenUp(fs, error) BY <3>3 DEF GivenUp
      <3>4. QED BY <2>2, <3>1, <3>2, <3>3 DEF Deferred, Unwound
    <2>4. QED BY <1>3, <2>1, <2>3
  <1>22. CASE Interrupting
    BY <1>3, <1>22 DEF Interrupting, producing
  <1>23. CASE UNCHANGED vars
    BY <1>3, <1>23 DEF vars, producing
  <1>24. QED
    BY <1>1, <1>6, <1>7, <1>8, <1>9, <1>10, <1>11, <1>12, <1>13, <1>14, <1>15, <1>16,
       <1>17, <1>18, <1>19, <1>20, <1>21, <1>22, <1>23 DEF Kinds

(* The consumers and the callbacks that a step leaves.                     *)
\* The consumers up to n keep their graphs, and what is entered on top of them is no
\* consumer, and is entered now.
Settled(n) ==
  /\ Stands(n)
  /\ \A i \in 1..n : frames[i].kind = "task" => frames'[i].graph = frames[i].graph
  /\ Len(frames') = n + 1 =>
       /\ frames'[n + 1].kind # "task"
       /\ frames'[n + 1].kind = "body" => frames'[n + 1].made = Constructed

LEMMA SameSettled ==
  ASSUME ShapeInv, NEW n, Stands(n), Same(n),
         frames[n].kind = "task" => frames'[n].graph = frames[n].graph,
         Len(frames') = n + 1 =>
           /\ frames'[n + 1].kind # "task"
           /\ frames'[n + 1].kind = "body" => frames'[n + 1].made = Constructed
  PROVE  Settled(n)
  <1>1. n \in 1..Depth BY DEF Stands
  <1>2. n \in Int
    <2>1. Len(frames) \in Nat BY LenProperties DEF ShapeInv, TypeInv
    <2>2. QED BY <1>1, <2>1 DEF Depth
  <1>3. \A i \in 1..n : i = n \/ i \in 1..n - 1 BY <1>2
  <1>4. \A i \in 1..n - 1 : frames'[i] = frames[i] BY DEF Same
  <1>5. QED BY <1>3, <1>4 DEF Settled

LEMMA WorksIs ==
  ASSUME ShapeInv, Running, frames' \in Seq(Frame), Stands(Depth), Same(Depth),
         Top \in CleanupFrames, frames'[Depth] \in CleanupFrames, NEW d, NEW x,
         Follows(Top.actions, frames'[Depth].actions, d, x),
         \/ Len(frames') = Depth
         \/ /\ Len(frames') = Depth + 1 /\ frames'[Depth + 1] \in Bodies
            /\ frames'[Depth + 1].job \in {"release", "reason"}
  PROVE  Working(Depth, d, x)
  <1>1. Top = frames[Depth] /\ Depth \in Nat BY TopIs
  <1>2. Len(frames') = Depth + 1 => /\ frames'[Depth + 1] \in Bodies
                                    /\ frames'[Depth + 1].job \in {"release", "reason"}
    BY <1>1
  <1>3. Len(frames') = Depth + 1 => /\ frames'[Depth + 1].kind = "body"
                                    /\ frames'[Depth + 1].job \in {"release", "reason"}
    BY <1>2, BodyFields
  <1>4. QED BY <1>1, <1>3 DEF Working

LEMMA DeferringWorks ==
  ASSUME ShapeInv, Deferring
  PROVE  \E n \in 1..Depth, d \in 0..2 :
           /\ Working(n, d, <<>>)
           /\ Len(frames') = n
           /\ \A k \in 1..d : frames[n].actions[k].do \in {"second", "check"}
  <1>1. PICK m, error, fs : Origin(m, fs, error) /\ Deferred(fs, error) BY DEF Deferring
  <1> DEFINE at == Checkpoint(fs, Aborts(error))
  <1>2. /\ at \in 1..m /\ Stands(at) /\ Len(frames') = at /\ Same(at)
        /\ frames[at] \in CleanupFrames
        /\ frames'[at] = Survives(frames[at], error)
    BY <1>1, DeferredStands
  <1>3. m \in 1..Depth /\ error \in Causes /\ error.kind # "none" BY <1>1, OriginIs
  <1> HIDE DEF at
  <1>4. at \in 1..Depth /\ at \in Nat BY <1>2 DEF Stands
  <1>5. frames[at].actions \in Seq(Actions) /\ Shape(frames[at].actions) BY <1>2, CleanupFields
  <1>6. /\ Survives(frames[at], error) \in CleanupFrames
        /\ Survives(frames[at], error).actions = Unapplied(frames[at].actions)
    BY <1>2, <1>3, SurvivesIs
  <1>7. PICK d \in 0..2 : /\ Follows(frames[at].actions, Unapplied(frames[at].actions), d, <<>>)
                          /\ \A k \in 1..d : frames[at].actions[k].do \in {"second", "check"}
    BY <1>5, UnappliedActions
  <1>8. Len(frames') # at + 1 BY <1>2, <1>4
  <1>9. Working(at, d, <<>>) BY <1>2, <1>6, <1>7, <1>8 DEF Working
  <1>10. QED BY <1>2, <1>4, <1>7, <1>9

LEMMA StepSettles ==
  ASSUME ShapeInv, frames' \in Seq(Frame), [Next]_vars
  PROVE  \/ frames' = frames \/ frames' = <<>> \/ Consuming \/ Joining
         \/ \E n \in 1..Depth : Settled(n)
  <1>1. Kinds BY StepIs
  <1>2. errors' \in 0..MaxTroubles BY Counted
  <1>3. \A n : Settled(n) => n \in 1..Depth BY DEF Settled, Stands
  <1>4. Running => Depth \in Nat \ {0} /\ Top = frames[Depth] /\ Depth \in 1..Depth BY TopIs
  <1>5. ASSUME NEW n, Stands(n), Same(n), frames[n].kind # "task", Len(frames') = n
        PROVE  Settled(n)
    <2>1. n \in Nat BY <1>5 DEF Stands
    <2>2. Len(frames') # n + 1 BY <1>5, <2>1
    <2>3. QED BY <1>5, <2>2, SameSettled
  <1>6. ASSUME Running, Stands(Depth), Same(Depth), Top \in CleanupFrames,
               NEW p,
               \/ Len(frames') = Depth
               \/ /\ Len(frames') = Depth + 1 /\ frames'[Depth + 1] \in Bodies
                  /\ \E jobs : Enters(frames'[Depth + 1], jobs, p)
        PROVE  Settled(Depth)
    <2>1. frames[Depth].kind # "task" BY <1>4, <1>6, CleanupFields
    <2>2. CASE Len(frames') = Depth BY <1>5, <1>6, <2>1, <2>2
    <2>3. CASE /\ Len(frames') = Depth + 1 /\ frames'[Depth + 1] \in Bodies
               /\ \E jobs : Enters(frames'[Depth + 1], jobs, p)
      <3>1. frames'[Depth + 1].kind # "task" /\ frames'[Depth + 1].made = Constructed
        BY <2>3, BodyFields DEF Enters
      <3>2. QED BY <1>6, <2>1, <3>1, SameSettled
    <2>4. QED BY <1>6, <2>2, <2>3
  <1>7. CASE Minor
    <2>1. PICK n \in Nat : /\ Stands(n) /\ Len(frames') = n /\ Same(n)
                           /\ Alike(frames[n], frames'[n])
      BY <1>7, MinorStands
    <2>2. Len(frames') # n + 1 BY <2>1
    <2>3. frames[n].kind = "task" => frames'[n].graph = frames[n].graph BY <2>1 DEF Alike
    <2>4. Settled(n) BY <2>1, <2>2, <2>3, SameSettled
    <2>5. QED BY <1>3, <2>4
  <1>8. CASE Calling
    <2>1. /\ Running /\ Stands(Depth) /\ Len(frames') = Depth + 1 /\ Same(Depth)
          /\ Alike(Top, frames'[Depth]) /\ frames'[Depth + 1] \in Bodies
          /\ Enters(frames'[Depth + 1], {"attempt", "fold"}, Top.owner)
      BY <1>8, CallingStands
    <2>2. Top.kind = "task" => frames'[Depth].graph = Top.graph BY <2>1 DEF Alike
    <2>3. frames'[Depth + 1].kind # "task" /\ frames'[Depth + 1].made = Constructed
      BY <2>1, BodyFields DEF Enters
    <2>4. Settled(Depth) BY <1>4, <2>1, <2>2, <2>3, SameSettled
    <2>5. QED BY <1>3, <2>4
  <1>9. CASE Shutting
    <2>1. /\ Running /\ Stands(Depth) /\ Len(frames') = Depth + 1 /\ Same(Depth)
          /\ Alike(Top, frames'[Depth])
          /\ frames'[Depth + 1] \in CleanupFrames
      BY <1>9, ShuttingStands
    <2>2. Top.kind = "task" => frames'[Depth].graph = Top.graph BY <2>1 DEF Alike
    <2>3. frames'[Depth + 1].kind = "cleanup" BY <2>1, CleanupFields
    <2>4. Settled(Depth) BY <1>4, <2>1, <2>2, <2>3, SameSettled
    <2>5. QED BY <1>3, <2>4
  <1>10. CASE Entering
    <2>1. /\ Running /\ Stands(Depth) /\ Len(frames') = Depth + 1 /\ Same(Depth)
          /\ Alike(Top, frames'[Depth])
          /\ \E p : frames'[Depth + 1] \in Bodies
                    /\ Enters(frames'[Depth + 1], {"acquire", "step"}, p)
      BY <1>10, EnteringStands
    <2>2. Top.kind = "task" => frames'[Depth].graph = Top.graph BY <2>1 DEF Alike
    <2>3. frames'[Depth + 1].kind # "task" /\ frames'[Depth + 1].made = Constructed
      BY <2>1, BodyFields DEF Enters
    <2>4. Settled(Depth) BY <1>4, <2>1, <2>2, <2>3, SameSettled
    <2>5. QED BY <1>3, <2>4
  <1>11. CASE Answering
    <2> DEFINE m == Depth - 1
    <2>1. /\ Running /\ Depth > 1 /\ Stands(m) /\ Same(m)
          /\ Caller = frames[m] /\ Alike(Caller, frames'[m])
          /\ \/ Len(frames') = m
             \/ /\ Len(frames') = Depth /\ frames'[Depth] \in Bodies
                /\ Enters(frames'[Depth], {"transform"}, Caller.owner)
             \/ /\ Len(frames') = Depth /\ frames'[Depth] \in CleanupFrames
      BY <1>11, AnsweringStands
    <2>2. Depth \in Nat BY <1>4, <2>1
    <2>3. m \in Nat /\ m + 1 = Depth BY <2>1, <2>2
    <2> HIDE DEF m
    <2>4. frames[m].kind = "task" => frames'[m].graph = frames[m].graph BY <2>1 DEF Alike
    <2>5. Len(frames') = m + 1 =>
             /\ frames'[m + 1].kind # "task"
             /\ frames'[m + 1].kind = "body" => frames'[m + 1].made = Constructed
      <3>1. CASE Len(frames') = m
        BY <2>3, <3>1
      <3>2. CASE frames'[Depth] \in Bodies /\ Enters(frames'[Depth], {"transform"}, Caller.owner)
        BY <2>3, <3>2, BodyFields DEF Enters
      <3>3. CASE frames'[Depth] \in CleanupFrames
        BY <2>3, <3>3, CleanupFields
      <3>4. QED BY <2>1, <3>1, <3>2, <3>3
    <2>6. Settled(m) BY <2>1, <2>4, <2>5, SameSettled
    <2>7. QED BY <1>3, <2>6
  <1>12. CASE Beginning
    <2>1. /\ Running /\ Stands(Depth) /\ Same(Depth) /\ Top \in CleanupFrames
          /\ \E p : \/ Len(frames') = Depth
                    \/ /\ Len(frames') = Depth + 1 /\ frames'[Depth + 1] \in Bodies
                       /\ \E jobs : Enters(frames'[Depth + 1], jobs, p)
      BY <1>12, BeginningStands
    <2>2. QED BY <1>3, <1>6, <2>1
  <1>13. CASE Reasoning
    <2>1. /\ Running /\ Stands(Depth) /\ Same(Depth) /\ Top \in CleanupFrames
          /\ \E p : /\ Len(frames') = Depth + 1 /\ frames'[Depth + 1] \in Bodies
                    /\ \E jobs : Enters(frames'[Depth + 1], jobs, p)
      BY <1>13, ReasoningStands
    <2>2. QED BY <1>3, <1>6, <2>1
  <1>14. CASE Scoping
    BY <1>3, <1>6, <1>14, ScopingStands
  <1>15. CASE Finishing
    BY <1>3, <1>6, <1>15, FinishingStands
  <1>16. CASE Passing
    BY <1>2, <1>3, <1>6, <1>16, PassingStands
  <1>17. CASE Failed
    <2>1. CASE Deferring
      <3>1. PICK n \in 1..Depth, d \in 0..2 : Working(n, d, <<>>) /\ Len(frames') = n
        BY <2>1, DeferringWorks
      <3>2. Stands(n) /\ Same(n) /\ frames[n].kind # "task"
        BY <3>1, CleanupFields DEF Working
      <3>3. QED BY <1>3, <1>5, <3>1, <3>2
    <2>2. CASE Unwinding
      <3>1. PICK m, error, fs : Origin(m, fs, error) /\ Unwound(fs, error)
        BY <2>2 DEF Unwinding
      <3>2. /\ Stands(m) /\ Len(frames') = m + 1 /\ Same(m)
            /\ frames'[m] = frames[m]
            /\ frames'[m + 1] \in CleanupFrames
        BY <3>1, UnwoundStands
      <3>3. frames'[m + 1].kind = "cleanup" BY <3>2, CleanupFields
      <3>4. Settled(m) BY <3>2, <3>3, SameSettled
      <3>5. QED BY <1>3, <3>4
    <2>3. CASE Returning
      <3>1. PICK m, error, fs : Origin(m, fs, error) /\ Returned(fs, error)
        BY <2>3 DEF Returning
      <3> DEFINE n == Checkpoint(fs, Aborts(error)) - 1
      <3>2. Stands(n) /\ Len(frames') = n /\ Same(n) /\ frames'[n] = frames[n]
        BY <3>1, ReturnedStands
      <3> HIDE DEF n
      <3>3. n \in Nat BY <3>2 DEF Stands
      <3>4. Len(frames') # n + 1 BY <3>2, <3>3
      <3>5. Settled(n) BY <3>2, <3>4, SameSettled
      <3>6. QED BY <1>3, <3>5
    <2>4. CASE Quitting
      BY <2>4 DEF Quitting, GivenUp
    <2>5. QED BY <1>17, <2>1, <2>2, <2>3, <2>4, FailedKinds
  <1>18. CASE Interrupting
    <2>1. /\ Running /\ Stands(Depth) /\ Len(frames') = Depth
          /\ \E i \in Cleanups(frames), kind \in {"cancel", "exit"} :
               /\ i \in 1..Depth /\ frames[i] \in CleanupFrames
               /\ \A j \in 1..Depth : j # i => frames'[j] = frames[j]
      BY <1>18, InterruptingStands
    <2>2. \A j \in 1..Depth : frames[j].kind = "task" => frames'[j] = frames[j]
      BY <2>1, CleanupFields
    <2>3. Len(frames') # Depth + 1 BY <1>4, <2>1
    <2>4. Settled(Depth) BY <2>1, <2>2, <2>3 DEF Settled
    <2>5. QED BY <1>3, <2>4
  <1>19. CASE Produce \/ Open \/ UNCHANGED vars
    BY <1>19 DEF Produce, Open, vars
  <1>20. CASE Ending
    BY <1>20 DEF Ending
  <1>21. QED
    BY <1>1, <1>7, <1>8, <1>9, <1>10, <1>11, <1>12, <1>13, <1>14, <1>15, <1>16, <1>17,
       <1>18, <1>19, <1>20 DEF Kinds

\* A consumer that a step leaves, or finds.
LEMMA ConsumersStep ==
  ASSUME ShapeInv, frames' \in Seq(Frame), NEW n \in 1..Depth, Settled(n),
         NEW i \in 1..Depth', frames'[i].kind = "task"
  PROVE  /\ i \in 1..n /\ i \in 1..Depth /\ frames[i].kind = "task"
         /\ frames'[i].graph = frames[i].graph /\ frames'[i].owner = frames[i].owner
  <1>1. Depth \in Nat BY LenProperties DEF Depth, ShapeInv, TypeInv
  <1>2. Depth' = Len(frames') BY DEF Depth
  <1>3. Len(frames') \in {n, n + 1} BY DEF Settled, Stands
  <1>4. i # n + 1 \/ Len(frames') # n + 1 BY DEF Settled
  <1>5. i \in 1..n /\ i \in 1..Depth BY <1>1, <1>2, <1>3, <1>4
  <1>6. Heir(frames[i], frames'[i]) BY <1>5 DEF Settled, Stands
  <1>7. frames[i].kind = "task" /\ frames'[i].owner = frames[i].owner BY <1>6 DEF Heir
  <1>8. frames'[i].graph = frames[i].graph BY <1>5, <1>7 DEF Settled
  <1>9. QED BY <1>5, <1>7, <1>8

LEMMA GraphStep ==
  ASSUME ShapeInv, GraphInv, MadeInv, [Next]_vars
  PROVE  GraphInv'
  <1>1. ShapeInv' /\ frames' \in Seq(Frame) BY ShapeStep, StepIs
  <1>2. Lasting BY PhasesStep
  <1>3. \/ frames' = frames \/ frames' = <<>> \/ Consuming \/ Joining
        \/ \E n \in 1..Depth : Settled(n)
    BY <1>1, StepSettles
  <1>4. Depth' = Len(frames') /\ Depth = Len(frames) BY DEF Depth
  <1>a. /\ \A i \in 1..Depth' : frames'[i] \in Frame
        /\ \A i \in 1..Depth : frames[i] \in Frame
    <2>1. frames \in Seq(Frame) BY DEF ShapeInv, TypeInv
    <2>2. QED BY <1>1, <1>4, <2>1, ElementOfSeq
  <1>5. \A i \in 1..Depth : frames[i].kind = "task" => frames[i].graph \subseteq Producer
    BY <1>a, FrameKinds, TaskFields
  \* The members of a graph that a step leaves stay as they are.
  <1>6. ASSUME NEW i \in 1..Depth, frames[i].kind = "task", NEW p \in frames[i].graph
        PROVE  phase'[p] # "none" /\ ~token'[p] /\ parent'[p] = frames[i].owner
    <2>1. p \in Producer BY <1>5, <1>6
    <2>2. phase[p] # "none" /\ ~token[p] /\ parent[p] = frames[i].owner BY <1>6 DEF GraphInv
    <2>3. QED BY <1>2, <2>1, <2>2 DEF Lasting
  \* A stream that can be consumed is in no graph.
  <1>7. \A i \in 1..Depth, p \in Producer :
          frames[i].kind = "task" /\ token[p] => p \notin frames[i].graph
    BY DEF GraphInv
  <1>8. \A p \in Producer : token[p] => phase[p] # "none" BY DEF MadeInv
  <1>b. token \in [Producer -> BOOLEAN] BY DEF ShapeInv, TypeInv, VarInv
  <1>9. CASE frames' = frames
    <2>1. \A i \in 1..Depth' : frames'[i].kind = "task" =>
            \A p \in frames'[i].graph :
              phase'[p] # "none" /\ ~token'[p] /\ parent'[p] = frames'[i].owner
      BY <1>4, <1>6, <1>9
    <2>2. \A i, j \in 1..Depth' :
            frames'[i].kind = "task" /\ frames'[j].kind = "task" /\ i # j =>
              frames'[i].graph \cap frames'[j].graph = {}
      BY <1>4, <1>9 DEF GraphInv
    <2>3. QED BY <2>1, <2>2 DEF GraphInv
  <1>10. CASE frames' = <<>>
    <2>1. 1..Depth' = {} BY <1>4, <1>10
    <2>2. QED BY <2>1 DEF GraphInv
  <1>11. CASE \E n \in 1..Depth : Settled(n)
    <2>1. PICK n \in 1..Depth : Settled(n) BY <1>11
    <2>2. \A i \in 1..Depth' : frames'[i].kind = "task" =>
            /\ i \in 1..Depth /\ frames[i].kind = "task"
            /\ frames'[i].graph = frames[i].graph /\ frames'[i].owner = frames[i].owner
      BY <1>1, <2>1, ConsumersStep
    <2>3. \A i \in 1..Depth' : frames'[i].kind = "task" =>
            \A p \in frames'[i].graph :
              phase'[p] # "none" /\ ~token'[p] /\ parent'[p] = frames'[i].owner
      BY <1>6, <2>2
    <2>4. \A i, j \in 1..Depth' :
            frames'[i].kind = "task" /\ frames'[j].kind = "task" /\ i # j =>
              frames'[i].graph \cap frames'[j].graph = {}
      BY <2>2 DEF GraphInv
    <2>5. QED BY <2>3, <2>4 DEF GraphInv
  \* One consumer has p as well, whose stream was there to be consumed.
  <1>12. ASSUME NEW m \in 1..Depth', NEW p \in Producer, NEW G,
                token[p], token' = [token EXCEPT ![p] = FALSE], parent[p] = frames'[m].owner,
                frames'[m].graph \subseteq G \cup {p},
                G = {} \/ (m \in 1..Depth /\ frames[m].kind = "task" /\ frames[m].graph = G
                           /\ frames[m].owner = frames'[m].owner),
                \A i \in 1..Depth' : i # m => i \in 1..Depth /\ frames'[i] = frames[i]
         PROVE  GraphInv'
    <2>1. \A q \in frames'[m].graph :
            phase'[q] # "none" /\ ~token'[q] /\ parent'[q] = frames'[m].owner
      <3>1. phase'[p] # "none" /\ ~token'[p] /\ parent'[p] = parent[p]
        BY <1>2, <1>8, <1>b, <1>12 DEF Lasting
      <3>2. QED BY <1>6, <1>12, <3>1
    <2>2. \A i \in 1..Depth' : frames'[i].kind = "task" =>
            \A q \in frames'[i].graph :
              phase'[q] # "none" /\ ~token'[q] /\ parent'[q] = frames'[i].owner
      BY <1>6, <1>12, <2>1
    <2>3. \A i \in 1..Depth' : i # m /\ frames'[i].kind = "task" =>
            frames'[i].graph \cap frames'[m].graph = {}
      <3> SUFFICES ASSUME NEW i \in 1..Depth', i # m, frames'[i].kind = "task"
                   PROVE  frames'[i].graph \cap frames'[m].graph = {}
        OBVIOUS
      <3>1. i \in 1..Depth /\ frames'[i] = frames[i] BY <1>12
      <3>2. p \notin frames'[i].graph BY <1>7, <1>12, <3>1
      <3>3. G \cap frames[i].graph = {} BY <1>12, <3>1 DEF GraphInv
      <3>4. QED BY <1>12, <3>1, <3>2, <3>3
    <2>4. \A i, j \in 1..Depth' :
            frames'[i].kind = "task" /\ frames'[j].kind = "task" /\ i # j =>
              frames'[i].graph \cap frames'[j].graph = {}
      <3> SUFFICES ASSUME NEW i \in 1..Depth', NEW j \in 1..Depth', i # j,
                          frames'[i].kind = "task", frames'[j].kind = "task"
                   PROVE  frames'[i].graph \cap frames'[j].graph = {}
        OBVIOUS
      <3>1. CASE i = m BY <2>3, <3>1
      <3>2. CASE j = m BY <2>3, <3>2
      <3>3. CASE i # m /\ j # m BY <1>12, <3>3 DEF GraphInv
      <3>4. QED BY <3>1, <3>2, <3>3
    <2>5. QED BY <2>2, <2>4 DEF GraphInv
  <1>13. CASE Consuming
    <2>1. /\ Running /\ Len(frames') = Depth + 1 /\ Same(Depth) /\ frames'[Depth] = Top
          /\ \E p \in Producer :
               /\ token[p] /\ parent[p] = Top.owner
               /\ frames'[Depth + 1].owner = Top.owner /\ frames'[Depth + 1].graph = {p}
               /\ token' = [token EXCEPT ![p] = FALSE]
      BY <1>1, <1>13, ConsumingStands
    <2>2. Depth \in Nat \ {0} /\ Top = frames[Depth] BY <2>1, TopIs
    <2>3. PICK p \in Producer :
            /\ token[p] /\ parent[p] = frames'[Depth + 1].owner
            /\ frames'[Depth + 1].graph = {p}
            /\ token' = [token EXCEPT ![p] = FALSE]
      BY <2>1
    <2>4. \A i \in 1..Depth' : i # Depth + 1 => i \in 1..Depth /\ (i = Depth \/ i \in 1..Depth - 1)
      BY <1>4, <2>1, <2>2
    <2>5. \A i \in 1..Depth' : i # Depth + 1 => i \in 1..Depth /\ frames'[i] = frames[i]
      BY <2>1, <2>2, <2>4 DEF Same
    <2>6. Depth + 1 \in 1..Depth' BY <1>4, <2>1, <2>2
    <2>7. QED BY <1>12, <2>3, <2>5, <2>6
  <1>14. CASE Joining
    <2> DEFINE m == Depth - 1
    <2>1. /\ Running /\ Depth > 1 /\ Len(frames') = m /\ Same(m)
          /\ Caller = frames[m] /\ Caller \in TaskFrames
          /\ \E q \in Producer :
               /\ token[q] /\ parent[q] = Caller.owner
               /\ frames'[m].owner = Caller.owner
               /\ frames'[m].graph = Caller.graph \cup {q}
               /\ token' = [token EXCEPT ![q] = FALSE]
      BY <1>1, <1>14, JoiningStands
    <2>2. Depth \in Nat BY <2>1, TopIs
    <2>3. m \in Nat /\ m + 1 = Depth /\ m \in 1..Depth BY <2>1, <2>2
    <2> HIDE DEF m
    <2>4. PICK q \in Producer :
               /\ token[q] /\ parent[q] = Caller.owner
               /\ frames'[m].owner = Caller.owner
               /\ frames'[m].graph = Caller.graph \cup {q}
               /\ token' = [token EXCEPT ![q] = FALSE]
      BY <2>1
    <2>5. m \in 1..Depth' /\ \A i \in 1..Depth' : i # m => i \in 1..m - 1 /\ i \in 1..Depth
      BY <1>4, <2>1, <2>3
    <2>6. \A i \in 1..Depth' : i # m => i \in 1..Depth /\ frames'[i] = frames[i]
      BY <2>1, <2>5 DEF Same
    <2>7. Caller.kind = "task" BY <2>1, TaskFields
    <2>8. QED BY <1>12, <2>1, <2>3, <2>4, <2>5, <2>6, <2>7
  <1>15. QED BY <1>3, <1>9, <1>10, <1>11, <1>13, <1>14

(* The actions that cleanups still have to do.                             *)
Acts(i, k, a) ==
  /\ i \in 1..Len(frames) /\ frames[i].kind = "cleanup"
  /\ k \in 1..Len(frames[i].actions) /\ frames[i].actions[k] = a

Begins(n, d, x) ==
  /\ Beginning /\ n = Depth /\ d = 1
  /\ \E p \in Producer :
       /\ frames[n].actions[1] = Act("producer", p) /\ Active(p)
       /\ phase' = [phase EXCEPT ![p] = "closing"]
       /\ x \in {<<Act("second", p), Act("check", p), Act("scope", p), Act("finish", p)>>,
                 <<Act("scope", p), Act("finish", p)>>}
Scopes(n, d, x) ==
  /\ Scoping /\ n = Depth /\ d = 1
  /\ \E p \in Producer :
       /\ frames[n].actions[1] = Act("scope", p)
       /\ Closes(x, {q \in Producer : Active(q) /\ parent[q] = p},
                 {r \in live : resources[r] = p})
Finishes(n, d, x) ==
  /\ Finishing /\ n = Depth /\ d = 1 /\ x = <<>>
  /\ \E p \in Producer :
       /\ frames[n].actions[1] = Act("finish", p)
       /\ phase' = [phase EXCEPT ![p] = "closed"]
       /\ token' = [q \in Producer |-> token[q] /\ parent[q] # p]
Passes(n, d, x) ==
  /\ Reasoning \/ Passing \/ Deferring
  /\ x = <<>>
  /\ \A k \in 1..d :
       \/ frames[n].actions[k].do \in {"second", "check"}
       \/ frames[n].actions[k].do = "close" /\ live' = live \ frames[n].actions[k].on
       \/ frames[n].actions[k].do = "producer" /\ ~Active(frames[n].actions[k].on)
Works(n, d, x) ==
  /\ Working(n, d, x)
  /\ x \in Seq(Actions) /\ d \in Nat
  /\ Begins(n, d, x) \/ Scopes(n, d, x) \/ Finishes(n, d, x) \/ Passes(n, d, x)

LEMMA ActionKinds ==
  ASSUME NEW a \in Actions
  PROVE  /\ a = Act(a.do, a.on)
         /\ a.do \in {"producer", "second", "check", "scope", "finish", "close"}
         /\ a.do # "close" => a.on \in Producer
         /\ a.do = "close" => a.on \subseteq 1..MaxResources
  <1>1. CASE a \in [do : {"producer", "second", "check", "scope", "finish"}, on : Producer]
    BY <1>1 DEF Act
  <1>2. CASE a \in [do : {"close"}, on : SUBSET (1..MaxResources)]
    BY <1>2 DEF Act
  <1>3. QED BY <1>1, <1>2 DEF Actions

LEMMA PairIs ==
  ASSUME NEW p \in Producer
  PROVE  /\ <<Act("second", p), Act("check", p), Act("scope", p), Act("finish", p)>> \in Seq(Actions)
         /\ <<Act("scope", p), Act("finish", p)>> \in Seq(Actions)
         /\ <<>> \in Seq(Actions)
  <1>1. \A do \in {"second", "check", "scope", "finish"} : Act(do, p) \in Actions
    BY DEF Act, Actions
  <1>2. /\ Act("second", p) \in Actions /\ Act("check", p) \in Actions
        /\ Act("scope", p) \in Actions /\ Act("finish", p) \in Actions
    BY <1>1
  <1>3. QED BY <1>2

LEMMA StepActs ==
  ASSUME ShapeInv, frames' \in Seq(Frame), [Next]_vars
  PROVE  \/ frames' = frames /\ (Produce \/ Open \/ UNCHANGED vars)
         \/ frames' = <<>> /\ (Ending \/ Quitting)
         \/ \E n \in 1..Depth : Quieting(n)
         \/ \E n \in 1..Depth : \E d, x : Works(n, d, x)
  <1>1. Kinds BY StepIs
  <1>2. errors' \in 0..MaxTroubles BY Counted
  <1>3. Running => Depth \in Nat \ {0} /\ Top = frames[Depth] /\ Depth \in 1..Depth BY TopIs
  <1>4. \A f : \A d, x : Continues(f, d, x) => f \in CleanupFrames /\ Follows(Top.actions, f.actions, d, x)
    BY DEF Continues
  <1>5. <<>> \in Seq(Actions) BY EmptySeq
  <1>6. CASE Minor \/ Calling \/ Shutting \/ Consuming \/ Entering \/ Answering \/ Joining
             \/ Interrupting
    BY <1>6, QuietIs
  <1>7. CASE Beginning
    <2>1. /\ Running /\ Stands(Depth) /\ Same(Depth) /\ Top \in CleanupFrames
      BY <1>7, BeginningStands
    <2>2. PICK p \in Producer :
              /\ Top.actions[1] = Act("producer", p)
              /\ phase' = [phase EXCEPT ![p] = "closing"]
              /\ \/ /\ phase[p] \in {"ready", "stepping"} /\ Len(frames') = Depth + 1
                    /\ Continues(frames'[Depth], 1, <<Act("second", p), Act("check", p),
                                                      Act("scope", p), Act("finish", p)>>)
                    /\ frames'[Depth + 1] \in Bodies
                    /\ frames'[Depth + 1].job \in {"release", "reason"}
                 \/ /\ phase[p] \in {"new", "acquiring"} /\ Len(frames') = Depth
                    /\ Continues(frames'[Depth], 1, <<Act("scope", p), Act("finish", p)>>)
      BY <1>7, BeginningStands DEF Enters
    <2>3. Active(p) BY <2>2 DEF Active
    <2> DEFINE X == {<<Act("second", p), Act("check", p), Act("scope", p), Act("finish", p)>>,
                     <<Act("scope", p), Act("finish", p)>>}
    <2>4. \E x \in X : Continues(frames'[Depth], 1, x) BY <2>2
    <2>5. X \subseteq Seq(Actions) BY PairIs
    <2>6. \/ Len(frames') = Depth
          \/ /\ Len(frames') = Depth + 1 /\ frames'[Depth + 1] \in Bodies
             /\ frames'[Depth + 1].job \in {"release", "reason"}
      BY <2>2
    <2>7. PICK x \in X : Continues(frames'[Depth], 1, x) BY <2>4
    <2>8. Working(Depth, 1, x) BY <1>4, <2>1, <2>6, <2>7, WorksIs
    <2>9. Begins(Depth, 1, x) BY <1>3, <1>7, <2>1, <2>2, <2>3 DEF Begins
    <2>10. Works(Depth, 1, x) BY <2>5, <2>8, <2>9 DEF Works
    <2>11. QED BY <1>3, <2>1, <2>10
  <1>8. CASE Reasoning
    <2>1. /\ Running /\ Stands(Depth) /\ Same(Depth) /\ Top \in CleanupFrames
          /\ Len(frames') = Depth + 1
      BY <1>8, ReasoningStands
    <2>2. PICK p \in Producer : /\ Top.actions[1] = Act("second", p)
                                /\ Continues(frames'[Depth], 1, <<>>)
                                /\ frames'[Depth + 1] \in Bodies
                                /\ frames'[Depth + 1].job \in {"release", "reason"}
      BY <1>8, ReasoningStands DEF Enters
    <2>3. Working(Depth, 1, <<>>) BY <1>4, <2>1, <2>2, WorksIs
    <2>4. Top.actions[1].do = "second" BY <2>2 DEF Act
    <2>5. Passes(Depth, 1, <<>>) BY <1>3, <1>8, <2>1, <2>4 DEF Passes
    <2>6. Works(Depth, 1, <<>>) BY <1>5, <2>3, <2>5 DEF Works
    <2>7. QED BY <1>3, <2>1, <2>6
  <1>9. CASE Scoping
    <2>1. /\ Running /\ Stands(Depth) /\ Same(Depth) /\ Top \in CleanupFrames
          /\ Len(frames') = Depth
      BY <1>9, ScopingStands
    <2>2. PICK p \in Producer, x \in Seq(Actions) :
            /\ Top.actions[1] = Act("scope", p)
            /\ Continues(frames'[Depth], 1, x)
            /\ Closes(x, {q \in Producer : Active(q) /\ parent[q] = p},
                      {r \in live : resources[r] = p})
      BY <1>9, ScopingStands
    <2>3. Working(Depth, 1, x) BY <1>4, <2>1, <2>2, WorksIs
    <2>4. Scopes(Depth, 1, x) BY <1>3, <1>9, <2>1, <2>2 DEF Scopes
    <2>5. Works(Depth, 1, x) BY <2>2, <2>3, <2>4 DEF Works
    <2>6. QED BY <1>3, <2>1, <2>5
  <1>10. CASE Finishing
    <2>1. /\ Running /\ Stands(Depth) /\ Same(Depth) /\ Top \in CleanupFrames
          /\ Len(frames') = Depth
      BY <1>10, FinishingStands
    <2>2. PICK p \in Producer :
            /\ Top.actions[1] = Act("finish", p)
            /\ Continues(frames'[Depth], 1, <<>>)
            /\ phase' = [phase EXCEPT ![p] = "closed"]
            /\ token' = [q \in Producer |-> token[q] /\ parent[q] # p]
      BY <1>10, FinishingStands
    <2>3. Working(Depth, 1, <<>>) BY <1>4, <2>1, <2>2, WorksIs
    <2>4. Finishes(Depth, 1, <<>>) BY <1>3, <1>10, <2>1, <2>2 DEF Finishes
    <2>5. Works(Depth, 1, <<>>) BY <1>5, <2>3, <2>4 DEF Works
    <2>6. QED BY <1>3, <2>1, <2>5
  <1>11. CASE Passing
    <2>1. /\ Running /\ Stands(Depth) /\ Same(Depth) /\ Top \in CleanupFrames
          /\ Len(frames') = Depth /\ frames'[Depth] \in CleanupFrames
          /\ Follows(Top.actions, frames'[Depth].actions, 1, <<>>)
      BY <1>2, <1>11, PassingStands
    <2>2. \/ Top.actions[1].do = "producer" /\ ~Active(Top.actions[1].on)
          \/ Top.actions[1].do = "check"
          \/ Top.actions[1].do = "close" /\ live' = live \ Top.actions[1].on
      BY <1>11 DEF Passing
    <2>3. Working(Depth, 1, <<>>) BY <2>1, WorksIs
    <2>4. Passes(Depth, 1, <<>>) BY <1>3, <1>11, <2>1, <2>2 DEF Passes
    <2>5. Works(Depth, 1, <<>>) BY <1>5, <2>3, <2>4 DEF Works
    <2>6. QED BY <1>3, <2>1, <2>5
  <1>12. CASE Failed
    <2>1. CASE Deferring
      <3>1. PICK n \in 1..Depth, d \in 0..2 :
               /\ Working(n, d, <<>>)
               /\ \A k \in 1..d : frames[n].actions[k].do \in {"second", "check"}
        BY <2>1, DeferringWorks
      <3>2. Passes(n, d, <<>>) BY <2>1, <3>1 DEF Passes
      <3>3. Works(n, d, <<>>) BY <1>5, <3>1, <3>2 DEF Works
      <3>4. QED BY <3>3
    <2>2. CASE Unwinding \/ Returning
      BY <2>2, QuietIs
    <2>3. CASE Quitting
      BY <2>3 DEF Quitting, GivenUp
    <2>4. QED BY <1>12, <2>1, <2>2, <2>3, FailedKinds
  <1>13. CASE Produce \/ Open \/ UNCHANGED vars
    BY <1>13 DEF Produce, Open, vars
  <1>14. CASE Ending
    BY <1>14 DEF Ending
  <1>15. QED
    BY <1>1, <1>6, <1>7, <1>8, <1>9, <1>10, <1>11, <1>12, <1>13, <1>14 DEF Kinds

\* What a cleanup had to do it has still to do, and there is one more cleanup at most.
LEMMA QuietActs ==
  ASSUME ShapeInv, frames' \in Seq(Frame), NEW n, Quieting(n), NEW i, NEW k, NEW a
  PROVE  /\ Acts(i, k, a) => i \in 1..n /\ Acts(i, k, a)'
         /\ Acts(i, k, a)' =>
              \/ i \in 1..n /\ Acts(i, k, a)
              \/ /\ i = n + 1
                 /\ \E S \in SUBSET Producer, keys \in SUBSET live :
                      /\ Purpose(n, S, keys)
                      /\ (\E p \in S : a = Act("producer", p)) \/ a = Act("close", keys)
  <1>1. /\ Stands(n)
        /\ \A j \in 1..n : frames[j].kind = "cleanup" => frames'[j].actions = frames[j].actions
    BY DEF Quieting, Quiet
  <1>2. /\ n \in 1..Depth /\ Len(frames') \in {n, n + 1}
        /\ \A j \in 1..n : frames'[j].kind = frames[j].kind
        /\ \A j \in n + 1..Depth : frames[j].kind = "cleanup" => frames[j].actions = <<>>
    BY <1>1 DEF Stands, Heir
  <1>3. Depth \in Nat /\ Depth = Len(frames) BY LenProperties DEF Depth, ShapeInv, TypeInv
  <1>4. ASSUME Acts(i, k, a) PROVE i \in 1..n /\ Acts(i, k, a)'
    <2>1. /\ i \in 1..Depth /\ frames[i].kind = "cleanup"
          /\ k \in 1..Len(frames[i].actions) /\ frames[i].actions[k] = a
      BY <1>3, <1>4 DEF Acts
    <2>2. frames[i].actions # <<>> BY <2>1
    <2>3. i \in 1..n BY <1>2, <1>3, <2>1, <2>2
    <2>4. i \in 1..Len(frames') BY <1>2, <1>3, <2>3
    <2>5. frames'[i].kind = "cleanup" /\ frames'[i].actions = frames[i].actions
      BY <1>1, <1>2, <2>1, <2>3
    <2>6. QED BY <2>1, <2>3, <2>4, <2>5 DEF Acts
  <1>5. ASSUME Acts(i, k, a)'
        PROVE  \/ i \in 1..n /\ Acts(i, k, a)
               \/ /\ i = n + 1
                  /\ \E S \in SUBSET Producer, keys \in SUBSET live :
                       /\ Purpose(n, S, keys)
                       /\ (\E p \in S : a = Act("producer", p)) \/ a = Act("close", keys)
    <2>1. /\ i \in 1..Len(frames') /\ frames'[i].kind = "cleanup"
          /\ k \in 1..Len(frames'[i].actions) /\ frames'[i].actions[k] = a
      BY <1>5 DEF Acts
    <2>2. i \in 1..n \/ (i = n + 1 /\ Len(frames') = n + 1) BY <1>2, <1>3, <2>1
    <2>3. CASE i \in 1..n
      <3>1. i \in 1..Len(frames) BY <1>2, <1>3, <2>3
      <3>2. frames[i].kind = "cleanup" /\ frames'[i].actions = frames[i].actions
        BY <1>1, <1>2, <2>1, <2>3
      <3>3. QED BY <2>1, <2>3, <3>1, <3>2 DEF Acts
    <2>4. CASE i = n + 1 /\ Len(frames') = n + 1
      <3>1. PICK S \in SUBSET Producer, keys \in SUBSET live :
              Closes(frames'[i].actions, S, keys) /\ Purpose(n, S, keys)
        BY <2>1, <2>4 DEF Quieting, Fresh
      <3>2. /\ a \in Actions
            /\ \/ a.do = "producer" /\ a.on \in S
               \/ a = Act("close", keys)
        BY <2>1, <3>1, ElementOfSeq DEF Closes
      <3>3. a = Act(a.do, a.on) BY <3>2, ActionKinds
      <3>4. QED BY <2>4, <3>1, <3>2, <3>3
    <2>5. QED BY <2>2, <2>3, <2>4
  <1>6. QED BY <1>4, <1>5

\* One cleanup has gone on to its action after d.
LEMMA WorkActs ==
  ASSUME ShapeInv, frames' \in Seq(Frame), NEW n, NEW d \in Nat, NEW x \in Seq(Actions),
         Working(n, d, x), NEW i, NEW k, NEW a
  PROVE  /\ Acts(i, k, a) =>
              \/ i \in 1..n - 1 /\ Acts(i, k, a)'
              \/ i = n /\ k \in 1..d /\ frames[n].actions[k] = a
              \/ i = n /\ k > d /\ Acts(i, k - d + Len(x), a)'
         /\ Acts(i, k, a)' =>
              \/ i \in 1..n - 1 /\ Acts(i, k, a)
              \/ i = n /\ k \in 1..Len(x) /\ x[k] = a
              \/ i = n /\ k > Len(x) /\ Acts(i, k - Len(x) + d, a)
  <1>1. /\ Stands(n) /\ Same(n)
        /\ frames[n] \in CleanupFrames /\ frames'[n] \in CleanupFrames
        /\ Follows(frames[n].actions, frames'[n].actions, d, x)
        /\ Len(frames') = n + 1 => frames'[n + 1].kind = "body"
    BY DEF Working
  <1>2. /\ n \in 1..Depth /\ Len(frames') \in {n, n + 1}
        /\ \A j \in n + 1..Depth : frames[j].kind = "cleanup" => frames[j].actions = <<>>
    BY <1>1 DEF Stands
  <1>3. Depth \in Nat /\ Depth = Len(frames) /\ n \in Nat /\ n \in 1..Len(frames) /\ n \in 1..Len(frames')
    <2>1. Depth \in Nat /\ Depth = Len(frames) BY LenProperties DEF Depth, ShapeInv, TypeInv
    <2>2. QED BY <1>2, <2>1
  <1>4. frames[n].kind = "cleanup" /\ frames'[n].kind = "cleanup" BY <1>1, CleanupFields
  <1>5. PICK l, A, C : /\ l = Len(x) /\ A = Len(frames[n].actions) /\ C = Len(frames'[n].actions)
    OBVIOUS
  <1>6. /\ l \in Nat /\ A \in Nat /\ C \in Nat
    <2>1. frames[n].actions \in Seq(Actions) /\ frames'[n].actions \in Seq(Actions)
      BY <1>1, CleanupFields
    <2>2. QED BY <1>5, <2>1, LenProperties
  <1>7. /\ d \in 0..A /\ C = l + A - d
        /\ \A j \in 1..l : frames'[n].actions[j] = x[j]
        /\ \A j \in 1..A - d : frames'[n].actions[l + j] = frames[n].actions[j + d]
    BY <1>1, <1>5 DEF Follows
  <1>8. \A j \in 1..n - 1 : frames'[j] = frames[j] BY <1>1 DEF Same
  <1>9. ASSUME Acts(i, k, a)
        PROVE  \/ i \in 1..n - 1 /\ Acts(i, k, a)'
               \/ i = n /\ k \in 1..d /\ frames[n].actions[k] = a
               \/ i = n /\ k > d /\ Acts(i, k - d + Len(x), a)'
    <2>1. /\ i \in 1..Depth /\ frames[i].kind = "cleanup"
          /\ k \in 1..Len(frames[i].actions) /\ frames[i].actions[k] = a
      BY <1>3, <1>9 DEF Acts
    <2>2. frames[i].actions # <<>> BY <2>1
    <2>3. i \notin n + 1..Depth BY <1>2, <2>1, <2>2
    <2>4. i \in 1..n - 1 \/ i = n BY <1>2, <1>3, <2>1, <2>3
    <2>5. CASE i \in 1..n - 1
      <3>1. i \in 1..Len(frames') BY <1>3, <2>5
      <3>2. QED BY <1>8, <2>1, <2>5, <3>1 DEF Acts
    <2>6. CASE i = n
      <3>1. k \in 1..A BY <1>5, <2>1, <2>6
      <3>2. CASE k <= d
        <4>1. k \in 1..d BY <1>7, <3>1, <3>2
        <4>2. QED BY <2>1, <2>6, <4>1
      <3>3. CASE k > d
        <4>1. k - d \in 1..A - d /\ l + (k - d) = k - d + l /\ k - d + d = k BY <1>6, <1>7, <3>1, <3>3
        <4>2. frames'[n].actions[k - d + l] = a BY <1>7, <2>1, <2>6, <4>1
        <4>3. k - d + l \in 1..C BY <1>6, <1>7, <4>1
        <4>4. Acts(n, k - d + l, a)' BY <1>3, <1>4, <1>5, <4>2, <4>3 DEF Acts
        <4>5. QED BY <1>5, <2>6, <3>3, <4>4
      <3>4. QED BY <1>6, <1>7, <3>1, <3>2, <3>3
    <2>7. QED BY <2>4, <2>5, <2>6
  <1>10. ASSUME Acts(i, k, a)'
         PROVE  \/ i \in 1..n - 1 /\ Acts(i, k, a)
                \/ i = n /\ k \in 1..Len(x) /\ x[k] = a
                \/ i = n /\ k > Len(x) /\ Acts(i, k - Len(x) + d, a)
    <2>1. /\ i \in 1..Len(frames') /\ frames'[i].kind = "cleanup"
          /\ k \in 1..Len(frames'[i].actions) /\ frames'[i].actions[k] = a
      BY <1>10 DEF Acts
    <2>2. ~(i = n + 1 /\ Len(frames') = n + 1) BY <1>1, <2>1
    <2>3. i \in 1..n - 1 \/ i = n BY <1>2, <1>3, <2>1, <2>2
    <2>4. CASE i \in 1..n - 1
      <3>1. i \in 1..Len(frames) BY <1>3, <2>4
      <3>2. QED BY <1>8, <2>1, <2>4, <3>1 DEF Acts
    <2>5. CASE i = n
      <3>1. k \in 1..C BY <1>5, <2>1, <2>5
      <3>2. CASE k <= l
        <4>1. k \in 1..l BY <1>6, <3>1, <3>2
        <4>2. QED BY <1>5, <1>7, <2>1, <2>5, <4>1
      <3>3. CASE k > l
        <4>1. k - l \in 1..A - d /\ l + (k - l) = k BY <1>6, <1>7, <3>1, <3>3
        <4>2. frames[n].actions[k - l + d] = a BY <1>7, <2>1, <2>5, <4>1
        <4>3. k - l + d \in 1..A BY <1>6, <1>7, <4>1
        <4>4. Acts(n, k - l + d, a) BY <1>3, <1>4, <1>5, <4>2, <4>3 DEF Acts
        <4>5. QED BY <1>5, <2>5, <3>3, <4>4
      <3>4. QED BY <1>6, <3>1, <3>2, <3>3
    <2>6. QED BY <2>3, <2>4, <2>5
  <1>11. QED BY <1>9, <1>10

\* Every finish was to be done already, but for the one of a producer that begins to
\* close.
LEMMA FinishFrom ==
  ASSUME ShapeInv, frames' \in Seq(Frame), [Next]_vars, NEW i, NEW k, NEW p \in Producer,
         Acts(i, k, Act("finish", p))'
  PROVE  \/ \E l : Acts(i, l, Act("finish", p))
         \/ phase' = [phase EXCEPT ![p] = "closing"] /\ Active(p) /\ i = Depth
  <1> DEFINE a == Act("finish", p)
  <1>a. a.do = "finish" /\ a.on = p BY DEF Act
  <1>b. \A do, q : do # "finish" => Act(do, q) # a BY DEF Act
  <1>c. Acts(i, k, a)' OBVIOUS
  <1> HIDE DEF a
  <1>1. CASE frames' = frames
    BY <1>c, <1>1 DEF a, Acts
  <1>2. CASE frames' = <<>>
    BY <1>2 DEF Acts
  <1>3. CASE \E n \in 1..Depth : Quieting(n)
    <2>1. PICK n \in 1..Depth : Quieting(n) BY <1>3
    <2>2. Acts(i, k, a) \/ (\E q, do : do # "finish" /\ a = Act(do, q))
      BY <1>c, <2>1, QuietActs
    <2>3. QED BY <1>b, <2>2 DEF a
  <1>4. CASE \E n \in 1..Depth : \E d, x : Works(n, d, x)
    <2>1. PICK n \in 1..Depth, d \in Nat, x \in Seq(Actions) : Works(n, d, x) BY <1>4 DEF Works
    <2>2. Working(n, d, x) BY <2>1 DEF Works
    <2>3. \/ Acts(i, k, a) \/ Acts(i, k - Len(x) + d, a)
          \/ i = n /\ k \in 1..Len(x) /\ x[k] = a
      BY <1>c, <2>2, WorkActs
    <2>4. ASSUME i = n, k \in 1..Len(x), x[k] = a
          PROVE  phase' = [phase EXCEPT ![p] = "closing"] /\ Active(p) /\ i = Depth
      <3>1. CASE Begins(n, d, x)
        <4>1. PICK q \in Producer :
                /\ Active(q) /\ phase' = [phase EXCEPT ![q] = "closing"] /\ n = Depth
                /\ x \in {<<Act("second", q), Act("check", q), Act("scope", q), Act("finish", q)>>,
                          <<Act("scope", q), Act("finish", q)>>}
          BY <3>1 DEF Begins
        <4>2. \E do \in {"second", "check", "scope", "finish"} : a = Act(do, q)
          BY <2>4, <4>1
        <4>3. q = p BY <1>a, <4>2 DEF Act
        <4>4. QED BY <2>4, <4>1, <4>3
      <3>2. CASE Scopes(n, d, x)
        <4>1. PICK S, keys : Closes(x, S, keys) BY <3>2 DEF Scopes
        <4>2. x[k].do = "producer" \/ x[k] = Act("close", keys) BY <2>4, <4>1 DEF Closes
        <4>3. x[k].do \in {"producer", "close"} BY <4>2 DEF Act
        <4>4. QED BY <1>a, <2>4, <4>3
      <3>3. CASE x = <<>>
        BY <2>4, <3>3
      <3>4. QED BY <2>1, <3>1, <3>2, <3>3 DEF Works, Finishes, Passes
    <2>5. QED BY <2>3, <2>4 DEF a
  <1>5. QED BY <1>1, <1>2, <1>3, <1>4, StepActs

LEMMA FinishMade ==
  ASSUME ShapeInv, MadeInv, NEW p \in Producer, NEW i, NEW k, Acts(i, k, Act("finish", p))
  PROVE  phase[p] # "none"
  BY DEF MadeInv, Acts, Act, Depth

\* As many producers have been constructed as the greatest of them says.
LEMMA CountMade ==
  ASSUME ShapeInv, MadeInv
  PROVE  \A p \in Producer : phase[p] # "none" => p <= Constructed
  <1> SUFFICES ASSUME NEW p \in Producer, phase[p] # "none" PROVE p <= Constructed
    OBVIOUS
  <1> DEFINE S == {q \in Producer : phase[q] # "none"}
  <1>1. MaxProducers \in Nat BY Bounds
  <1>2. p \in Nat /\ 1..p \subseteq Producer BY <1>1 DEF Producer
  <1>3. \A q \in 1..p : q \in Producer /\ q <= p BY <1>2
  <1>4. 1..p \subseteq S BY <1>3 DEF MadeInv
  <1>5. IsFiniteSet(S) /\ Cardinality(S) \in 0..MaxProducers
    <2>1. S \subseteq Producer OBVIOUS
    <2>2. QED BY <2>1, ProducersFinite
  <1>6. Cardinality(1..p) = p BY <1>2, FS_Interval
  <1>7. Cardinality(1..p) <= Cardinality(S) BY <1>4, <1>5, FS_Subset
  <1>8. QED BY <1>6, <1>7 DEF Constructed

LEMMA MadeStep ==
  ASSUME ShapeInv, GraphInv, MadeInv, [Next]_vars
  PROVE  MadeInv'
  <1>1. ShapeInv' /\ frames' \in Seq(Frame) BY ShapeStep, StepIs
  <1>2. Lasting /\ (Barren \/ Produce) BY PhasesStep
  <1>3. /\ phase \in [Producer -> Phases] /\ parent \in [Producer -> Scope]
        /\ token \in [Producer -> BOOLEAN]
    BY DEF ShapeInv, TypeInv, VarInv
  <1>4. Depth' = Len(frames') /\ Depth = Len(frames) /\ Depth \in Nat
    BY LenProperties DEF Depth, ShapeInv, TypeInv
  <1>5. /\ \A p \in Producer : phase'[p] = "none" => ~token'[p]
        /\ \A p, q \in Producer : q <= p /\ phase'[p] # "none" => phase'[q] # "none"
    <2>1. CASE Barren
      BY <1>2, <2>1 DEF Lasting, Barren, MadeInv
    <2>2. CASE Produce
      <3>1. PICK p \in Producer : /\ phase[p] = "none"
                                  /\ \A q \in 1..p - 1 : phase[q] # "none"
                                  /\ phase' = [phase EXCEPT ![p] = "new"]
                                  /\ token' = [token EXCEPT ![p] = TRUE]
        BY <2>2 DEF Produce
      <3>2. /\ phase'[p] = "new"
            /\ \A q \in Producer : q # p => phase'[q] = phase[q] /\ token'[q] = token[q]
        BY <1>3, <3>1
      <3>3. \A q \in Producer : phase'[q] = "none" => ~token'[q]
        BY <3>2 DEF MadeInv
      <3>4. \A q \in Producer : q < p => phase[q] # "none"
        <4>1. \A q \in Producer : q < p => q \in 1..p - 1 BY Bounds DEF Producer
        <4>2. QED BY <3>1, <4>1
      <3>5. ASSUME NEW r \in Producer, NEW q \in Producer, q <= r, phase'[r] # "none"
            PROVE  phase'[q] # "none"
        <4>1. CASE r = p
          <5>1. q = p \/ q < p BY <3>5, <4>1, Bounds DEF Producer
          <5>2. QED BY <3>2, <3>4, <5>1
        <4>2. CASE r # p
          BY <3>2, <3>5, <4>2 DEF MadeInv
        <4>3. QED BY <4>1, <4>2
      <3>6. QED BY <3>3, <3>5
    <2>3. QED BY <1>2, <2>1, <2>2
  <1>6. ASSUME NEW i \in 1..Depth', frames'[i].kind = "cleanup",
               NEW k \in 1..Len(frames'[i].actions), frames'[i].actions[k].do = "finish"
        PROVE  phase'[frames'[i].actions[k].on] # "none"
    <2>1. frames'[i] \in CleanupFrames
      <3>1. frames'[i] \in Frame BY <1>1, <1>4, ElementOfSeq
      <3>2. QED BY <1>6, <3>1, FrameKinds
    <2>2. frames'[i].actions[k] \in Actions BY <1>6, <2>1, CleanupFields, ElementOfSeq
    <2>3. PICK p \in Producer : frames'[i].actions[k] = Act("finish", p) /\ frames'[i].actions[k].on = p
      BY <1>6, <2>2, ActionKinds
    <2>4. Acts(i, k, Act("finish", p))' BY <1>4, <1>6, <2>3 DEF Acts
    <2>5. CASE \E j, l : Acts(j, l, Act("finish", p))
      <3>1. phase[p] # "none" BY <2>5, FinishMade
      <3>2. QED BY <1>2, <2>3, <3>1 DEF Lasting
    <2>6. CASE phase' = [phase EXCEPT ![p] = "closing"]
      <3>1. phase'[p] = "closing" BY <1>3, <2>6
      <3>2. QED BY <2>3, <3>1
    <2>7. QED BY <1>1, <2>4, <2>5, <2>6, FinishFrom
  <1>7. ASSUME NEW k \in 1..Depth', NEW i \in 1..Depth',
               frames'[k].kind = "body", frames'[i].kind = "body", k < i,
               frames'[k].job \in {"acquire", "step"}
        PROVE  frames'[k].of <= frames'[i].made
    <2>1. CASE frames' = frames
      BY <1>4, <1>7, <2>1 DEF MadeInv
    <2>2. CASE frames' = <<>>
      BY <1>4, <1>7, <2>2
    \* A callback that is there already is of a producer that was made.
    <2>3. ASSUME NEW n \in 1..Depth, k \in 1..n, frames[k].kind = "body",
                 frames[k].job \in {"acquire", "step"}
          PROVE  frames[k].of <= Constructed
      <3>1. k \in 1..Depth BY <1>4, <2>3
      <3>2. frames[k] \in Frame /\ frames[k] \in Bodies
        <4>1. frames[k] \in Frame BY <1>4, <3>1, ElementOfSeq DEF ShapeInv, TypeInv
        <4>2. QED BY <2>3, <4>1, FrameKinds
      <3>3. k # 1 BY <1>4, <2>3, <3>1 DEF ShapeInv, Stacked, Bottom
      <3>4. k \in 2..Len(frames) /\ k - 1 \in 1..Depth BY <1>4, <3>1, <3>3
      <3>5. Above(frames[k - 1], frames[k]) BY <3>4 DEF ShapeInv, Stacked
      <3>6. frames[k - 1].kind = "task" /\ frames[k - 1].at = frames[k].job
            /\ frames[k].of = frames[k - 1].from
        BY <2>3, <3>5 DEF Above
      <3>7. frames[k - 1] \in TaskFrames
        <4>1. frames[k - 1] \in Frame BY <1>4, <3>4, ElementOfSeq DEF ShapeInv, TypeInv
        <4>2. QED BY <3>6, <4>1, FrameKinds
      <3>8. frames[k].of \in frames[k - 1].graph /\ frames[k].of \in Producer
        BY <2>3, <3>6, <3>7, TaskFields
      <3>9. phase[frames[k].of] # "none" BY <3>4, <3>6, <3>8 DEF GraphInv
      <3>10. QED BY <3>8, <3>9, CountMade
    \* Up to n the bodies stay; on top of it is one that is entered now.
    <2>4. ASSUME NEW n \in 1..Depth, Stands(n),
                 i = n + 1 => frames'[i].made = Constructed
          PROVE  frames'[k].of <= frames'[i].made
      <3>1. Len(frames') \in {n, n + 1} BY <2>4 DEF Stands
      <3>2. k \in 1..n /\ (i \in 1..n \/ i = n + 1) BY <1>4, <1>7, <3>1
      <3>3. \A j \in 1..n : Heir(frames[j], frames'[j]) BY <2>4 DEF Stands
      <3>4. /\ frames[k].kind = "body" /\ frames'[k].of = frames[k].of
            /\ frames[k].job \in {"acquire", "step"}
        BY <1>7, <3>2, <3>3 DEF Heir
      <3>5. CASE i \in 1..n
        <4>1. frames[i].kind = "body" /\ frames'[i].made = frames[i].made
          BY <1>7, <3>3, <3>5 DEF Heir
        <4>2. k \in 1..Depth /\ i \in 1..Depth BY <1>4, <3>2, <3>5
        <4>3. QED BY <1>7, <3>4, <4>1, <4>2 DEF MadeInv
      <3>6. CASE i = n + 1
        BY <2>3, <2>4, <3>2, <3>4, <3>6
      <3>7. QED BY <3>2, <3>5, <3>6
    <2>5. CASE \E n \in 1..Depth : Settled(n)
      <3>1. PICK n \in 1..Depth : Settled(n) BY <2>5
      <3>2. Len(frames') \in {n, n + 1} BY <3>1 DEF Settled, Stands
      <3>3. i = n + 1 => frames'[i].made = Constructed
        BY <1>4, <1>7, <3>1, <3>2 DEF Settled
      <3>4. Stands(n) BY <3>1 DEF Settled
      <3>5. QED BY <2>4, <3>3, <3>4
    <2>6. CASE Consuming
      <3>1. /\ Running /\ Stands(Depth) /\ Len(frames') = Depth + 1
            /\ frames'[Depth + 1] \in TaskFrames
        BY <1>1, <2>6, ConsumingStands
      <3>2. frames'[Depth + 1].kind = "task" BY <3>1, TaskFields
      <3>3. i # Depth + 1 BY <1>7, <3>2
      <3>4. Depth \in 1..Depth BY <3>1, TopIs
      <3>5. QED BY <2>4, <3>1, <3>3, <3>4
    <2>7. CASE Joining
      <3> DEFINE m == Depth - 1
      <3>1. Depth > 1 /\ Stands(m) /\ Len(frames') = m BY <1>1, <2>7, JoiningStands
      <3>2. m \in 1..Depth BY <3>1 DEF Stands
      <3> HIDE DEF m
      <3>3. i # m + 1 BY <1>4, <1>7, <3>1, <3>2
      <3>4. QED BY <2>4, <3>1, <3>2, <3>3
    <2>8. QED BY <1>1, <2>1, <2>2, <2>5, <2>6, <2>7, StepSettles
  <1>8. QED BY <1>5, <1>6, <1>7 DEF MadeInv

-----------------------------------------------------------------------------
(* Who owns what: callbacks, scopes and cleanups.                          *)

\* A closing producer is finished by one action of one cleanup.
FinishInv ==
  /\ \A p \in Producer : \A i, k : Acts(i, k, Act("finish", p)) => phase[p] = "closing"
  /\ \A p \in Producer : \A i, j, k, l :
       Acts(i, k, Act("finish", p)) /\ Acts(j, l, Act("finish", p)) => i = j /\ k = l
  /\ \A p \in Producer : phase[p] = "closing" => \E i, k : Acts(i, k, Act("finish", p))
\* A callback that may still return is the one that its producer is in.
CallbackInv ==
  \A i \in 1..Depth :
    /\ frames[i].kind = "body" /\ frames[i].job \in {"acquire", "step"} /\ ~Doomed(i)
    => phase[frames[i].of] = IF frames[i].job = "acquire" THEN "acquiring" ELSE "stepping"
\* What may still run in the scope of a producer runs in one of its callbacks: its
\* acquire or step, or those of its release, whose scope is closed after them.
Pending(i, p) == \E j, k : j < i /\ Acts(j, k, Act("scope", p))
OwnerInv ==
  \A i \in 1..Depth : frames[i].kind # "cleanup" /\ frames[i].owner # 0 /\ ~Doomed(i) =>
    \/ phase[frames[i].owner] \in {"acquiring", "stepping"}
    \/ phase[frames[i].owner] = "closing" /\ Pending(i, frames[i].owner)
\* Nothing that may still run belongs to a producer that a cleanup above is to close.
CloseInv ==
  \A p \in Producer : \A j, k : Acts(j, k, Act("producer", p)) /\ Active(p) =>
    \A i \in 1..Depth :
      i < j /\ frames[i].kind # "cleanup" /\ ~Doomed(i) => frames[i].owner # p
ScopeInv == FinishInv /\ CallbackInv /\ OwnerInv /\ CloseInv
HeldInv == ShapeInv /\ GraphInv /\ MadeInv /\ ScopeInv

LEMMA ActsIs ==
  ASSUME ShapeInv, NEW i, NEW k, NEW a, Acts(i, k, a)
  PROVE  /\ i \in 1..Depth /\ i \in Nat /\ frames[i] \in CleanupFrames /\ a \in Actions
         /\ k \in Nat \ {0} /\ k <= Len(frames[i].actions)
  <1>1. Depth \in Nat /\ Depth = Len(frames) /\ frames \in Seq(Frame)
    BY LenProperties DEF Depth, ShapeInv, TypeInv
  <1>2. i \in 1..Depth /\ frames[i] \in Frame BY <1>1, ElementOfSeq DEF Acts
  <1>3. frames[i] \in CleanupFrames BY <1>2, FrameKinds DEF Acts
  <1>4. frames[i].actions \in Seq(Actions) BY <1>3, CleanupFields
  <1>5. a \in Actions BY <1>4, ElementOfSeq DEF Acts
  <1>6. Len(frames[i].actions) \in Nat BY <1>4, LenProperties
  <1>7. k \in Nat \ {0} /\ k <= Len(frames[i].actions) BY <1>6 DEF Acts
  <1>8. QED BY <1>1, <1>2, <1>3, <1>5, <1>7

\* A scope is followed by its finish.
LEMMA ScopeFinishes ==
  ASSUME ShapeInv, NEW i, NEW k, NEW p, Acts(i, k, Act("scope", p))
  PROVE  Acts(i, k + 1, Act("finish", p)) /\ k \in Nat
  <1>1. frames[i] \in CleanupFrames /\ k \in Nat BY ActsIs
  <1>2. PICK a : a = frames[i].actions OBVIOUS
  <1>3. PICK n \in Nat : n = Len(a)
    <2>1. frames[i].actions \in Seq(Actions) BY <1>1, CleanupFields
    <2>2. QED BY <1>2, <2>1, LenProperties
  <1>4. k \in 1..n /\ a[k].do = "scope" /\ a[k].on = p BY <1>2, <1>3 DEF Acts, Act
  <1>5. Shape(a) BY <1>1, <1>2, CleanupFields
  <1>6. k < n /\ a[k + 1] = Act("finish", p) BY <1>3, <1>4, <1>5 DEF Shape
  <1>7. k + 1 \in 1..n BY <1>3, <1>4, <1>6
  <1>8. QED BY <1>1, <1>2, <1>3, <1>6, <1>7 DEF Acts

\* A producer whose release callback runs is closing.
LEMMA ReleaseCloses ==
  ASSUME ShapeInv, FinishInv, NEW i \in 1..Depth, NEW p \in Producer, frames[i].kind = "cleanup",
         frames[i].actions # <<>>,
         frames[i].actions[1] \in {Act("second", p), Act("check", p)}
  PROVE  phase[p] = "closing" /\ \E k : Acts(i, k, Act("scope", p))
  <1>1. frames[i] \in CleanupFrames
    <2>1. frames[i] \in Frame BY ElementOfSeq DEF Depth, ShapeInv, TypeInv
    <2>2. QED BY <2>1, FrameKinds
  <1>2. PICK a : a = frames[i].actions OBVIOUS
  <1>3. a \in Seq(Actions) /\ Shape(a) BY <1>1, <1>2, CleanupFields
  <1>4. PICK n \in Nat : n = Len(a) BY <1>3, LenProperties
  <1>5. 1 \in 1..n BY <1>2, <1>3, <1>4, EmptySeq
  <1>6. \E k \in 1..n : a[k] = Act("check", p)
    <2>1. CASE a[1] = Act("check", p) BY <1>5, <2>1
    <2>2. CASE a[1] = Act("second", p)
      <3>1. a[1].do = "second" /\ a[1].on = p BY <2>2 DEF Act
      <3>2. n > 1 /\ a[2] = Act("check", p) BY <1>3, <1>4, <1>5, <3>1 DEF Shape
      <3>3. 2 \in 1..n BY <3>2
      <3>4. QED BY <3>2, <3>3
    <2>3. QED BY <1>2, <2>1, <2>2
  <1>7. PICK k \in 1..n : a[k] = Act("check", p) BY <1>6
  <1>8. a[k].do = "check" /\ a[k].on = p BY <1>7 DEF Act
  <1>9. k < n /\ a[k + 1] = Act("scope", p) BY <1>3, <1>4, <1>7, <1>8 DEF Shape
  <1>10. k + 1 \in 1..n BY <1>4, <1>7, <1>9
  <1>11. Acts(i, k + 1, Act("scope", p))
    BY <1>2, <1>4, <1>9, <1>10 DEF Acts, Depth
  <1>12. Acts(i, k + 1 + 1, Act("finish", p)) BY <1>11, ScopeFinishes
  <1>13. QED BY <1>11, <1>12 DEF FinishInv

\* What runs in the scope of an active producer has its acquire or step callback below
\* it, on top of the consumer that pulls it, and no cleanup in between.
LEMMA Ancestor ==
  ASSUME ShapeInv, GraphInv, FinishInv, NEW p \in Producer, Active(p),
         NEW i \in 1..Depth, frames[i].kind # "cleanup", frames[i].owner = p
  PROVE  \E k \in 2..Depth :
           /\ k <= i /\ k - 1 \in 1..Depth
           /\ frames[k].kind = "body" /\ frames[k].job \in {"acquire", "step"} /\ frames[k].of = p
           /\ frames[k - 1].kind = "task" /\ p \in frames[k - 1].graph
           /\ frames[k - 1].owner = parent[p]
           /\ Doomed(k - 1) => Doomed(i)
  <1>1. /\ Depth \in Nat /\ Depth = Len(frames)
        /\ \A j \in 1..Depth : frames[j] \in Frame
    BY LenProperties, ElementOfSeq DEF Depth, ShapeInv, TypeInv
  <1>2. /\ Bottom(frames[1])
        /\ \A j \in 2..Depth : Above(frames[j - 1], frames[j])
    <2>1. Depth # 0 BY <1>1
    <2>2. frames # <<>> BY <1>1, <2>1
    <2>3. QED BY <1>1, <2>2 DEF ShapeInv, Stacked
  <1>3. p # 0 BY Bounds DEF Producer
  <1> DEFINE K == {k \in 1..Depth : /\ k <= i
                                    /\ \A j \in k..i : frames[j].kind # "cleanup"
                                    /\ frames[k].owner = p}
  <1>4. i \in K BY <1>1
  <1>5. K \subseteq Nat /\ K # {} BY <1>1, <1>4
  <1>6. PICK k \in K : \A j \in K : k <= j BY <1>5, LeastNumber
  <1>7. /\ k \in 1..Depth /\ k <= i /\ frames[k].owner = p
        /\ \A j \in k..i : frames[j].kind # "cleanup"
    OBVIOUS
  <1>8. k \in Nat /\ frames[k].kind # "cleanup" BY <1>1, <1>7
  <1>9. k # 1
    <2>1. frames[1].owner = 0 BY <1>2 DEF Bottom
    <2>2. QED BY <1>3, <1>7, <2>1
  <1>10. k \in 2..Depth /\ k - 1 \in 1..Depth /\ k - 1 < k BY <1>1, <1>7, <1>8, <1>9
  <1>11. Above(frames[k - 1], frames[k]) BY <1>2, <1>10
  <1>12. frames[k - 1].kind # "cleanup" => frames[k - 1].owner # p
    <2> SUFFICES ASSUME frames[k - 1].kind # "cleanup", frames[k - 1].owner = p
                 PROVE  FALSE
      OBVIOUS
    <2>1. \A j \in k - 1..i : j = k - 1 \/ j \in k..i BY <1>8, <1>1
    <2>2. \A j \in k - 1..i : frames[j].kind # "cleanup" BY <1>7, <2>1
    <2>3. k - 1 <= i BY <1>1, <1>7, <1>8
    <2>4. k - 1 \in K BY <1>10, <2>2, <2>3
    <2>5. QED BY <1>6, <1>8, <2>4
  <1> HIDE DEF K
  <1>13. frames[k].kind = "body"
    <2>1. frames[k].kind \in {"body", "task", "cleanup"} BY <1>1, <1>7, FrameKinds
    <2>2. CASE frames[k].kind = "task"
      BY <1>7, <1>11, <1>12, <2>2 DEF Above
    <2>3. QED BY <1>8, <2>1, <2>2
  <1>14. frames[k] \in Bodies BY <1>1, <1>7, <1>13, FrameKinds
  <1>15. frames[k].job \in {"acquire", "step", "release", "reason"}
    <2>1. frames[k].job \in Jobs BY <1>14, BodyFields
    <2>2. frames[k].job \notin {"entry", "ended"} BY <1>11, <1>13 DEF Above
    <2>3. frames[k].job \notin {"attempt", "transform", "fold"}
      BY <1>7, <1>11, <1>12, <1>13 DEF Above
    <2>4. QED BY <2>1, <2>2, <2>3 DEF Jobs
  <1>16. frames[k].of = p BY <1>7, <1>14, <1>15, BodyFields DEF Callbacks
  <1>17. frames[k].job \notin {"release", "reason"}
    <2> SUFFICES ASSUME frames[k].job \in {"release", "reason"} PROVE FALSE
      OBVIOUS
    <2>1. /\ frames[k - 1].kind = "cleanup" /\ frames[k - 1].actions # <<>>
          /\ frames[k - 1].actions[1] \in {Act("second", p), Act("check", p)}
      BY <1>11, <1>13, <1>16 DEF Above
    <2>2. phase[p] = "closing" BY <1>10, <2>1, ReleaseCloses
    <2>3. QED BY <2>2 DEF Active
  <1>18. /\ frames[k - 1].kind = "task" /\ frames[k - 1].at = frames[k].job
         /\ frames[k].of = frames[k - 1].from
    BY <1>11, <1>13, <1>15, <1>17 DEF Above
  <1>19. frames[k - 1] \in TaskFrames BY <1>1, <1>10, <1>18, FrameKinds
  <1>20. p \in frames[k - 1].graph BY <1>15, <1>16, <1>17, <1>18, <1>19, TaskFields
  <1>21. frames[k - 1].owner = parent[p] BY <1>10, <1>18, <1>20 DEF GraphInv
  <1>22. Doomed(k - 1) => Doomed(i)
    <2> SUFFICES ASSUME NEW j \in k - 1 + 1..Depth,
                        frames[j].kind = "cleanup", frames[j].after = "unwind",
                        Checkpoint(SubSeq(frames, 1, j - 1), aborting) < k - 1
                 PROVE  Doomed(i)
      BY <1>1 DEF Doomed
    <2>1. j \in k..Depth BY <1>1, <1>8
    <2>2. j \notin k..i BY <1>7
    <2>3. j \in i + 1..Depth BY <1>1, <1>8, <2>1, <2>2
    <2>4. PICK c : c = Checkpoint(SubSeq(frames, 1, j - 1), aborting) OBVIOUS
    <2>5. c \in Nat
      <3>1. SubSeq(frames, 1, j - 1) \in Seq(Frame)
        BY <1>1, <2>1, Prefix DEF ShapeInv, TypeInv
      <3>2. aborting \in BOOLEAN BY DEF ShapeInv, TypeInv, VarInv
      <3>3. PICK s : s = SubSeq(frames, 1, j - 1) OBVIOUS
      <3>4. s \in Seq(Frame) /\ Len(s) \in Nat BY <3>1, <3>3, LenProperties
      <3>5. Checkpoint(s, aborting) \in 0..Len(s) BY <3>2, <3>4, CheckpointIs
      <3>6. c \in 0..Len(s) BY <2>4, <3>3, <3>5
      <3>7. QED BY <3>4, <3>6
    <2>6. c < i
      <3>1. c < k - 1 BY <2>4
      <3>2. QED BY <1>1, <1>7, <1>8, <2>5, <3>1
    <2>7. QED BY <1>1, <2>3, <2>4, <2>6 DEF Doomed
  <1>23. QED BY <1>7, <1>10, <1>13, <1>15, <1>16, <1>17, <1>18, <1>20, <1>21, <1>22

LEMMA GraphOnce ==
  ASSUME GraphInv, NEW i \in 1..Depth, NEW j \in 1..Depth,
         frames[i].kind = "task", frames[j].kind = "task",
         NEW p, p \in frames[i].graph, p \in frames[j].graph
  PROVE  i = j
  BY DEF GraphInv

\* Nothing below a consumer belongs to an active producer of its graph ...
LEMMA BelowTask ==
  ASSUME HeldInv, NEW p \in Producer, Active(p), NEW t \in 1..Depth,
         frames[t].kind = "task", p \in frames[t].graph,
         NEW i \in 1..Depth, i <= t, frames[i].kind # "cleanup"
  PROVE  frames[i].owner # p
  <1> SUFFICES ASSUME frames[i].owner = p PROVE FALSE
    OBVIOUS
  <1>1. PICK k \in 2..Depth : /\ k <= i /\ k - 1 \in 1..Depth
                              /\ frames[k - 1].kind = "task" /\ p \in frames[k - 1].graph
    BY Ancestor DEF HeldInv, ScopeInv
  <1>2. k - 1 = t BY <1>1, GraphOnce DEF HeldInv
  <1>3. Depth \in Nat BY LenProperties DEF Depth, HeldInv, ShapeInv, TypeInv
  <1>4. QED BY <1>1, <1>2, <1>3

\* ... nor below an attempt to one that was made after it.
LEMMA BelowAttempt ==
  ASSUME HeldInv, NEW p \in Producer, Active(p), NEW at \in 1..Depth, IsAttempt(frames[at]),
         frames[at].made < p,
         NEW i \in 1..Depth, i <= at, frames[i].kind # "cleanup"
  PROVE  frames[i].owner # p
  <1> SUFFICES ASSUME frames[i].owner = p PROVE FALSE
    OBVIOUS
  <1>1. PICK k \in 2..Depth : /\ k <= i /\ frames[k].kind = "body"
                              /\ frames[k].job \in {"acquire", "step"} /\ frames[k].of = p
    BY Ancestor DEF HeldInv, ScopeInv
  <1>2. Depth \in Nat BY LenProperties DEF Depth, HeldInv, ShapeInv, TypeInv
  <1>3. k # at BY <1>1 DEF IsAttempt
  <1>4. k < at /\ k \in 1..Depth BY <1>1, <1>2, <1>3
  <1>5. frames[at].kind = "body" BY DEF IsAttempt
  <1>6. p <= frames[at].made BY <1>1, <1>4, <1>5 DEF HeldInv, MadeInv
  <1>7. frames[at].made \in Nat /\ p \in Nat
    <2>1. frames[at] \in Bodies
      <3>1. frames[at] \in Frame BY ElementOfSeq DEF Depth, HeldInv, ShapeInv, TypeInv
      <3>2. QED BY <1>5, <3>1, FrameKinds
    <2>2. QED BY <2>1, BodyFields, Bounds DEF Scope, Producer
  <1>8. QED BY <1>6, <1>7

\* Nor what may still run, to a child of the producer whose scope is closed on top.
LEMMA BelowScope ==
  ASSUME HeldInv, Running, NEW p \in Producer, NEW k, Acts(Depth, k, Act("scope", p)),
         NEW q \in Producer, Active(q), parent[q] = p,
         NEW i \in 1..Depth, frames[i].kind # "cleanup", ~Doomed(i)
  PROVE  frames[i].owner # q
  <1> SUFFICES ASSUME frames[i].owner = q PROVE FALSE
    OBVIOUS
  <1>1. PICK m \in 2..Depth : /\ m <= i /\ m - 1 \in 1..Depth
                              /\ frames[m - 1].kind = "task" /\ frames[m - 1].owner = p
                              /\ Doomed(m - 1) => Doomed(i)
    BY Ancestor DEF HeldInv, ScopeInv
  <1>2. Acts(Depth, k + 1, Act("finish", p)) BY ScopeFinishes DEF HeldInv
  <1>3. phase[p] = "closing" BY <1>2 DEF HeldInv, ScopeInv, FinishInv
  <1>4. p # 0 BY Bounds DEF Producer
  <1>5. Pending(m - 1, p) BY <1>1, <1>3, <1>4 DEF HeldInv, ScopeInv, OwnerInv
  <1>6. PICK j, l : j < m - 1 /\ Acts(j, l, Act("scope", p)) BY <1>5 DEF Pending
  <1>7. Acts(j, l + 1, Act("finish", p)) BY <1>6, ScopeFinishes DEF HeldInv
  <1>8. j = Depth BY <1>2, <1>7 DEF HeldInv, ScopeInv, FinishInv
  <1>9. Depth \in Nat BY LenProperties DEF Depth, HeldInv, ShapeInv, TypeInv
  <1>10. QED BY <1>1, <1>6, <1>8, <1>9

LEMMA EndedIs ==
  ASSUME ShapeInv, Running, Top.kind = "body", Top.job = "ended"
  PROVE  Depth = 1 /\ Top = frames[1] /\ Top.owner = 0
  <1>1. Depth \in Nat \ {0} /\ Top = frames[Depth] BY TopIs
  <1>2. CASE Depth = 1 BY <1>1, <1>2, TopIs DEF Bottom
  <1>3. CASE Depth # 1
    <2>1. Above(Caller, Top) BY <1>1, <1>3, TopIs
    <2>2. QED BY <2>1 DEF Above
  <1>4. QED BY <1>2, <1>3

\* The frames that a step leaves belong to whom they did, and no other may run.
LEMMA Former ==
  ASSUME NEW n, Stands(n), NEW i \in 1..n
  PROVE  /\ frames'[i].kind = frames[i].kind
         /\ frames[i].kind # "cleanup" /\ frames[i].kind \in {"body", "task", "cleanup"} =>
              frames'[i].owner = frames[i].owner
         /\ frames[i].kind = "body" =>
              /\ frames'[i].of = frames[i].of
              /\ frames'[i].job \in {"acquire", "step"} => frames'[i].job = frames[i].job
         /\ ~Doomed(i)' => ~Doomed(i)
  <1>1. Heir(frames[i], frames'[i]) /\ (Doomed(i) => Doomed(i)') BY DEF Stands
  <1>2. QED BY <1>1 DEF Heir

LEMMA TopActs ==
  ASSUME ShapeInv, Running, Top \in CleanupFrames, Top.actions # <<>>
  PROVE  Acts(Depth, 1, Top.actions[1])
  <1>1. Depth \in Nat \ {0} /\ Top = frames[Depth] /\ Depth = Len(frames) BY TopIs
  <1>2. Top.kind = "cleanup" /\ Top.actions \in Seq(Actions) BY CleanupFields
  <1>3. PICK l \in Nat : l = Len(Top.actions) BY <1>2, LenProperties
  <1>4. l # 0 BY <1>2, <1>3, EmptySeq
  <1>5. 1 \in 1..l /\ Depth \in 1..Depth BY <1>1, <1>3, <1>4
  <1>6. QED BY <1>1, <1>2, <1>3, <1>5 DEF Acts

\* Where a callback is the top frame, its producer is in it.
LEMMA TopCallback ==
  ASSUME HeldInv, Running, Top \in Bodies, Top.job \in {"acquire", "step"}
  PROVE  /\ Top.of \in Producer /\ Active(Top.of)
         /\ phase[Top.of] = IF Top.job = "acquire" THEN "acquiring" ELSE "stepping"
  <1>1. Depth \in Nat \ {0} /\ Top = frames[Depth] BY TopIs DEF HeldInv
  <1>2. Top.kind = "body" /\ Top.of \in Producer BY BodyFields DEF Callbacks
  <1>3. ~Doomed(Depth)
    <2>1. Depth + 1..Len(frames) = {} BY <1>1 DEF Depth
    <2>2. QED BY <2>1 DEF Doomed
  <1>4. Depth \in 1..Depth BY <1>1
  <1>5. phase[Top.of] = IF Top.job = "acquire" THEN "acquiring" ELSE "stepping"
    BY <1>1, <1>2, <1>3, <1>4 DEF HeldInv, ScopeInv, CallbackInv
  <1>6. QED BY <1>2, <1>5 DEF Active

\* What may still run keeps its producer's phase, and the scope that is to be closed
\* after it.
LEMMA Undisturbed ==
  ASSUME HeldInv, frames' \in Seq(Frame), NEW n \in 1..Depth,
         Quieting(n) \/ \E d, x : Works(n, d, x),
         NEW i \in 1..n, frames[i].kind # "cleanup", ~Doomed(i),
         NEW p \in Producer, frames[i].owner = p
  PROVE  /\ phase'[p] = phase[p]
         /\ Pending(i, p) => Pending(i, p)'
         /\ phase[p] \in {"acquiring", "stepping"} \/ (phase[p] = "closing" /\ Pending(i, p))
  <1>1. ShapeInv /\ Depth \in Nat /\ i \in 1..Depth /\ n \in Nat /\ i <= n
    BY LenProperties DEF Depth, HeldInv, ShapeInv, TypeInv
  <1>2. p # 0 BY Bounds DEF Producer
  <1>3. phase[p] \in {"acquiring", "stepping"} \/ (phase[p] = "closing" /\ Pending(i, p))
    BY <1>1, <1>2 DEF HeldInv, ScopeInv, OwnerInv
  <1>4. phase \in [Producer -> Phases] BY <1>1 DEF ShapeInv, TypeInv, VarInv
  <1>5. CASE Quieting(n)
    <2>1. Gently(n) BY <1>5 DEF Quieting
    <2>2. ASSUME \/ Minor \/ Calling \/ Shutting \/ Consuming \/ Joining \/ Unwinding
                 \/ Returning \/ Interrupting
          PROVE  phase'[p] = phase[p]
      BY <2>2 DEF Minor, Calling, Still, Shutting, Consuming, Joining, Unwinding, Returning, Ruins,
                  Interrupting, producing
    <2>3. ASSUME Entering PROVE phase'[p] = phase[p]
      <3>1. PICK q \in Top.graph : /\ phase[q] \in {"new", "ready"}
                                   /\ \/ phase' = [phase EXCEPT ![q] = "acquiring"]
                                      \/ phase' = [phase EXCEPT ![q] = "stepping"]
        BY <2>3 DEF Entering
      <3>2. q # p BY <1>3, <3>1
      <3>3. QED BY <1>4, <3>1, <3>2
    <2>4. ASSUME Answering, n + 1 = Depth PROVE phase'[p] = phase[p]
      <3>1. /\ Top \in Bodies /\ Top.job \in {"acquire", "step"} /\ Depth > 1
            /\ Caller \in TaskFrames /\ Top.of \in Caller.graph
            /\ phase' = [phase EXCEPT ![Top.of] = "ready"]
        BY <2>4 DEF Answering
      <3>2. Running BY <1>1, <3>1, EmptySeq DEF Running, Depth
      <3>3. n = Depth - 1 /\ Caller = frames[Depth - 1] BY <1>1, <2>4, <3>1, <3>2, TopIs
      <3>4. Caller.kind = "task" BY <3>1, TaskFields
      <3>5. Top.of \in Producer /\ Active(Top.of) BY <3>1, <3>2, TopCallback
      <3>6. Caller = frames[n] BY <3>3
      <3>7. frames[i].owner # Top.of BY <1>1, <3>1, <3>4, <3>5, <3>6, BelowTask
      <3>8. QED BY <1>4, <3>1, <3>7
    <2>5. phase'[p] = phase[p] BY <2>1, <2>2, <2>3, <2>4 DEF Gently
    <2>6. Pending(i, p) => Pending(i, p)'
      <3>1. ASSUME NEW j, NEW k, j < i, Acts(j, k, Act("scope", p))
            PROVE  Acts(j, k, Act("scope", p))'
        BY <1>1, <1>5, <3>1, QuietActs
      <3>2. QED BY <3>1 DEF Pending
    <2>7. QED BY <1>3, <2>5, <2>6
  <1>6. ASSUME NEW d, NEW x, Works(n, d, x)
        PROVE  phase'[p] = phase[p] /\ (Pending(i, p) => Pending(i, p)')
    <2>1. /\ Working(n, d, x) /\ d \in Nat /\ x \in Seq(Actions)
          /\ Begins(n, d, x) \/ Scopes(n, d, x) \/ Finishes(n, d, x) \/ Passes(n, d, x)
      BY <1>6 DEF Works
    <2>2. frames[n].kind = "cleanup" /\ frames[n] \in CleanupFrames
      BY <2>1, CleanupFields DEF Working
    <2>3. i < n BY <1>1, <2>2
    <2>4. Pending(i, p) => Pending(i, p)'
      <3>1. ASSUME NEW j, NEW k, j < i, Acts(j, k, Act("scope", p))
            PROVE  Acts(j, k, Act("scope", p))'
        <4>1. j \in Nat BY <1>1, <3>1, ActsIs
        <4>2. j # n BY <1>1, <2>3, <3>1, <4>1
        <4>3. QED BY <1>1, <2>1, <3>1, <4>2, WorkActs
      <3>2. QED BY <3>1 DEF Pending
    <2>5. CASE Begins(n, d, x)
      <3>1. Beginning /\ n = Depth BY <2>5 DEF Begins
      <3>2. PICK q \in Producer : /\ frames[n].actions[1] = Act("producer", q) /\ Active(q)
                                  /\ phase' = [phase EXCEPT ![q] = "closing"]
        BY <2>5 DEF Begins
      <3>3. Running /\ Top \in CleanupFrames /\ Top.actions # <<>>
        BY <1>1, <3>1, BeginningStands
      <3>4. Top = frames[n] BY <1>1, <3>1, <3>3, TopIs
      <3>5. Acts(n, 1, Act("producer", q)) BY <1>1, <3>1, <3>2, <3>3, <3>4, TopActs
      <3>6. frames[i].owner # q BY <1>1, <2>3, <3>2, <3>5 DEF HeldInv, ScopeInv, CloseInv
      <3>7. QED BY <1>4, <2>4, <3>2, <3>6
    <2>6. CASE Finishes(n, d, x)
      <3>1. Finishing /\ n = Depth BY <2>6 DEF Finishes
      <3>2. PICK q \in Producer : /\ frames[n].actions[1] = Act("finish", q)
                                  /\ phase' = [phase EXCEPT ![q] = "closed"]
        BY <2>6 DEF Finishes
      <3>3. Running /\ Top \in CleanupFrames /\ Top.actions # <<>>
        BY <1>1, <3>1, FinishingStands
      <3>4. Top = frames[n] BY <1>1, <3>1, <3>3, TopIs
      <3>5. Acts(n, 1, Act("finish", q)) BY <1>1, <3>1, <3>2, <3>3, <3>4, TopActs
      <3>6. p # q
        <4> SUFFICES ASSUME p = q PROVE FALSE
          OBVIOUS
        <4>1. phase[p] = "closing" BY <3>5 DEF HeldInv, ScopeInv, FinishInv
        <4>2. Pending(i, p) BY <1>3, <4>1
        <4>3. PICK j, k : j < i /\ Acts(j, k, Act("scope", p)) BY <4>2 DEF Pending
        <4>4. Acts(j, k + 1, Act("finish", p)) BY <1>1, <4>3, ScopeFinishes
        <4>5. j = n BY <3>5, <4>4 DEF HeldInv, ScopeInv, FinishInv
        <4>6. QED BY <1>1, <2>3, <4>3, <4>5
      <3>7. QED BY <1>4, <2>4, <3>2, <3>6
    <2>7. CASE Scopes(n, d, x)
      BY <2>4, <2>7 DEF Scopes, Scoping, Still, producing
    <2>8. CASE Passes(n, d, x)
      BY <2>4, <2>8 DEF Passes, Reasoning, Passing, Deferring, Ruins, producing
    <2>9. QED BY <2>1, <2>5, <2>6, <2>7, <2>8
  <1>7. QED BY <1>3, <1>5, <1>6

LEMMA NothingCloses ==
  ASSUME ShapeInv, Ending \/ Quitting, NEW i, NEW k, NEW a
  PROVE  ~Acts(i, k, a)
  <1> SUFFICES ASSUME Acts(i, k, a) PROVE FALSE
    OBVIOUS
  <1>1. i \in 1..Depth /\ frames[i] \in CleanupFrames /\ i \in Nat BY ActsIs
  <1>2. frames[i].kind = "cleanup" BY <1>1, CleanupFields
  <1>3. CASE Ending
    <2>1. Running /\ Top.kind = "body" /\ Top.job = "ended" BY <1>3 DEF Ending
    <2>2. Depth = 1 /\ Top = frames[1] BY <2>1, EndedIs
    <2>3. i = 1 BY <1>1, <2>2
    <2>4. QED BY <1>2, <2>1, <2>2, <2>3
  <1>4. CASE Quitting
    <2>1. PICK m, error, fs : Origin(m, fs, error) /\ GivenUp(fs, error)
      BY <1>4 DEF Quitting
    <2>2. /\ m \in 1..Depth /\ Depth \in Nat
          /\ fs \in Seq(Frame) /\ Len(fs) = m /\ DOMAIN fs = 1..m
          /\ \A j \in 1..m : fs[j] = frames[j]
          /\ \A j \in m + 1..Depth : j = Depth /\ frames[j] = Top /\ Top.actions = <<>>
          /\ Aborts(error) \in BOOLEAN
      BY <2>1, OriginIs
    <2>3. Checkpoint(fs, Aborts(error)) = 0 BY <2>1 DEF GivenUp
    <2>4. \A j \in Cleanups(fs) : j <= 0 BY <2>2, <2>3, CheckpointIs
    <2>5. CASE i <= m
      <3>1. i \in 1..m BY <1>1, <2>2, <2>5
      <3>2. i \in Cleanups(fs) BY <1>2, <2>2, <3>1 DEF Cleanups
      <3>3. i <= 0 BY <2>4, <3>2
      <3>4. QED BY <3>1, <3>3
    <2>6. CASE i > m
      <3>1. i \in m + 1..Depth BY <1>1, <2>2, <2>6
      <3>2. frames[i].actions = <<>> BY <2>2, <3>1
      <3>3. k \in 1..Len(frames[i].actions) BY DEF Acts
      <3>4. QED BY <3>2, <3>3, EmptySeq
    <2>7. QED BY <1>1, <2>2, <2>5, <2>6
  <1>5. QED BY <1>3, <1>4

\* Which producers are closing changes with their actions only.
LEMMA ClosingStays ==
  ASSUME HeldInv, NEW p \in Producer,
         \/ Produce \/ Open \/ UNCHANGED vars \/ Ending \/ Quitting
         \/ \E n : Gently(n) \/ (\E d, x : Scopes(n, d, x) \/ Passes(n, d, x))
  PROVE  phase'[p] = "closing" <=> phase[p] = "closing"
  <1>1. ShapeInv BY DEF HeldInv
  <1>2. phase \in [Producer -> Phases] BY <1>1 DEF ShapeInv, TypeInv, VarInv
  <1>3. ASSUME NEW q, NEW x, q \in Producer, phase' = [phase EXCEPT ![q] = x],
               x # "closing", phase[q] # "closing"
        PROVE  phase'[p] = "closing" <=> phase[p] = "closing"
    <2>1. CASE p = q BY <1>2, <1>3, <2>1
    <2>2. CASE p # q BY <1>2, <1>3, <2>2
    <2>3. QED BY <2>1, <2>2
  <1>4. CASE Produce
    BY <1>3, <1>4 DEF Produce
  <1>5. CASE \/ Open \/ UNCHANGED vars \/ Ending \/ Quitting
             \/ Minor \/ Calling \/ Shutting \/ Consuming \/ Joining \/ Unwinding \/ Returning
             \/ Interrupting \/ Reasoning \/ Passing \/ Deferring \/ Scoping
    <2>1. phase' = phase
      BY <1>5 DEF Open, vars, Ending, Quitting, Minor, Calling, Still, Shutting, Consuming, Joining,
                  Unwinding, Returning, Ruins, Interrupting, Reasoning, Passing, Deferring, Scoping,
                  producing
    <2>2. QED BY <2>1
  <1>6. CASE Entering
    <2>1. PICK q \in Top.graph : /\ phase[q] \in {"new", "ready"}
                                 /\ \/ phase' = [phase EXCEPT ![q] = "acquiring"]
                                    \/ phase' = [phase EXCEPT ![q] = "stepping"]
      BY <1>6 DEF Entering
    <2>2. q \in Producer BY <1>6, TaskFields DEF Entering
    <2>3. QED BY <1>3, <2>1, <2>2
  <1>7. CASE Answering
    <2>1. /\ Top \in Bodies /\ Top.job \in {"acquire", "step"} /\ Depth > 1
          /\ phase' = [phase EXCEPT ![Top.of] = "ready"]
      BY <1>7 DEF Answering
    <2>2. Running BY <2>1, EmptySeq DEF Running, Depth
    <2>3. Top.of \in Producer /\ phase[Top.of] # "closing" BY <2>1, <2>2, TopCallback
    <2>4. QED BY <1>3, <2>1, <2>3
  <1>8. QED BY <1>4, <1>5, <1>6, <1>7 DEF Gently, Scopes, Passes

ActsNat == \A i, k, a : Acts(i, k, a) => i \in Nat /\ k \in Nat

LEMMA ActsNext == ShapeInv' => ActsNat'
  <1>1. ShapeInv => ActsNat BY ActsIs DEF ActsNat
  <1>2. QED BY <1>1, PTL

LEMMA FinishStep ==
  ASSUME HeldInv, [Next]_vars
  PROVE  FinishInv'
  <1>1. ShapeInv /\ FinishInv BY DEF HeldInv, ScopeInv
  <1>2. frames' \in Seq(Frame) BY <1>1, StepIs
  <1>3. phase \in [Producer -> Phases] BY <1>1 DEF ShapeInv, TypeInv, VarInv
  <1> DEFINE F(p) == Act("finish", p)
  <1>a. \A p \in Producer : \A do, on : Act(do, on) = F(p) => do = "finish" /\ on = p BY DEF Act
  <1>b. \A p \in Producer : Act("finish", p) = F(p) OBVIOUS
  <1>c. \A p \in Producer : F(p)' = F(p) BY DEF Act
  <1> HIDE DEF F
  <1>4. ASSUME \A p \in Producer : phase'[p] = "closing" <=> phase[p] = "closing",
               \A p \in Producer : \A i, k : Acts(i, k, F(p))' <=> Acts(i, k, F(p))
        PROVE  FinishInv'
    BY <1>1, <1>b, <1>4 DEF FinishInv
  <1>5. CASE frames' = frames /\ (Produce \/ Open \/ UNCHANGED vars)
    <2>1. \A p \in Producer : \A i, k : Acts(i, k, F(p))' <=> Acts(i, k, F(p))
      BY <1>5 DEF Acts
    <2>2. \A p \in Producer : phase'[p] = "closing" <=> phase[p] = "closing"
      BY <1>5, ClosingStays
    <2>3. QED BY <1>4, <2>1, <2>2
  <1>6. CASE frames' = <<>> /\ (Ending \/ Quitting)
    <2>1. \A p \in Producer : \A i, k : ~Acts(i, k, F(p)) BY <1>1, <1>6, NothingCloses
    <2>2. \A p \in Producer : \A i, k : ~Acts(i, k, F(p))' BY <1>6 DEF Acts
    <2>3. \A p \in Producer : phase'[p] = "closing" <=> phase[p] = "closing"
      BY <1>6, ClosingStays
    <2>4. QED BY <1>4, <2>1, <2>2, <2>3
  <1>7. CASE \E n \in 1..Depth : Quieting(n)
    <2>1. PICK n \in 1..Depth : Quieting(n) BY <1>7
    <2>2. \A p \in Producer : phase'[p] = "closing" <=> phase[p] = "closing"
      BY <2>1, ClosingStays DEF Quieting
    <2>3. ASSUME NEW p \in Producer, NEW i, NEW k
          PROVE  Acts(i, k, F(p))' <=> Acts(i, k, F(p))
      <3>1. Acts(i, k, F(p)) => Acts(i, k, F(p))' BY <1>1, <1>2, <2>1, QuietActs
      <3>2. \/ Acts(i, k, F(p))' => Acts(i, k, F(p))
            \/ \E do, on : do # "finish" /\ F(p) = Act(do, on)
        BY <1>1, <1>2, <2>1, QuietActs
      <3>3. QED BY <1>a, <3>1, <3>2
    <2>4. QED BY <1>4, <2>2, <2>3
  <1>8. ASSUME NEW n \in 1..Depth, NEW d, NEW x, Works(n, d, x)
        PROVE  FinishInv'
    <2>1. /\ Working(n, d, x) /\ d \in Nat /\ x \in Seq(Actions)
          /\ Begins(n, d, x) \/ Scopes(n, d, x) \/ Finishes(n, d, x) \/ Passes(n, d, x)
      BY <1>8 DEF Works
    <2>2. PICK l \in Nat : l = Len(x) BY <2>1, LenProperties
    <2>3. Depth \in Nat /\ n \in Nat BY <1>1, LenProperties DEF Depth, ShapeInv, TypeInv
    <2>4. \A i, k, a : Acts(i, k, a) =>
            \/ i \in 1..n - 1 /\ Acts(i, k, a)'
            \/ i = n /\ k \in 1..d /\ frames[n].actions[k] = a
            \/ i = n /\ k > d /\ Acts(i, k - d + l, a)'
      BY <1>1, <1>2, <2>1, <2>2, WorkActs
    <2>5. \A i, k, a : Acts(i, k, a)' =>
            \/ i \in 1..n - 1 /\ Acts(i, k, a)
            \/ i = n /\ k \in 1..l /\ x[k] = a
            \/ i = n /\ k > l /\ Acts(i, k - l + d, a)
      BY <1>1, <1>2, <2>1, <2>2, WorkActs
    <2>6. \A i, k, a : Acts(i, k, a)' => i \in Nat /\ k \in Nat
      BY <1>1, ShapeStep, ActsNext DEF ActsNat
    <2>7. \A i, k, a : Acts(i, k, a) => i \in Nat /\ k \in Nat BY <1>1, ActsIs
    \* One that was to be done, and where.
    <2>8. ASSUME NEW p \in Producer, \A k \in 1..l : x[k] # F(p)
          PROVE  /\ \A i, k : Acts(i, k, F(p))' => \E j, h : Acts(j, h, F(p))
                 /\ \A i, j, k, h : Acts(i, k, F(p))' /\ Acts(j, h, F(p))' => i = j /\ k = h
      <3>1. \A i, k : Acts(i, k, F(p))' =>
               \/ i \in 1..n - 1 /\ Acts(i, k, F(p))
               \/ i = n /\ k > l /\ Acts(i, k - l + d, F(p))
        BY <2>5, <2>8
      <3>2. ASSUME NEW i, NEW j, NEW k, NEW h, Acts(i, k, F(p))', Acts(j, h, F(p))'
            PROVE  i = j /\ k = h
        <4>1. i \in Nat /\ j \in Nat /\ k \in Nat /\ h \in Nat BY <2>6, <3>2
        <4>2. \A i1, j1, k1, h1 : Acts(i1, k1, F(p)) /\ Acts(j1, h1, F(p)) => i1 = j1 /\ k1 = h1
          BY <1>1, <1>b DEF FinishInv
        <4>3. CASE i = n /\ j = n
          <5>1. i \notin 1..n - 1 /\ j \notin 1..n - 1 BY <2>3, <4>3
          <5>2. Acts(i, k - l + d, F(p)) /\ Acts(j, h - l + d, F(p)) BY <3>1, <3>2, <5>1
          <5>3. k - l + d = h - l + d BY <4>2, <5>2
          <5>4. k = h BY <2>1, <2>2, <4>1, <5>3
          <5>5. QED BY <4>3, <5>4
        <4>4. CASE i # n /\ j # n
          <5>1. Acts(i, k, F(p)) /\ Acts(j, h, F(p)) BY <3>1, <3>2, <4>4
          <5>2. QED BY <4>2, <5>1
        <4>5. CASE i # n /\ j = n
          <5>1. j \notin 1..n - 1 BY <2>3, <4>5
          <5>2. Acts(i, k, F(p)) /\ Acts(j, h - l + d, F(p)) BY <3>1, <3>2, <4>5, <5>1
          <5>3. QED BY <4>2, <4>5, <5>2
        <4>6. CASE i = n /\ j # n
          <5>1. i \notin 1..n - 1 BY <2>3, <4>6
          <5>2. Acts(i, k - l + d, F(p)) /\ Acts(j, h, F(p)) BY <3>1, <3>2, <4>6, <5>1
          <5>3. QED BY <4>2, <4>6, <5>2
        <4>7. QED BY <4>3, <4>4, <4>5, <4>6
      <3>3. QED BY <3>1, <3>2
    \* One that goes on to be to do.
    <2>9. ASSUME NEW p \in Producer, \A k \in 1..d : frames[n].actions[k] # F(p),
                 phase[p] = "closing"
          PROVE  \E i, k : Acts(i, k, F(p))'
      <3>1. PICK i, k : Acts(i, k, F(p)) BY <1>1, <1>b, <2>9 DEF FinishInv
      <3>2. QED BY <2>4, <2>9, <3>1
    <2>10. ASSUME NEW p \in Producer, \A k \in 1..l : x[k] # F(p),
                  \A k \in 1..d : frames[n].actions[k] # F(p),
                  phase'[p] = "closing" <=> phase[p] = "closing"
           PROVE  /\ \A i, k : Acts(i, k, F(p))' => phase'[p] = "closing"
                  /\ \A i, j, k, h : Acts(i, k, F(p))' /\ Acts(j, h, F(p))' => i = j /\ k = h
                  /\ phase'[p] = "closing" => \E i, k : Acts(i, k, F(p))'
      <3>1. \A i, k : Acts(i, k, F(p)) => phase[p] = "closing" BY <1>1, <1>b DEF FinishInv
      <3>2. QED BY <2>8, <2>9, <2>10, <3>1
    <2> DEFINE Good(p) == /\ \A i, k : Acts(i, k, F(p))' => phase'[p] = "closing"
                          /\ \A i, j, k, h : Acts(i, k, F(p))' /\ Acts(j, h, F(p))' => i = j /\ k = h
                          /\ phase'[p] = "closing" => \E i, k : Acts(i, k, F(p))'
    <2>11. (\A p \in Producer : Good(p)) => FinishInv' BY <1>b DEF FinishInv
    <2>12. ASSUME NEW p \in Producer, \A k \in 1..l : x[k] # F(p),
                  \A k \in 1..d : frames[n].actions[k] # F(p),
                  phase'[p] = "closing" <=> phase[p] = "closing"
           PROVE  Good(p)
      BY <2>10, <2>12
    <2>13. CASE Scopes(n, d, x) \/ Passes(n, d, x)
      <3> SUFFICES ASSUME NEW p \in Producer PROVE Good(p) BY <2>11
      <3> HIDE DEF Good
      <3>1. phase'[p] = "closing" <=> phase[p] = "closing" BY <2>13, ClosingStays
      <3>2. \A k \in 1..l : x[k] # F(p)
        <4>1. CASE Passes(n, d, x)
          <5>1. x = <<>> BY <4>1 DEF Passes
          <5>2. l = 0 BY <2>2, <5>1, EmptySeq
          <5>3. QED BY <5>2
        <4>2. CASE Scopes(n, d, x)
          <5>1. PICK S, keys : Closes(x, S, keys) BY <4>2 DEF Scopes
          <5>2. \A k \in 1..l : x[k].do = "producer" \/ x[k] = Act("close", keys)
            BY <2>2, <5>1 DEF Closes
          <5>3. F(p).do = "finish" BY DEF F, Act
          <5>4. Act("close", keys) # F(p) BY <1>a
          <5>5. QED BY <5>2, <5>3, <5>4
        <4>3. QED BY <2>13, <4>1, <4>2
      <3>3. \A k \in 1..d : frames[n].actions[k] # F(p)
        <4>1. F(p).do = "finish" BY DEF F, Act
        <4>2. CASE Passes(n, d, x)
          BY <4>1, <4>2 DEF Passes
        <4>3. CASE Scopes(n, d, x)
          <5>1. PICK q : frames[n].actions[1] = Act("scope", q) /\ d = 1 BY <4>3 DEF Scopes
          <5>2. Act("scope", q) # F(p) BY <1>a
          <5>3. QED BY <5>1, <5>2
        <4>4. QED BY <2>13, <4>2, <4>3
      <3>4. QED BY <2>12, <3>1, <3>2, <3>3
    <2>14. CASE Finishes(n, d, x)
      <3>1. Finishing /\ n = Depth /\ d = 1 /\ x = <<>> BY <2>14 DEF Finishes
      <3>2. PICK q \in Producer : /\ frames[n].actions[1] = Act("finish", q)
                                  /\ phase' = [phase EXCEPT ![q] = "closed"]
        BY <2>14 DEF Finishes
      <3>3. Running /\ Top \in CleanupFrames /\ Top.actions # <<>>
        BY <1>1, <1>2, <3>1, FinishingStands
      <3>4. Top = frames[n] BY <1>1, <3>1, <3>3, TopIs
      <3>5. Acts(n, 1, F(q)) BY <1>1, <1>b, <3>1, <3>2, <3>3, <3>4, TopActs
      <3>6. l = 0 BY <2>2, <3>1, EmptySeq
      <3> SUFFICES ASSUME NEW p \in Producer PROVE Good(p) BY <2>11
      <3>7. CASE p = q
        <4>1. phase'[p] = "closed" BY <1>3, <3>2, <3>7
        <4>2. ASSUME NEW i, NEW k, Acts(i, k, F(p))' PROVE FALSE
          <5>1. \/ i \in 1..n - 1 /\ Acts(i, k, F(p))
                \/ i = n /\ k > 0 /\ Acts(i, k - 0 + 1, F(p))
            BY <2>5, <3>1, <3>6, <4>2
          <5>2. k \in Nat BY <2>6, <4>2
          <5>3. \/ i = n /\ k = 1 /\ i \in 1..n - 1
                \/ k > 0 /\ k - 0 + 1 = 1
            BY <1>1, <1>b, <3>5, <3>7, <5>1 DEF FinishInv
          <5>4. QED BY <2>3, <5>2, <5>3
        <4>3. QED BY <4>1, <4>2
      <3>8. CASE p # q
        <4> HIDE DEF Good
        <4>1. phase'[p] = phase[p] BY <1>3, <3>2, <3>8
        <4>2. Act("finish", q) # F(p) BY <1>a, <3>8
        <4>3. \A k \in 1..d : frames[n].actions[k] # F(p)
          BY <3>1, <3>2, <4>2
        <4>4. QED BY <2>12, <3>6, <4>1, <4>3
      <3>9. QED BY <3>7, <3>8
    <2>15. CASE Begins(n, d, x)
      <3>1. Beginning /\ n = Depth /\ d = 1 BY <2>15 DEF Begins
      <3>2. PICK q \in Producer :
              /\ frames[n].actions[1] = Act("producer", q) /\ Active(q)
              /\ phase' = [phase EXCEPT ![q] = "closing"]
              /\ x \in {<<Act("second", q), Act("check", q), Act("scope", q), Act("finish", q)>>,
                        <<Act("scope", q), Act("finish", q)>>}
        BY <2>15 DEF Begins
      <3>3. l \in {2, 4} /\ \A k \in 1..l : x[k] = F(q) <=> k = l
        <4>1. CASE x = <<Act("second", q), Act("check", q), Act("scope", q), Act("finish", q)>>
          <5>1. l = 4 BY <2>2, <4>1
          <5>2. x[1] = Act("second", q) /\ x[2] = Act("check", q) /\ x[3] = Act("scope", q)
                /\ x[4] = Act("finish", q)
            BY <4>1
          <5>3. x[1] # F(q) /\ x[2] # F(q) /\ x[3] # F(q) /\ x[4] = F(q) BY <1>a, <1>b, <5>2
          <5>4. \A k \in 1..4 : k = 1 \/ k = 2 \/ k = 3 \/ k = 4 OBVIOUS
          <5>5. QED BY <5>1, <5>3, <5>4
        <4>2. CASE x = <<Act("scope", q), Act("finish", q)>>
          <5>1. l = 2 BY <2>2, <4>2
          <5>2. x[1] = Act("scope", q) /\ x[2] = Act("finish", q) BY <4>2
          <5>3. x[1] # F(q) /\ x[2] = F(q) BY <1>a, <1>b, <5>2
          <5>4. \A k \in 1..2 : k = 1 \/ k = 2 OBVIOUS
          <5>5. QED BY <5>1, <5>3, <5>4
        <4>3. QED BY <3>2, <4>1, <4>2
      <3>4. \A p \in Producer : p # q => \A k \in 1..l : x[k] # F(p)
        <4> SUFFICES ASSUME NEW p \in Producer, p # q, NEW k \in 1..l PROVE x[k] # F(p)
          OBVIOUS
        <4>1. \E do : x[k] = Act(do, q)
          <5>1. CASE x = <<Act("second", q), Act("check", q), Act("scope", q), Act("finish", q)>>
            <6>1. k \in 1..4 BY <2>2, <5>1
            <6>2. k = 1 \/ k = 2 \/ k = 3 \/ k = 4 BY <6>1
            <6>3. QED BY <5>1, <6>2
          <5>2. CASE x = <<Act("scope", q), Act("finish", q)>>
            <6>1. k \in 1..2 BY <2>2, <5>2
            <6>2. k = 1 \/ k = 2 BY <6>1
            <6>3. QED BY <5>2, <6>2
          <5>3. QED BY <3>2, <5>1, <5>2
        <4>2. QED BY <1>a, <4>1
      <3>5. \A p \in Producer : \A k \in 1..d : frames[n].actions[k] # F(p)
        <4>1. \A p \in Producer : Act("producer", q) # F(p) BY <1>a
        <4>2. QED BY <3>1, <3>2, <4>1
      <3>6. \A i, k : ~Acts(i, k, F(q)) BY <1>1, <1>b, <3>2 DEF FinishInv, Active
      <3>7. phase'[q] = "closing" BY <1>3, <3>2
      <3>8. \A i, k : Acts(i, k, F(q))' => i = n /\ k = l
        BY <2>5, <3>3, <3>6
      <3>9. Acts(n, l, F(q))'
        <4>1. frames[n] \in CleanupFrames /\ frames'[n] \in CleanupFrames
              /\ Follows(frames[n].actions, frames'[n].actions, d, x) /\ Stands(n)
          BY <2>1 DEF Working
        <4>2. n \in 1..Len(frames') /\ frames'[n].kind = "cleanup"
          <5>1. Len(frames') \in {n, n + 1} /\ n \in 1..Depth BY <4>1 DEF Stands
          <5>2. QED BY <2>3, <4>1, <5>1, CleanupFields
        <4>3. /\ d \in 0..Len(frames[n].actions)
              /\ Len(frames'[n].actions) = l + Len(frames[n].actions) - d
              /\ \A k \in 1..l : frames'[n].actions[k] = x[k]
          BY <2>2, <4>1 DEF Follows
        <4>4. PICK A, B : A = Len(frames[n].actions) /\ B = Len(frames'[n].actions) OBVIOUS
        <4>5. A \in Nat BY <4>1, <4>4, CleanupFields, LenProperties
        <4>6. l \in 1..l /\ l \in 1..B BY <3>3, <4>3, <4>4, <4>5
        <4>7. frames'[n].actions[l] = F(q) BY <3>3, <4>3, <4>6
        <4>8. QED BY <4>2, <4>4, <4>6, <4>7 DEF Acts
      <3> SUFFICES ASSUME NEW p \in Producer PROVE Good(p) BY <2>11
      <3>10. CASE p = q
        BY <3>7, <3>8, <3>9, <3>10
      <3>11. CASE p # q
        <4> HIDE DEF Good
        <4>1. phase'[p] = phase[p] BY <1>3, <3>2, <3>11
        <4>2. QED BY <2>12, <3>4, <3>5, <3>11, <4>1
      <3>12. QED BY <3>10, <3>11
    <2>16. QED BY <2>1, <2>13, <2>14, <2>15
  <1>9. QED BY <1>1, <1>2, <1>5, <1>6, <1>7, <1>8, StepActs


\* The same of what the step leaves.
ReleasePart ==
  \A i \in 1..Depth, p \in Producer :
    /\ frames[i].kind = "cleanup" /\ frames[i].actions # <<>>
    /\ frames[i].actions[1] \in {Act("second", p), Act("check", p)}
    => phase[p] = "closing" /\ \E k : Acts(i, k, Act("scope", p))

LEMMA ReleaseNext == ShapeInv' /\ FinishInv' => ReleasePart'
  <1>1. ShapeInv /\ FinishInv => ReleasePart BY ReleaseCloses DEF ReleasePart
  <1>2. QED BY <1>1, PTL

\* Whatever may run once frames stand at n: a frame that was there, one that was
\* entered from it, a callback that demand reaches, or one of a release.
LEMMA RunsAt ==
  ASSUME HeldInv, [Next]_vars, NEW n \in 1..Depth,
         Quieting(n) \/ \E d, x : Works(n, d, x),
         NEW i \in 1..Len(frames'), frames'[i].kind # "cleanup", ~Doomed(i)'
  PROVE  \/ /\ i \in 1..n /\ i \in 1..Depth /\ frames[i].kind = frames'[i].kind /\ ~Doomed(i)
            /\ frames[i].owner = frames'[i].owner
            /\ frames[i].kind = "body" => /\ frames'[i].of = frames[i].of
                                          /\ frames'[i].job \in {"acquire", "step"} =>
                                               frames'[i].job = frames[i].job
         \/ /\ i = n + 1 /\ frames[n].kind # "cleanup" /\ ~Doomed(n)
            /\ frames[n].owner = frames'[i].owner
            /\ frames'[i].kind = "body" => frames'[i].job \notin {"acquire", "step"}
         \/ i = n + 1 /\ Demands(n, frames'[i])
         \/ /\ i = n + 1 /\ frames'[i].kind = "body" /\ frames'[i].job \in {"release", "reason"}
            /\ \E p \in Producer :
                 /\ frames'[i].owner = p /\ phase'[p] = "closing"
                 /\ \E k : Acts(n, k, Act("scope", p))'
  <1>1. ShapeInv /\ frames' \in Seq(Frame) /\ Depth \in Nat /\ n \in Nat
    BY StepIs, LenProperties DEF Depth, HeldInv, ShapeInv, TypeInv
  <1>2. Stands(n) BY DEF Quieting, Quiet, Works, Working
  <1>3. Len(frames') \in {n, n + 1} BY <1>2 DEF Stands
  <1>4. i \in 1..n \/ (i = n + 1 /\ Len(frames') = n + 1) BY <1>1, <1>3
  <1>5. CASE i \in 1..n
    <2>1. i \in 1..Depth BY <1>1, <1>5
    <2>2. frames[i] \in Frame BY <1>1, <2>1, ElementOfSeq DEF Depth, ShapeInv, TypeInv
    <2>3. frames[i].kind \in {"body", "task", "cleanup"} BY <2>2, FrameKinds
    <2>4. QED BY <1>2, <1>5, <2>1, <2>3, Former
  <1>6. CASE i = n + 1 /\ Len(frames') = n + 1 /\ Quieting(n)
    <2>1. Inherits(n, frames'[i]) \/ Demands(n, frames'[i]) BY <1>6 DEF Quieting, Entered
    <2>2. CASE Inherits(n, frames'[i])
      <3>1. ~Doomed(n)'
        <4>1. \A j \in n + 1..Len(frames') : j = i BY <1>1, <1>6
        <4>2. QED BY <4>1 DEF Doomed
      <3>2. ~Doomed(n) BY <1>1, <1>2, <3>1, Former
      <3>3. QED BY <1>6, <2>2, <3>2 DEF Inherits
    <2>3. QED BY <1>6, <2>1, <2>2
  <1>7. CASE i = n + 1 /\ Len(frames') = n + 1 /\ \E d, x : Works(n, d, x)
    <2>1. frames'[i].kind = "body" /\ frames'[i].job \in {"release", "reason"}
      BY <1>7 DEF Works, Working
    <2>2. Above(frames'[n], frames'[i])
      <3>1. i \in 2..Len(frames') /\ i - 1 = n BY <1>1, <1>7
      <3>2. QED BY <1>2, <3>1 DEF Stands, Stacked
    <2>3. PICK p : p = frames'[i].of OBVIOUS
    <2>4. p \in Producer /\ frames'[i].owner = p
      <3>1. frames'[i] \in Frame BY <1>1, ElementOfSeq
      <3>2. frames'[i] \in Bodies BY <2>1, <3>1, FrameKinds
      <3>3. QED BY <2>1, <2>3, <3>2, BodyFields DEF Callbacks
    <2>5. /\ frames'[n].kind = "cleanup" /\ frames'[n].actions # <<>>
          /\ frames'[n].actions[1] \in {Act("second", p), Act("check", p)}
      BY <2>1, <2>2, <2>3 DEF Above
    <2>6. ShapeInv' /\ FinishInv' BY <1>1, ShapeStep, FinishStep
    <2>7. ReleasePart' BY <2>6, ReleaseNext
    <2>8. n \in 1..Len(frames') BY <1>1, <1>7
    <2>9. phase'[p] = "closing" /\ \E k : Acts(n, k, Act("scope", p))'
      BY <2>4, <2>5, <2>7, <2>8 DEF ReleasePart, Depth, Acts, Act
    <2>10. QED BY <1>7, <2>1, <2>4, <2>9
  <1>8. QED BY <1>4, <1>5, <1>6, <1>7


\* A step that leaves the stack alone, but for what it makes anew.
LEMMA AloneIs ==
  ASSUME HeldInv, frames' = frames, Produce \/ Open \/ UNCHANGED vars
  PROVE  /\ \A i : Doomed(i)' <=> Doomed(i)
         /\ \A i, k, a : Acts(i, k, a)' <=> Acts(i, k, a)
         /\ \A p \in Producer : phase[p] # "none" => phase'[p] = phase[p]
         /\ \A p \in Producer : phase'[p] = phase[p] \/ (phase[p] = "none" /\ phase'[p] = "new")
  <1>1. phase \in [Producer -> Phases] BY DEF HeldInv, ShapeInv, TypeInv, VarInv
  <1>2. aborting' = aborting BY DEF Produce, Open, vars, ending
  <1>3. \A i : Doomed(i)' <=> Doomed(i) BY <1>2 DEF Doomed
  <1>4. \A i, k, a : Acts(i, k, a)' <=> Acts(i, k, a) BY DEF Acts
  <1>5. \A p \in Producer : phase'[p] = phase[p] \/ (phase[p] = "none" /\ phase'[p] = "new")
    <2>1. CASE Produce
      <3>1. PICK q \in Producer : phase[q] = "none" /\ phase' = [phase EXCEPT ![q] = "new"]
        BY <2>1 DEF Produce
      <3>2. QED BY <1>1, <3>1
    <2>2. CASE Open \/ UNCHANGED vars
      BY <2>2 DEF Open, vars, producing
    <2>3. QED BY <2>1, <2>2
  <1>6. QED BY <1>3, <1>4, <1>5

LEMMA OwnerStep ==
  ASSUME HeldInv, [Next]_vars
  PROVE  OwnerInv'
  <1>1. ShapeInv /\ frames' \in Seq(Frame) BY StepIs DEF HeldInv
  <1>2. ShapeInv' BY <1>1, ShapeStep
  <1>3. \A i, k, a : Acts(i, k, a)' => i \in Nat /\ k \in Nat BY <1>2, ActsNext DEF ActsNat
  <1>4. SUFFICES ASSUME NEW i \in 1..Len(frames'), frames'[i].kind # "cleanup",
                        frames'[i].owner # 0, ~Doomed(i)',
                        NEW p \in Producer, frames'[i].owner = p
                 PROVE  \/ phase'[p] \in {"acquiring", "stepping"}
                        \/ /\ phase'[p] = "closing"
                           /\ \E j, k : j < i /\ Acts(j, k, Act("scope", p))'
    <2>1. \A i \in 1..Len(frames') : frames'[i].kind # "cleanup" /\ frames'[i].owner # 0 =>
            frames'[i].owner \in Producer
      <3> SUFFICES ASSUME NEW i \in 1..Len(frames'), frames'[i].kind # "cleanup",
                          frames'[i].owner # 0
                   PROVE  frames'[i].owner \in Producer
        OBVIOUS
      <3>1. PICK f : f = frames'[i] OBVIOUS
      <3>2. f \in Frame BY <1>1, <3>1, ElementOfSeq
      <3>3. f.owner \in Scope /\ f.owner # 0 BY <3>1, <3>2, OwnerFields
      <3>4. f.owner \in Producer BY <3>3, Bounds DEF Scope, Producer
      <3>5. QED BY <3>1, <3>4
    <2>2. \A i, j, k : Acts(j, k, Act("scope", frames[i].owner))' <=>
            \A p : p = frames'[i].owner => Acts(j, k, Act("scope", p))'
      BY DEF Acts, Act
    <2>3. QED BY <1>4, <2>1, <2>2 DEF OwnerInv, Pending, Depth
  <1>5. CASE frames' = frames /\ (Produce \/ Open \/ UNCHANGED vars)
    <2>1. i \in 1..Depth /\ frames[i].kind # "cleanup" /\ frames[i].owner = p /\ frames[i].owner # 0
      BY <1>4, <1>5 DEF Depth
    <2>2. ~Doomed(i) BY <1>4, <1>5, AloneIs
    <2>3. phase[p] \in {"acquiring", "stepping"} \/ (phase[p] = "closing" /\ Pending(i, p))
      BY <2>1, <2>2 DEF HeldInv, ScopeInv, OwnerInv
    <2>4. phase'[p] = phase[p] BY <1>5, <2>3, AloneIs
    <2>5. \A j, k : Acts(j, k, Act("scope", p)) => Acts(j, k, Act("scope", p))'
      BY <1>5 DEF Acts
    <2>6. QED BY <2>3, <2>4, <2>5 DEF Pending
  <1>6. CASE frames' = <<>>
    <2>1. Len(frames') = 0 BY <1>6, EmptySeq
    <2>2. QED BY <1>4, <2>1
  <1>7. ASSUME NEW n \in 1..Depth, Quieting(n) \/ \E d, x : Works(n, d, x)
        PROVE  \/ phase'[p] \in {"acquiring", "stepping"}
               \/ /\ phase'[p] = "closing"
                  /\ \E j, k : j < i /\ Acts(j, k, Act("scope", p))'
    <2>0. n \in Nat /\ i \in Nat
      BY <1>1, LenProperties DEF Depth, ShapeInv, TypeInv
    <2>1. ASSUME NEW m \in 1..n, m <= i, frames[m].kind # "cleanup", ~Doomed(m), frames[m].owner = p
          PROVE  \/ phase'[p] \in {"acquiring", "stepping"}
                 \/ /\ phase'[p] = "closing"
                    /\ \E j, k : j < i /\ Acts(j, k, Act("scope", p))'
      <3>1. /\ phase'[p] = phase[p] /\ (Pending(m, p) => Pending(m, p)')
            /\ phase[p] \in {"acquiring", "stepping"} \/ (phase[p] = "closing" /\ Pending(m, p))
        BY <1>1, <1>7, <2>1, Undisturbed
      <3>2. Pending(m, p)' => \E j, k : j < i /\ Acts(j, k, Act("scope", p))'
        <4>1. ASSUME NEW j, NEW k, j < m, Acts(j, k, Act("scope", p))'
              PROVE  j < i
          <5>1. j \in Nat BY <1>3, <4>1
          <5>2. QED BY <2>0, <2>1, <4>1, <5>1
        <4>2. QED BY <4>1 DEF Pending
      <3>3. QED BY <3>1, <3>2
    <2>2. \/ /\ i \in 1..n /\ frames[i].kind # "cleanup" /\ ~Doomed(i) /\ frames[i].owner = p
          \/ /\ i = n + 1 /\ frames[n].kind # "cleanup" /\ ~Doomed(n) /\ frames[n].owner = p
          \/ i = n + 1 /\ Demands(n, frames'[i])
          \/ i = n + 1 /\ phase'[p] = "closing" /\ \E k : Acts(n, k, Act("scope", p))'
      BY <1>4, <1>7, RunsAt
    <2>3. CASE i \in 1..n /\ frames[i].kind # "cleanup" /\ ~Doomed(i) /\ frames[i].owner = p
      BY <2>0, <2>1, <2>3
    <2>4. CASE i = n + 1 /\ frames[n].kind # "cleanup" /\ ~Doomed(n) /\ frames[n].owner = p
      <3>1. n \in 1..n /\ n <= i BY <2>0, <2>4
      <3>2. QED BY <2>1, <2>4, <3>1
    <2>5. CASE i = n + 1 /\ Demands(n, frames'[i])
      <3>1. phase \in [Producer -> Phases] BY <1>1 DEF ShapeInv, TypeInv, VarInv
      <3>2. QED BY <1>4, <2>5, <3>1 DEF Demands
    <2>6. CASE i = n + 1 /\ phase'[p] = "closing" /\ \E k : Acts(n, k, Act("scope", p))'
      <3>1. n < i BY <2>0, <2>6
      <3>2. QED BY <2>6, <3>1
    <2>7. QED BY <2>2, <2>3, <2>4, <2>5, <2>6
  <1>8. QED BY <1>1, <1>5, <1>6, <1>7, StepActs

LEMMA CallbackStep ==
  ASSUME HeldInv, [Next]_vars
  PROVE  CallbackInv'
  <1>1. ShapeInv /\ frames' \in Seq(Frame) BY StepIs DEF HeldInv
  <1>2. phase \in [Producer -> Phases] BY <1>1 DEF ShapeInv, TypeInv, VarInv
  <1>3. SUFFICES ASSUME NEW i \in 1..Len(frames'), frames'[i].kind = "body",
                        frames'[i].job \in {"acquire", "step"}, ~Doomed(i)'
                 PROVE  phase'[frames'[i].of] =
                          IF frames'[i].job = "acquire" THEN "acquiring" ELSE "stepping"
    BY DEF CallbackInv, Depth
  <1>4. CASE frames' = frames /\ (Produce \/ Open \/ UNCHANGED vars)
    <2>1. i \in 1..Depth /\ frames'[i] = frames[i] BY <1>3, <1>4 DEF Depth
    <2>2. ~Doomed(i) BY <1>3, <1>4, AloneIs
    <2>3. phase[frames[i].of] = IF frames[i].job = "acquire" THEN "acquiring" ELSE "stepping"
      BY <1>3, <2>1, <2>2 DEF HeldInv, ScopeInv, CallbackInv
    <2>4. frames[i].of \in Producer
      <3>1. frames[i] \in Frame BY <1>1, <2>1, ElementOfSeq DEF ShapeInv, TypeInv, Depth
      <3>2. frames[i] \in Bodies BY <1>3, <2>1, <3>1, FrameKinds
      <3>3. QED BY <1>3, <2>1, <3>2, BodyFields DEF Callbacks
    <2>5. phase[frames[i].of] # "none" BY <2>3
    <2>6. phase'[frames[i].of] = phase[frames[i].of] BY <1>4, <2>4, <2>5, AloneIs
    <2>7. QED BY <2>1, <2>3, <2>6
  <1>5. CASE frames' = <<>>
    <2>1. Len(frames') = 0 BY <1>5, EmptySeq
    <2>2. QED BY <1>3, <2>1
  <1>6. ASSUME NEW n \in 1..Depth, Quieting(n) \/ \E d, x : Works(n, d, x)
        PROVE  phase'[frames'[i].of] =
                 IF frames'[i].job = "acquire" THEN "acquiring" ELSE "stepping"
    <2>1. \/ /\ i \in 1..n /\ i \in 1..Depth /\ frames[i].kind = "body" /\ ~Doomed(i)
             /\ frames'[i].of = frames[i].of /\ frames'[i].job = frames[i].job
          \/ i = n + 1 /\ Demands(n, frames'[i])
      BY <1>3, <1>6, RunsAt
    <2>2. CASE /\ i \in 1..n /\ i \in 1..Depth /\ frames[i].kind = "body" /\ ~Doomed(i)
               /\ frames'[i].of = frames[i].of /\ frames'[i].job = frames[i].job
      <3>1. frames[i].of \in Producer /\ frames[i].owner = frames[i].of
        <4>1. frames[i] \in Frame BY <1>1, <2>2, ElementOfSeq DEF ShapeInv, TypeInv, Depth
        <4>2. frames[i] \in Bodies BY <2>2, <4>1, FrameKinds
        <4>3. QED BY <1>3, <2>2, <4>2, BodyFields DEF Callbacks
      <3>2. phase'[frames[i].of] = phase[frames[i].of]
        BY <1>1, <1>6, <2>2, <3>1, Undisturbed
      <3>3. phase[frames[i].of] = IF frames[i].job = "acquire" THEN "acquiring" ELSE "stepping"
        BY <1>3, <2>2 DEF HeldInv, ScopeInv, CallbackInv
      <3>4. QED BY <2>2, <3>2, <3>3
    <2>3. CASE i = n + 1 /\ Demands(n, frames'[i])
      BY <1>2, <2>3 DEF Demands
    <2>4. QED BY <2>1, <2>2, <2>3
  <1>7. QED BY <1>1, <1>4, <1>5, <1>6, StepActs


\* What a new cleanup is to close, nothing that may still run below it belongs to.
LEMMA PurposeSafe ==
  ASSUME HeldInv, NEW n \in 1..Depth, NEW S, NEW keys, Purpose(n, S, keys),
         NEW p \in S, p \in Producer, Active(p),
         NEW i \in 1..n, frames[i].kind # "cleanup", ~Doomed(i)'
  PROVE  frames[i].owner # p
  <1>1. ShapeInv /\ Depth \in Nat /\ frames \in Seq(Frame)
    BY LenProperties DEF Depth, HeldInv, ShapeInv, TypeInv
  <1>2. Running BY <1>1, EmptySeq DEF Running, Depth
  <1>3. Top = frames[Depth] BY <1>1, <1>2, TopIs
  <1>4. i \in 1..Depth /\ i <= n /\ n \in Nat /\ i \in Nat BY <1>1
  <1>5. CASE n = Depth /\ Top.kind = "task" /\ S \subseteq Top.graph
    <2>1. p \in frames[n].graph /\ frames[n].kind = "task" BY <1>3, <1>5
    <2>2. QED BY <1>4, <2>1, BelowTask
  <1>6. CASE n = Depth /\ Top.kind = "body" /\ Top.job = "ended"
    <2>1. Depth = 1 /\ Top = frames[1] /\ Top.owner = 0 BY <1>1, <1>2, <1>6, EndedIs
    <2>2. i = 1 BY <1>4, <1>6, <2>1
    <2>3. p # 0 BY Bounds DEF Producer
    <2>4. QED BY <2>1, <2>2, <2>3
  <1>7. CASE Answering /\ n + 1 = Depth /\ S = {Top.of}
    <2>1. /\ Depth > 1 /\ Caller \in TaskFrames /\ Top.of \in Caller.graph
      BY <1>7 DEF Answering
    <2>2. Caller = frames[Depth - 1] BY <1>1, <1>2, <2>1, TopIs
    <2>3. n = Depth - 1 BY <1>1, <1>4, <1>7
    <2>4. frames[n].kind = "task" /\ p \in frames[n].graph BY <1>7, <2>1, <2>2, <2>3, TaskFields
    <2>5. QED BY <1>4, <2>4, BelowTask
  <1>8. ASSUME Unwinding,
               NEW fs, NEW error, Origin(n, fs, error), Unwound(fs, error),
               S = LeftOpen(fs, Checkpoint(fs, Aborts(error)))
        PROVE  frames[i].owner # p
    <2>1. PICK at : at = Checkpoint(fs, Aborts(error)) OBVIOUS
    <2>2. /\ at \in 0..n /\ (at > 0 => IsAttempt(fs[at]))
          /\ \A m \in 1..n : at < m => Doomed(m)'
      BY <1>1, <1>8, <2>1, UnwoundStands
    <2>3. at \in 1..n /\ i <= at BY <1>4, <2>2
    <2>4. \A m \in 1..n : fs[m] = frames[m] /\ fs[m] \in Frame BY <1>1, <1>8, OriginIs
    <2>5. DOMAIN fs = 1..n BY <1>1, <1>8, OriginIs
    <2>6. IsAttempt(frames[at]) BY <1>4, <2>2, <2>3, <2>4
    <2>7. p \in Served(fs, at) \/ p \in Made(fs, at) BY <1>8, <2>1 DEF LeftOpen
    <2>8. CASE p \in Served(fs, at)
      <3>1. PICK t \in Tasks(fs, at) : p \in Owned(fs[t]) BY <2>8 DEF Served
      <3>2. t \in 1..n /\ t >= at /\ fs[t].kind = "task" BY <2>5, <3>1 DEF Tasks
      <3>3. fs[t] \in TaskFrames BY <2>4, <3>2, FrameKinds
      <3>4. Owned(fs[t]) \subseteq fs[t].graph BY <3>3 DEF TaskFrames, Owned
      <3>5. p \in frames[t].graph /\ frames[t].kind = "task" /\ t \in 1..Depth /\ i <= t
        BY <1>1, <1>4, <2>3, <2>4, <3>1, <3>2, <3>4
      <3>6. QED BY <1>4, <3>5, BelowTask
    <2>9. CASE p \in Made(fs, at)
      <3>1. frames[at] \in Bodies
        <4>1. frames[at].kind = "body" BY <2>6 DEF IsAttempt
        <4>2. QED BY <2>3, <2>4, <4>1, FrameKinds
      <3>2. frames[at].made \in Nat BY <3>1, BodyFields, Bounds DEF Scope
      <3>3. at # 0 /\ at \in 1..Depth BY <1>1, <1>4, <2>3
      <3>4. p \in frames[at].made + 1..MaxProducers BY <2>3, <2>4, <2>9, <3>3 DEF Made
      <3>5. frames[at].made < p BY <3>2, <3>4, Bounds
      <3>6. QED BY <1>4, <2>3, <2>6, <3>3, <3>5, BelowAttempt
    <2>10. QED BY <2>7, <2>8, <2>9
  <1>9. QED BY <1>5, <1>6, <1>7, <1>8 DEF Purpose

LEMMA CloseStep ==
  ASSUME HeldInv, [Next]_vars
  PROVE  CloseInv'
  <1>1. ShapeInv /\ frames' \in Seq(Frame) BY StepIs DEF HeldInv
  <1>2. \A i, k, a : Acts(i, k, a)' => i \in 1..Len(frames') BY DEF Acts
  <1>3. SUFFICES ASSUME NEW p \in Producer, NEW j, NEW k, Acts(j, k, Act("producer", p))',
                        phase'[p] \in {"new", "acquiring", "ready", "stepping"},
                        NEW i \in 1..Len(frames'), i < j, frames'[i].kind # "cleanup",
                        ~Doomed(i)', frames'[i].owner = p
                 PROVE  FALSE
    BY DEF CloseInv, Depth, Active, Act
  <1> DEFINE a == Act("producer", p)
  <1>a. Acts(j, k, a)' BY <1>3 DEF Act
  <1>b. a.do = "producer" /\ a.on = p BY DEF Act
  <1>c. p # 0 BY Bounds DEF Producer
  <1>d. a = Act("producer", p) OBVIOUS
  <1>4. ASSUME Acts(j, k, a) \/ \E h : Acts(j, h, a),
               Active(p), i \in 1..Depth, frames[i].kind # "cleanup", ~Doomed(i),
               frames[i].owner = p
        PROVE  FALSE
    BY <1>3, <1>4 DEF HeldInv, ScopeInv, CloseInv
  <1> HIDE DEF a
  <1>5. CASE frames' = frames /\ (Produce \/ Open \/ UNCHANGED vars)
    <2>1. i \in 1..Depth /\ frames[i].kind # "cleanup" /\ frames[i].owner = p
      BY <1>3, <1>5 DEF Depth
    <2>2. ~Doomed(i) BY <1>3, <1>5, AloneIs
    <2>3. phase[p] \in {"acquiring", "stepping", "closing"}
      BY <1>c, <2>1, <2>2 DEF HeldInv, ScopeInv, OwnerInv
    <2>4. phase'[p] = phase[p] BY <1>5, <2>3, AloneIs
    <2>5. Active(p) BY <1>3, <2>4 DEF Active
    <2>6. Acts(j, k, a) BY <1>a, <1>5, AloneIs
    <2>7. QED BY <1>4, <2>1, <2>2, <2>5, <2>6
  <1>6. CASE frames' = <<>>
    <2>1. Len(frames') = 0 BY <1>6, EmptySeq
    <2>2. QED BY <1>3, <2>1
  <1>7. ASSUME NEW n \in 1..Depth, Quieting(n) \/ \E d, x : Works(n, d, x)
        PROVE  FALSE
    <2>1. Depth \in Nat /\ n \in Nat /\ i \in Nat
      BY <1>1, LenProperties DEF Depth, ShapeInv, TypeInv
    <2>2. Stands(n) BY <1>7 DEF Quieting, Quiet, Works, Working
    <2>3. j \in 1..Len(frames') /\ Len(frames') \in {n, n + 1} BY <1>2, <1>a, <2>2 DEF Stands
    <2>4. i \in 1..n /\ i # n + 1 BY <1>3, <2>1, <2>3
    <2>5. i \in 1..Depth /\ frames[i].kind # "cleanup" /\ ~Doomed(i) /\ frames[i].owner = p
      BY <1>3, <1>7, <2>4, RunsAt
    <2>6. phase'[p] = phase[p] BY <1>1, <1>7, <2>4, <2>5, Undisturbed
    <2>7. Active(p) BY <1>3, <2>6 DEF Active
    <2>8. ~Acts(j, k, a) /\ \A h : ~Acts(j, h, a) BY <1>4, <2>5, <2>7
    <2>9. CASE Quieting(n)
      <3>1. PICK S \in SUBSET Producer, keys \in SUBSET live :
              /\ Purpose(n, S, keys)
              /\ (\E q \in S : a = Act("producer", q)) \/ a = Act("close", keys)
        BY <1>1, <1>a, <2>8, <2>9, QuietActs
      <3>2. p \in S BY <1>b, <3>1 DEF Act
      <3>3. QED BY <1>3, <2>4, <2>5, <2>7, <3>1, <3>2, PurposeSafe
    <2>10. ASSUME NEW d, NEW x, Works(n, d, x)
           PROVE  FALSE
      <3>1. /\ Working(n, d, x) /\ d \in Nat /\ x \in Seq(Actions)
            /\ Begins(n, d, x) \/ Scopes(n, d, x) \/ Finishes(n, d, x) \/ Passes(n, d, x)
        BY <2>10 DEF Works
      <3>2. PICK l \in Nat : l = Len(x) BY <3>1, LenProperties
      <3>3. j = n /\ k \in 1..l /\ x[k] = a
        <4>1. \A i1, k1, a1 : Acts(i1, k1, a1)' =>
                \/ i1 \in 1..n - 1 /\ Acts(i1, k1, a1)
                \/ i1 = n /\ k1 \in 1..l /\ x[k1] = a1
                \/ i1 = n /\ k1 > l /\ Acts(i1, k1 - l + d, a1)
          BY <1>1, <3>1, <3>2, WorkActs
        <4>2. QED BY <1>a, <2>8, <4>1
      <3>4. CASE x = <<>>
        <4>1. l = 0 BY <3>2, <3>4, EmptySeq
        <4>2. QED BY <3>3, <4>1
      <3>5. CASE Begins(n, d, x)
        <4>1. PICK q \in Producer :
                x \in {<<Act("second", q), Act("check", q), Act("scope", q), Act("finish", q)>>,
                       <<Act("scope", q), Act("finish", q)>>}
          BY <3>5 DEF Begins
        <4>2. CASE x = <<Act("second", q), Act("check", q), Act("scope", q), Act("finish", q)>>
          <5>1. k \in 1..4 BY <3>2, <3>3, <4>2
          <5>2. k = 1 \/ k = 2 \/ k = 3 \/ k = 4 BY <5>1
          <5>3. QED BY <1>b, <3>3, <4>2, <5>2 DEF Act
        <4>3. CASE x = <<Act("scope", q), Act("finish", q)>>
          <5>1. k \in 1..2 BY <3>2, <3>3, <4>3
          <5>2. k = 1 \/ k = 2 BY <5>1
          <5>3. QED BY <1>b, <3>3, <4>3, <5>2 DEF Act
        <4>4. QED BY <4>1, <4>2, <4>3
      <3>6. CASE Scopes(n, d, x)
        <4>1. PICK q \in Producer :
                /\ frames[n].actions[1] = Act("scope", q)
                /\ Closes(x, {r \in Producer : Active(r) /\ parent[r] = q},
                             {r \in live : resources[r] = q})
          BY <3>6 DEF Scopes
        <4>2. Scoping /\ n = Depth BY <3>6 DEF Scopes
        <4>3. Running /\ Top \in CleanupFrames /\ Top.actions # <<>>
          BY <1>1, <4>2, ScopingStands
        <4>4. Top = frames[n] BY <1>1, <4>2, <4>3, TopIs
        <4>5. Acts(Depth, 1, Act("scope", q)) BY <1>1, <4>1, <4>2, <4>3, <4>4, TopActs
        <4>6. parent[p] = q
          <5>1. x[k].do = "producer" BY <1>b, <3>3
          <5>2. \A keys : Act("close", keys).do # "producer" BY DEF Act
          <5>3. x[k].on \in {r \in Producer : Active(r) /\ parent[r] = q}
            BY <3>2, <3>3, <4>1, <5>1, <5>2 DEF Closes
          <5>4. QED BY <1>b, <3>3, <5>3
        <4>7. QED BY <2>5, <2>7, <4>3, <4>5, <4>6, BelowScope
      <3>7. QED BY <3>1, <3>4, <3>5, <3>6 DEF Finishes, Passes
    <2>11. QED BY <1>7, <2>9, <2>10
  <1>8. QED BY <1>1, <1>5, <1>6, <1>7, StepActs


LEMMA HeldInit ==
  ASSUME Init
  PROVE  HeldInv
  <1>1. ShapeInv BY ShapeInit
  <1>2. PICK f : frames = <<f>> /\ f.kind = "body" /\ f.job = "entry" /\ f.owner = 0
    BY DEF Init
  <1>3. Depth = 1 /\ frames[1] = f BY <1>2 DEF Depth
  <1>4. \A i \in 1..Depth : i = 1 /\ frames[i] = f BY <1>3
  <1>5. \A p \in Producer : phase[p] = "none" /\ ~token[p] BY DEF Init
  <1>6. \A i, k, a : ~Acts(i, k, a) BY <1>2, <1>4 DEF Acts, Depth
  <1>7. GraphInv BY <1>2, <1>4 DEF GraphInv
  <1>8. MadeInv BY <1>2, <1>4, <1>5 DEF MadeInv
  <1>9. FinishInv BY <1>5, <1>6 DEF FinishInv
  <1>10. CallbackInv BY <1>2, <1>4 DEF CallbackInv
  <1>11. OwnerInv BY <1>2, <1>4 DEF OwnerInv
  <1>12. CloseInv BY <1>6 DEF CloseInv
  <1>13. QED BY <1>1, <1>7, <1>8, <1>9, <1>10, <1>11, <1>12 DEF HeldInv, ScopeInv

LEMMA HeldStep ==
  ASSUME HeldInv, [Next]_vars
  PROVE  HeldInv'
  <1>1. ShapeInv' BY ShapeStep DEF HeldInv
  <1>2. GraphInv' BY GraphStep DEF HeldInv
  <1>3. MadeInv' BY MadeStep DEF HeldInv
  <1>4. ScopeInv' BY FinishStep, CallbackStep, OwnerStep, CloseStep DEF ScopeInv
  <1>5. QED BY <1>1, <1>2, <1>3, <1>4 DEF HeldInv

LEMMA HeldAlways == Spec => []HeldInv
  BY HeldInit, HeldStep, PTL DEF Spec

(* A callback that may still run or return belongs to a producer that is in that     *)
(* callback: no other step of the machine closes it, or enters it again, behind the   *)
(* back of its own acquire or step (vm/cleanup.rs, stream/producer.rs).               *)
THEOREM CallbacksOwnProducers == Spec => []CallbackOwnsProducer
  <1>1. HeldInv => CallbackOwnsProducer
    <2>1. ASSUME HeldInv PROVE DOMAIN frames = 1..Depth
      BY <2>1, LenProperties DEF HeldInv, ShapeInv, TypeInv, Depth
    <2>2. QED BY <2>1 DEF HeldInv, ScopeInv, CallbackInv, CallbackOwnsProducer
  <1>2. QED BY <1>1, HeldAlways, PTL
================================================================================
