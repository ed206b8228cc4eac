--------------------------- MODULE EvaluationsProofs ---------------------------
(***************************************************************************)
(* Proofs about Evaluations, for any number of entries, controls, stops    *)
(* and failures: an evaluation and what it owns stay together, every call  *)
(* is answered by one party, and shutdown leaves nothing.                  *)
(***************************************************************************)
EXTENDS Evaluations, FiniteSetTheorems, SequenceTheorems, TLAPS

-----------------------------------------------------------------------------
(* The inductive invariant *)

Machines ==
  [phase : {"new", "body", "cleanup", "over"}, ask : BOOLEAN,
   reason : {"none", "error", "aborted", "cancelled", "noted"}, release : BOOLEAN]

Frames ==
  [kind : {"entry", "control", "shutdown"}, caller : 0..(MaxEntries + MaxControls),
   id : 0..(MaxEntries + MaxControls), cancel : BOOLEAN, stopping : BOOLEAN, failed : BOOLEAN]

TypeInv ==
  /\ TypeOK
  /\ stack \in Seq(Frames)
  /\ used \in [entries : 0..MaxEntries, controls : 0..MaxControls,
               stops : Nat, interrupts : Nat, failures : Nat]

\* Above an entry or a shutdown there are only controls; active lists their callers
\* and their jobs, and the caller of each is the job of the one below.
Calls == 2..Len(stack)
StackInv ==
  /\ stack = <<>> <=> at \in {"prompt", "shutdown", "ended"}
  /\ \A i \in 1..Len(stack) : stack[i].kind = "control" <=> i > 1
  /\ stack # <<>> /\ stack[1].kind = "shutdown" => stack[1].cancel
  /\ Len(active) = IF stack = <<>> THEN 0 ELSE 2 * (Len(stack) - 1)
  /\ \A i \in Calls : active[2 * i - 3] = stack[i].caller /\ active[2 * i - 2] = stack[i].id
  /\ \A i \in 2..(Len(stack) - 1) : stack[i + 1].caller = stack[i].id

\* There is an id left for an entry that has not been stopped.
IdsInv ==
  /\ ids <= used.entries + used.controls
  /\ stack # <<>> /\ stack[1].kind = "entry" /\ ~(Len(stack) = 1 /\ at = "end") =>
       ids < used.entries + used.controls
  /\ DOMAIN parked \subseteq 1..ids
  /\ \A i \in Calls : stack[i].id \in 1..ids

\* The engine: an evaluation is not both current and parked, nor parked twice; and
\* what runs or is parked has an owner for its resources.
HomeInv ==
  /\ at \in {"service", "start"} => current # 0
  /\ current # 0 => Live(current)
  /\ \A e \in Entries : vm[e].phase = "new" <=> e > used.entries
  /\ \A id \in DOMAIN parked : Live(parked[id]) /\ parked[id] # current
  /\ IsInjective(parked)
  /\ DOMAIN suspended \subseteq DOMAIN parked
  /\ frozen \cup open \cup {held.owner} \subseteq 0..used.entries
  /\ \A id \in DOMAIN suspended : suspended[id].owner \in 1..used.entries
  /\ current # 0 /\ at \in {"drive", "service", "start"} => held.owner # 0

\* While the job of the innermost control is stopped, nothing of it runs.
TopInv ==
  Len(stack) > 1 /\ Top.id \in DOMAIN suspended => current = 0 /\ held.resumers = <<>>

\* A parked caller is in one place: in one chain of resumers, or the caller of one
\* open call.  All of them are parked.
Jobs == DOMAIN suspended \cup {0}
Callers == {stack[i].caller : i \in Calls}
ChainInv ==
  /\ \A p, q \in Jobs : \A i \in 1..Len(Resumers(p)), j \in 1..Len(Resumers(q)) :
       Resumers(p)[i] = Resumers(q)[j] => p = q /\ i = j
  /\ \A p \in Jobs : \A i \in 1..Len(Resumers(p)) :
       Resumers(p)[i] \in DOMAIN suspended \ Callers
  /\ Callers \subseteq DOMAIN suspended
  /\ \A i, j \in Calls : stack[i].caller = stack[j].caller => i = j
  /\ Len(stack) > 1 => Top.id \notin Callers

\* What the session holds for the running evaluation.
HeldInv ==
  /\ stack = <<>> => held = Nothing
  /\ at \in {"service", "end", "retained"} => ~held.pending
  /\ at = "drive" /\ current = 0 => ~held.pending
  /\ at = "retained" => held.owner = 0
  /\ stack # <<>> /\ stack[1].kind = "entry" =>
       IF Len(stack) = 1 THEN held.resumers = <<>>
       ELSE suspended[stack[2].caller].resumers = <<>>

\* Who has a caller's place waits for an answer, and nobody else does.
Waiting(id) == id \in Callers \/ \E p \in Jobs : id \in ToSet(Resumers(p))
AskInv ==
  /\ \A id \in DOMAIN suspended : Waiting(id) =>
       vm[parked[id]].ask /\ ~suspended[id].pending
  /\ Sound => \A id \in DOMAIN suspended :
       vm[parked[id]].ask /\ ~suspended[id].pending => Waiting(id)
  /\ Sound /\ current # 0 /\ vm[current].ask /\ ~held.pending =>
       /\ at = "drive" => Top.cancel /\ vm[current].phase = "cleanup"
       /\ at = "start" => Top.cancel

\* What runs below a cancelling call is unwinding for good.
Cancelled(m) == m.phase = "cleanup" /\ m.reason \in {"cancelled", "noted"}
CancelInv ==
  /\ stack # <<>> /\ Top.cancel /\ current # 0 /\ at \in {"drive", "service"} =>
       Cancelled(vm[current])
  /\ \A i \in 1..(Len(stack) - 1) : stack[i].cancel =>
       Cancelled(vm[parked[stack[i + 1].caller]])

\* Session and engine agree on who has what, if no freeze or continuation fails.
OwnerInv ==
  Sound =>
    /\ at \notin {"drive", "service", "start"} => current = 0
    /\ \A e \in Entries : Live(e) => e = current \/ \E id \in DOMAIN parked : parked[id] = e
    /\ DOMAIN parked = DOMAIN suspended
    /\ \A id \in DOMAIN suspended :
         suspended[id].owner = parked[id] /\ suspended[id].owner \in frozen
    /\ current # 0 => held.owner = current
    /\ current # 0 /\ at \in {"drive", "service"} /\ current \in frozen => Top.cancel
    /\ held.owner # 0 => \A id \in DOMAIN parked : parked[id] # held.owner
    /\ open \subseteq {suspended[id].owner : id \in DOMAIN suspended} \cup {held.owner}

\* The callers behind a job, were every open call retained as well, never come
\* round to it.
Before(p, id) ==
  \/ p \in DOMAIN suspended /\ id \in ToSet(suspended[p].resumers)
  \/ \E i \in Calls : stack[i].id = p /\ stack[i].caller = id
  \/ Len(stack) > 1 /\ Top.id = p /\ id \in ToSet(held.resumers)
AcyclicInv ==
  \A chain \in SUBSET Ids : chain # {} => \E id \in chain : \A p \in chain : ~Before(p, id)

IInv ==
  /\ TypeInv /\ StackInv /\ IdsInv /\ HomeInv /\ TopInv /\ ChainInv
  /\ HeldInv /\ AskInv /\ CancelInv /\ OwnerInv /\ AcyclicInv
  /\ ShutdownLeavesNothing


-----------------------------------------------------------------------------
(* Sequences: the stack and its top, and chains of resumers *)

\* A sequence without its last element, and that element.
LEMMA FrontLast ==
  ASSUME NEW S, NEW s \in Seq(S), s # <<>>
  PROVE  /\ Len(s) \in Nat /\ Len(s) >= 1
         /\ Last(s) \in S /\ Last(s) = s[Len(s)]
         /\ Front(s) \in Seq(S) /\ Len(Front(s)) = Len(s) - 1
         /\ \A i \in 1..(Len(s) - 1) : Front(s)[i] = s[i]
  <1>1. /\ Len(s) \in Nat /\ Len(s) >= 1
        /\ \A i \in 1..Len(s) : s[i] \in S
    BY EmptySeq, LenProperties, ElementOfSeq
  <1>2. PICK n \in Nat \ {0} : n = Len(s) BY <1>1
  <1>3. \A i \in 1..(n - 1) : s[i] \in S BY <1>1, <1>2
  <1>4. LET t == SubSeq(s, 1, n - 1)
        IN  t \in Seq(S) /\ Len(t) = n - 1 /\ \A i \in 1..(n - 1) : t[i] = s[i]
    BY <1>3
  <1>5. QED BY <1>1, <1>2, <1>4 DEF Front, Last

\* A sequence with one element more at its end.
LEMMA Pushed ==
  ASSUME NEW S, NEW s \in Seq(S), NEW x \in S
  PROVE  /\ Append(s, x) \in Seq(S) /\ Append(s, x) # <<>>
         /\ Len(Append(s, x)) = Len(s) + 1
         /\ \A i \in 1..Len(s) : Append(s, x)[i] = s[i]
         /\ Append(s, x)[Len(s) + 1] = x
         /\ Last(Append(s, x)) = x
  BY AppendProperties, LenProperties DEF Last

\* The top frame is replaced.
LEMMA Replaced ==
  ASSUME stack \in Seq(Frames), stack # <<>>, NEW frame \in Frames
  PROVE  /\ WithTop(frame) \in Seq(Frames) /\ WithTop(frame) # <<>>
         /\ Len(WithTop(frame)) = Len(stack)
         /\ \A i \in 1..(Len(stack) - 1) : WithTop(frame)[i] = stack[i]
         /\ WithTop(frame)[Len(stack)] = frame
  <1>1. /\ Len(stack) \in Nat /\ Len(stack) >= 1
        /\ Front(stack) \in Seq(Frames) /\ Len(Front(stack)) = Len(stack) - 1
        /\ \A i \in 1..(Len(stack) - 1) : Front(stack)[i] = stack[i]
    BY FrontLast
  <1>2. QED BY <1>1, Pushed DEF WithTop

\* A chain behind what is left of another, and behind one caller.
LEMMA ChainsJoined ==
  ASSUME NEW S, NEW s \in Seq(S), s # <<>>, NEW t \in Seq(S)
  PROVE  /\ Front(s) \o t \in Seq(S)
         /\ Len(Front(s) \o t) = Len(s) - 1 + Len(t)
         /\ \A i \in 1..(Len(s) - 1) : (Front(s) \o t)[i] = s[i]
         /\ \A i \in 1..Len(t) : (Front(s) \o t)[Len(s) - 1 + i] = t[i]
  <1>1. /\ Len(s) \in Nat /\ Len(s) >= 1
        /\ Front(s) \in Seq(S) /\ Len(Front(s)) = Len(s) - 1
        /\ \A i \in 1..(Len(s) - 1) : Front(s)[i] = s[i]
    BY FrontLast
  <1>2. Len(t) \in Nat BY LenProperties
  <1>3. /\ Front(s) \o t \in Seq(S)
        /\ Len(Front(s) \o t) = Len(Front(s)) + Len(t)
        /\ \A i \in 1..Len(Front(s)) + Len(t) : (Front(s) \o t)[i] =
             IF i <= Len(Front(s)) THEN Front(s)[i] ELSE t[i - Len(Front(s))]
    BY <1>1, ConcatProperties
  <1>4. \A i \in 1..(Len(s) - 1) : (Front(s) \o t)[i] = s[i] BY <1>1, <1>2, <1>3
  <1>5. ASSUME NEW i \in 1..Len(t)
        PROVE  (Front(s) \o t)[Len(s) - 1 + i] = t[i]
    <2>1. /\ Len(s) - 1 + i \in 1..(Len(s) - 1 + Len(t)) /\ ~(Len(s) - 1 + i <= Len(s) - 1)
          /\ Len(s) - 1 + i - (Len(s) - 1) = i
      BY <1>1, <1>2
    <2>2. QED BY <1>1, <1>3, <2>1
  <1>6. QED BY <1>1, <1>3, <1>4, <1>5

LEMMA CallerBehind ==
  ASSUME NEW S, NEW x \in S, NEW t \in Seq(S)
  PROVE  /\ <<x>> \o t \in Seq(S)
         /\ Len(<<x>> \o t) = Len(t) + 1
         /\ (<<x>> \o t)[1] = x
         /\ \A i \in 1..Len(t) : (<<x>> \o t)[i + 1] = t[i]
  <1>1. <<x>> \in Seq(S) /\ Len(<<x>>) = 1 /\ <<x>>[1] = x OBVIOUS
  <1>2. QED BY <1>1, ConcatProperties, LenProperties

-----------------------------------------------------------------------------
(* One machine *)

\* What may become of a machine that has begun; one that is cancelled stays so.
Follows(m, n) ==
  /\ n \in Machines /\ n.phase # "new"
  /\ Cancelled(m) => n.phase = "over" \/ Cancelled(n)

LEMMA UnwoundFollows ==
  ASSUME NEW m \in Machines, m.phase = "body",
         NEW reason \in {"none", "error", "aborted", "cancelled", "noted"}
  PROVE  /\ Follows(m, Unwound(m, reason)) /\ Unwound(m, reason).ask \in {FALSE, m.ask}
         /\ Unwound(m, reason).phase = "over" \/ Unwound(m, reason).phase = "cleanup"
  BY DEF Machines, Unwound, Over, Follows, Cancelled

LEMMA AfterCleanupFollows ==
  ASSUME NEW m \in Machines, m.phase = "cleanup", NEW n \in AfterCleanup(m)
  PROVE  Follows(m, n) /\ n.ask \in {FALSE, m.ask}
  <1> DEFINE on == [m EXCEPT !.phase = "body"]
             caught == [m EXCEPT !.phase = "body", !.reason = "none"]
  <1>1. /\ on \in Machines /\ on.phase = "body" /\ on.ask = m.ask
        /\ caught \in Machines /\ caught.phase = "body" /\ caught.ask = m.ask
    BY DEF Machines
  <1>2. Over(m, m.reason) \in Machines /\ Over(m, m.reason).phase = "over" /\ Over(m, m.reason).ask = FALSE
    BY DEF Over, Machines
  <1>3. \/ m.reason = "none" /\ n = on
        \/ m.reason = "error" /\ (n = Over(m, m.reason) \/ n = caught)
        \/ m.reason \notin {"none", "error"} /\ n = Over(m, m.reason)
    BY DEF AfterCleanup
  <1> HIDE DEF on, caught
  <1>4. QED BY <1>1, <1>2, <1>3 DEF Follows, Cancelled

LEMMA RaisedFollows ==
  ASSUME NEW m \in Machines, m.phase \in {"body", "cleanup"},
         NEW error \in {"error", "cancelled", "noted"}, NEW n \in Raised(m, error)
  PROVE  Follows(m, n) /\ n.ask \in {FALSE, m.ask}
  <1>1. CASE m.phase = "body"
    <2>1. n \in {Unwound(m, error)} \cup (IF error = "error" THEN {m} ELSE {}) BY <1>1 DEF Raised
    <2>2. Follows(m, Unwound(m, error)) /\ Unwound(m, error).ask \in {FALSE, m.ask}
      BY <1>1, UnwoundFollows
    <2>3. Follows(m, m) BY <1>1 DEF Follows
    <2>4. CASE n = m BY <2>3, <2>4
    <2>5. QED BY <2>1, <2>2, <2>4
  <1>2. CASE m.phase = "cleanup"
    <2> DEFINE k == [m EXCEPT !.reason = Joined(m.reason, error)]
    <2>1. k \in Machines /\ k.phase = "cleanup" /\ k.ask = m.ask /\ (Cancelled(m) => Cancelled(k))
      BY <1>2 DEF Machines, Joined, Cancelled
    <2>2. n = m \/ n \in AfterCleanup(k) BY <1>2 DEF Raised
    <2>3. CASE n = m BY <1>2, <2>3 DEF Follows
    <2>4. CASE n \in AfterCleanup(k)
      <3> HIDE DEF k
      <3>1. Follows(k, n) /\ n.ask \in {FALSE, k.ask} BY <2>1, <2>4, AfterCleanupFollows
      <3>2. QED BY <2>1, <3>1 DEF Follows
    <2>5. QED BY <2>2, <2>3, <2>4
  <1>3. QED BY <1>1, <1>2

\* A cancelled machine unwinds for good; it waits only inside a cleanup that did.
LEMMA StoppedFollows ==
  ASSUME NEW m \in Machines, m.phase \in {"body", "cleanup"}
  PROVE  /\ Follows(m, Stopped(m))
         /\ Stopped(m).phase = "over" \/ Cancelled(Stopped(m))
         /\ Stopped(m).ask => m.ask /\ m.phase = "cleanup" /\ Stopped(m).phase = "cleanup"
  <1>1. CASE m.phase = "body"
    <2> DEFINE k == [m EXCEPT !.ask = FALSE]
    <2>1. k \in Machines /\ k.phase = "body" /\ k.ask = FALSE BY <1>1 DEF Machines
    <2>2. Stopped(m) = Unwound(k, "cancelled") BY <1>1 DEF Stopped
    <2>3. Unwound(k, "cancelled").phase = "over" \/ Cancelled(Unwound(k, "cancelled"))
      BY <2>1 DEF Unwound, Over, Cancelled, Machines
    <2>4. Follows(k, Unwound(k, "cancelled")) /\ Unwound(k, "cancelled").ask \in {FALSE, k.ask}
      BY <2>1, UnwoundFollows
    <2>5. QED BY <1>1, <2>1, <2>2, <2>3, <2>4 DEF Follows, Cancelled
  <1>2. CASE m.phase = "cleanup"
    BY <1>2 DEF Machines, Stopped, Follows, Cancelled
  <1>3. QED BY <1>1, <1>2

LEMMA AnsweredFollows ==
  ASSUME NEW m \in Machines, m.phase \in {"body", "cleanup"},
         NEW result \in {"ok", "error", "cancelled", "noted"}, NEW n \in Answered(m, result)
  PROVE  Follows(m, n) /\ n.ask = FALSE
  <1> DEFINE k == [m EXCEPT !.ask = FALSE]
  <1>1. k \in Machines /\ k.phase = m.phase /\ k.ask = FALSE /\ (Cancelled(m) => Cancelled(k))
    BY DEF Machines, Cancelled
  <1>2. CASE result = "ok"
    <2>1. n = k BY <1>2 DEF Answered
    <2>2. QED BY <1>1, <2>1 DEF Follows
  <1>3. CASE result # "ok"
    <2>1. n \in Raised(k, result) BY <1>3 DEF Answered
    <2> HIDE DEF k
    <2>2. Follows(k, n) /\ n.ask \in {FALSE, k.ask} BY <1>1, <1>3, <2>1, RaisedFollows
    <2>3. QED BY <1>1, <2>2 DEF Follows
  <1>4. QED BY <1>2, <1>3

\* What Becomes does to the state.
LEMMA BecomesTypes ==
  ASSUME TypeOK, NEW e \in Entries, NEW m \in Machines, NEW next, Becomes(e, m, next)
  PROVE  /\ vm' \in [Entries -> Machines]
         /\ \A d \in Entries \ {e} : vm'[d] = vm[d]
         /\ callee' \in [Entries -> 0..MaxEntries]
         /\ outcome' \in {"ok", "error", "cancelled", "noted"}
         /\ value' \in 0..MaxEntries
         /\ IF m.phase = "over"
            THEN vm'[e].phase = "over" /\ current' = 0 /\ at' = "end"
            ELSE vm'[e] = m /\ current' = e /\ at' = next
  <1>1. Gone \in Machines /\ Gone.phase = "over" BY DEF Gone, Over, Fresh, Machines
  <1>2. vm \in [Entries -> Machines] /\ callee \in [Entries -> 0..MaxEntries]
    BY DEF TypeOK, Machines
  <1>3. e \in 0..MaxEntries BY BoundsNatural DEF Entries
  <1>4. outcome' \in {"ok", "error", "cancelled", "noted"}
    BY DEF Becomes, Machines, TypeOK
  <1>5. /\ vm' = [vm EXCEPT ![e] = IF m.phase = "over" THEN Gone ELSE m]
        /\ callee' = [callee EXCEPT ![e] = IF m.ask THEN @ ELSE 0]
    BY DEF Becomes
  <1>6. /\ vm' \in [Entries -> Machines] /\ vm'[e] = IF m.phase = "over" THEN Gone ELSE m
        /\ \A d \in Entries \ {e} : vm'[d] = vm[d]
    BY <1>1, <1>2, <1>5
  <1>7. callee' \in [Entries -> 0..MaxEntries] BY <1>2, <1>5, BoundsNatural
  <1>8. value' \in 0..MaxEntries BY <1>3, BoundsNatural DEF Becomes
  <1>9. QED BY <1>1, <1>4, <1>6, <1>7, <1>8 DEF Becomes


-----------------------------------------------------------------------------
(* The steps of the running machine *)

\* The frames of the stack stay what they are.
SameCalls ==
  /\ Len(stack') = Len(stack)
  /\ \A i \in 1..Len(stack) :
       /\ stack'[i].kind = stack[i].kind /\ stack'[i].caller = stack[i].caller
       /\ stack'[i].id = stack[i].id /\ stack'[i].cancel = stack[i].cancel

LEMMA ReplacedTop ==
  ASSUME stack \in Seq(Frames), stack # <<>>, NEW frame \in Frames,
         frame.kind = Top.kind, frame.caller = Top.caller, frame.id = Top.id,
         frame.cancel = Top.cancel, stack' = WithTop(frame)
  PROVE  stack' \in Seq(Frames) /\ stack' # <<>> /\ SameCalls
  <1>1. /\ Len(stack) \in Nat /\ Len(stack) >= 1 /\ Top = stack[Len(stack)]
    BY FrontLast DEF Top
  <1>2. /\ stack' \in Seq(Frames) /\ stack' # <<>> /\ Len(stack') = Len(stack)
        /\ \A i \in 1..(Len(stack) - 1) : stack'[i] = stack[i]
        /\ stack'[Len(stack)] = frame
    BY Replaced
  <1>3. ASSUME NEW i \in 1..Len(stack)
        PROVE  /\ stack'[i].kind = stack[i].kind /\ stack'[i].caller = stack[i].caller
               /\ stack'[i].id = stack[i].id /\ stack'[i].cancel = stack[i].cancel
    <2>1. CASE i = Len(stack) BY <1>1, <1>2, <2>1
    <2>2. CASE i # Len(stack) BY <1>1, <1>2, <2>2
    <2>3. QED BY <2>1, <2>2
  <1>4. QED BY <1>2, <1>3 DEF SameCalls

\* A use of the bounds.
LEMMA Counted ==
  ASSUME TypeInv, NEW what \in {"stops", "interrupts", "failures"}, Uses(what)
  PROVE  /\ used' \in [entries : 0..MaxEntries, controls : 0..MaxControls,
                       stops : Nat, interrupts : Nat, failures : Nat]
         /\ used'.entries = used.entries /\ used'.controls = used.controls
         /\ used'.failures = IF what = "failures" THEN used.failures + 1 ELSE used.failures
  BY DEF TypeInv, Uses

\* The machine of the running evaluation goes on as m, or is over.
Goes(m) ==
  /\ current \in Entries /\ stack # <<>> /\ at \in {"drive", "service", "start"}
  /\ Follows(vm[current], m) /\ Becomes(current, m, "drive")
  /\ Top.cancel => m.phase = "over" \/ Cancelled(m)
  /\ Sound' =>
       /\ Sound /\ frozen' = frozen /\ (at = "start" => Top.cancel)
       /\ m.ask => at = "start" /\ Top.cancel /\ m.phase = "cleanup"
  /\ held' \in {held, [held EXCEPT !.pending = FALSE]} /\ ~held'.pending
  /\ frozen' \in {frozen, frozen \cup {held.owner}, frozen \ {held.owner}}
  /\ stack' \in Seq(Frames) /\ SameCalls
  /\ used' \in [entries : 0..MaxEntries, controls : 0..MaxControls,
                stops : Nat, interrupts : Nat, failures : Nat]
  /\ used'.entries = used.entries /\ used'.controls = used.controls
  /\ UNCHANGED <<parked, suspended, active, ids, open>>

\* What is known of the running evaluation.
LEMMA RunningFacts ==
  ASSUME IInv, current # 0, at \in {"drive", "service", "start"}
  PROVE  /\ current \in Entries /\ vm[current] \in Machines
         /\ vm[current].phase \in {"body", "cleanup"}
         /\ stack # <<>> /\ stack \in Seq(Frames) /\ Top \in Frames
         /\ at = "service" => ~held.pending
         /\ Top.cancel /\ at \in {"drive", "service"} => Cancelled(vm[current])
         /\ held \in Records
  <1>1. current \in Entries /\ vm[current] \in Machines
    BY BoundsNatural DEF IInv, TypeInv, TypeOK, Entries, Machines
  <1>2. vm[current].phase \in {"body", "cleanup"} BY DEF IInv, HomeInv, Live
  <1>3. stack # <<>> /\ stack \in Seq(Frames) BY DEF IInv, TypeInv, StackInv
  <1>4. Top \in Frames BY <1>3, FrontLast DEF Top
  <1>5. at = "service" => ~held.pending BY DEF IInv, HeldInv
  <1>6. Top.cancel /\ at \in {"drive", "service"} => Cancelled(vm[current])
    BY <1>3 DEF IInv, CancelInv
  <1>7. QED BY <1>1, <1>2, <1>3, <1>4, <1>5, <1>6 DEF IInv, TypeInv, TypeOK


\* A step of the program itself, or the answer of a service.
LEMMA ProgramGoes ==
  ASSUME IInv, current # 0, at \in {"drive", "service"}, ~held.pending,
         NEW m \in Machines, Follows(vm[current], m), m.ask = FALSE,
         Becomes(current, m, "drive"), UNCHANGED <<parked, session, resources, stack, used>>
  PROVE  Goes(m)
  <1>1. /\ current \in Entries /\ stack # <<>> /\ stack \in Seq(Frames)
        /\ Top.cancel => Cancelled(vm[current])
    BY RunningFacts
  <1>2. SameCalls BY DEF SameCalls
  <1>3. /\ UNCHANGED <<parked, suspended, active, ids, open>>
        /\ held' = held /\ frozen' = frozen /\ used' = used /\ stack' = stack
    BY DEF session, resources
  <1>4. Top.cancel => m.phase = "over" \/ Cancelled(m) BY <1>1 DEF Follows
  <1>5. used' \in [entries : 0..MaxEntries, controls : 0..MaxControls,
                   stops : Nat, interrupts : Nat, failures : Nat]
    BY <1>3 DEF IInv, TypeInv
  <1>6. Sound' => Sound BY <1>3 DEF Sound
  <1>7. QED BY <1>1, <1>2, <1>3, <1>4, <1>5, <1>6 DEF Goes

\* Which steps those are.
LEMMA MachineSteps ==
  ASSUME IInv,
         \/ Reply \/ Completes \/ Raises \/ CallbackReturns \/ Refused
         \/ Interrupt \/ ParkFails \/ StartCancelled \/ StartFails
  PROVE  \E m \in Machines : Goes(m)
  <1>0. stack = <<>> <=> at \in {"prompt", "shutdown", "ended"} BY DEF IInv, StackInv
  <1>1. CASE Reply
    <2>1. at = "service" /\ current # 0 BY <1>1 DEF Reply, IInv, HomeInv
    <2>2. PICK result \in {"ok", "error"} :
            \E m \in Answered(vm[current], result) : Becomes(current, m, "drive")
      BY <1>1 DEF Reply
    <2> PICK m \in Answered(vm[current], result) : Becomes(current, m, "drive") BY <2>2
    <2>3. Follows(vm[current], m) /\ m.ask = FALSE
      BY <2>1, RunningFacts, AnsweredFollows
    <2>4. m \in Machines BY <2>3 DEF Follows
    <2>5. Goes(m)
      BY <1>1, <2>1, <2>2, <2>3, <2>4, RunningFacts, ProgramGoes DEF Reply
    <2>6. QED BY <2>4, <2>5
  <1>2. CASE Completes \/ Raises \/ CallbackReturns \/ Refused
    <2>1. /\ at = "drive" /\ current # 0 /\ ~held.pending /\ ~vm[current].ask
          /\ UNCHANGED <<parked, session, resources, stack, used>>
      BY <1>2 DEF Completes, Raises, CallbackReturns, Refused, Runs, Driving
    <2>2. vm[current] \in Machines /\ vm[current].phase \in {"body", "cleanup"}
      BY <2>1, RunningFacts
    <2>3. vm[current].ask = FALSE BY <2>1, <2>2 DEF Machines
    <2>4. \E m : /\ Becomes(current, m, "drive") /\ Follows(vm[current], m)
                 /\ m.ask \in {FALSE, vm[current].ask}
      <3>1. CASE Completes
        BY <2>2, <3>1, UnwoundFollows DEF Completes
      <3>2. CASE Raises \/ Refused
        <4>1. PICK m \in Raised(vm[current], "error") : Becomes(current, m, "drive")
          BY <3>2 DEF Raises, Refused
        <4>2. QED BY <2>2, <4>1, RaisedFollows
      <3>3. CASE CallbackReturns
        <4>1. vm[current].phase = "cleanup" BY <3>3 DEF CallbackReturns
        <4>2. PICK m \in AfterCleanup(vm[current]) : Becomes(current, m, "drive")
          BY <3>3 DEF CallbackReturns
        <4>3. QED BY <2>2, <4>1, <4>2, AfterCleanupFollows
      <3>4. QED BY <1>2, <3>1, <3>2, <3>3
    <2>5. PICK m : /\ Becomes(current, m, "drive") /\ Follows(vm[current], m)
                   /\ m.ask \in {FALSE, vm[current].ask}
      BY <2>4
    <2>6. m \in Machines /\ m.ask = FALSE BY <2>3, <2>5 DEF Follows
    <2>7. Goes(m) BY <2>1, <2>5, <2>6, ProgramGoes
    <2>8. QED BY <2>6, <2>7
  <1>3. CASE Interrupt
    <2>1. /\ current # 0 /\ at \in {"drive", "service"} /\ ~held.pending
          /\ vm[current].phase = "body"
      BY <1>3 DEF Interrupt, Interruptible, Driving, IInv, HomeInv, HeldInv
    <2>2. /\ current \in Entries /\ vm[current] \in Machines /\ stack # <<>>
          /\ stack \in Seq(Frames) /\ Top \in Frames
          /\ Top.cancel => Cancelled(vm[current])
      BY <2>1, RunningFacts
    <2> DEFINE m == Stopped(vm[current])
    <2>3. Follows(vm[current], m) /\ (m.ask => FALSE)
      BY <2>1, <2>2, StoppedFollows
    <2>4. ~Top.cancel BY <2>1, <2>2 DEF Cancelled
    <2>5. /\ Becomes(current, m, "drive") /\ Uses("interrupts")
          /\ stack' = WithTop([Top EXCEPT !.stopping = TRUE])
          /\ UNCHANGED <<parked, session, resources>>
      BY <1>3 DEF Interrupt
    <2> HIDE DEF m
    <2>6. stack' \in Seq(Frames) /\ SameCalls
      <3>1. [Top EXCEPT !.stopping = TRUE] \in Frames BY <2>2 DEF Frames
      <3>2. QED BY <2>2, <2>5, <3>1, ReplacedTop DEF Frames
    <2>7. /\ used' \in [entries : 0..MaxEntries, controls : 0..MaxControls,
                        stops : Nat, interrupts : Nat, failures : Nat]
          /\ used'.entries = used.entries /\ used'.controls = used.controls
          /\ used'.failures = used.failures
      BY <2>5, Counted DEF IInv
    <2>8. /\ UNCHANGED <<parked, suspended, active, ids, open>>
          /\ held' = held /\ frozen' = frozen
      BY <2>5 DEF session, resources
    <2>9. Goes(m) BY <2>1, <2>2, <2>3, <2>4, <2>5, <2>6, <2>7, <2>8 DEF Goes, Sound
    <2>10. QED BY <2>3, <2>9 DEF Follows
  <1>4. CASE ParkFails
    <2>1. /\ current # 0 /\ at \in {"drive", "service"} /\ ~held.pending
          /\ vm[current].phase = "body"
      BY <1>4 DEF ParkFails, Stoppable, Interruptible, Driving, IInv, HomeInv, HeldInv
    <2>2. /\ current \in Entries /\ vm[current] \in Machines /\ stack # <<>>
          /\ stack \in Seq(Frames) /\ Top \in Frames
          /\ Top.cancel => Cancelled(vm[current])
      BY <2>1, RunningFacts
    <2>3. ~Top.cancel BY <2>1, <2>2 DEF Cancelled
    <2>4. PICK m \in Raised(vm[current], "error") : Becomes(current, m, "drive")
      BY <1>4 DEF ParkFails
    <2>5. Follows(vm[current], m) BY <2>1, <2>2, <2>4, RaisedFollows
    <2>6. stack' \in Seq(Frames) /\ SameCalls
      <3>1. [Top EXCEPT !.stopping = FALSE] \in Frames BY <2>2 DEF Frames
      <3>2. stack' = WithTop([Top EXCEPT !.stopping = FALSE]) BY <1>4 DEF ParkFails
      <3>3. QED BY <2>2, <3>1, <3>2, ReplacedTop DEF Frames
    <2>7. /\ used' \in [entries : 0..MaxEntries, controls : 0..MaxControls,
                        stops : Nat, interrupts : Nat, failures : Nat]
          /\ used'.entries = used.entries /\ used'.controls = used.controls
          /\ used'.failures = used.failures + 1 /\ used.failures \in Nat
      <3>1. /\ used \in [entries : 0..MaxEntries, controls : 0..MaxControls,
                          stops : Nat, interrupts : Nat, failures : Nat]
            /\ used' = [used EXCEPT !.stops = used.stops + 1, !.failures = used.failures + 1]
        BY <1>4 DEF ParkFails, IInv, TypeInv
      <3>2. used.stops + 1 \in Nat /\ used.failures + 1 \in Nat BY <3>1
      <3>3. QED BY <3>1, <3>2
    <2>8. ~Sound' BY <2>7 DEF Sound
    <2>9. /\ UNCHANGED <<parked, suspended, active, ids, open>>
          /\ held' = held /\ frozen' \in {frozen, frozen \cup {held.owner}}
      BY <1>4 DEF ParkFails, session
    <2>10. Goes(m) BY <2>1, <2>2, <2>3, <2>4, <2>5, <2>6, <2>7, <2>8, <2>9 DEF Goes
    <2>11. QED BY <2>5, <2>10 DEF Follows
  <1>5. CASE StartCancelled \/ StartFails
    <2>1. /\ at = "start" /\ current # 0
          /\ held' = [held EXCEPT !.pending = FALSE] /\ NewSegment
          /\ UNCHANGED <<parked, suspended, active, ids, open>>
      BY <1>5 DEF StartCancelled, StartFails, IInv, HomeInv, resources
    <2>2. /\ current \in Entries /\ vm[current] \in Machines /\ stack # <<>>
          /\ vm[current].phase \in {"body", "cleanup"}
          /\ stack \in Seq(Frames) /\ Top \in Frames /\ held \in Records
      BY <2>1, RunningFacts
    <2>3. ~held'.pending BY <2>1, <2>2 DEF Records
    <2>4. stack' \in Seq(Frames) /\ SameCalls
      <3>1. [Top EXCEPT !.stopping = FALSE] \in Frames BY <2>2 DEF Frames
      <3>2. stack' = WithTop([Top EXCEPT !.stopping = FALSE]) BY <2>1 DEF NewSegment
      <3>3. QED BY <2>2, <3>1, <3>2, ReplacedTop DEF Frames
    <2>5. CASE StartCancelled
      <3> DEFINE m == Stopped(vm[current])
      <3>1. /\ Follows(vm[current], m) /\ (m.phase = "over" \/ Cancelled(m))
            /\ m.ask => m.phase = "cleanup"
        BY <2>2, StoppedFollows
      <3>2. /\ Becomes(current, m, "drive") /\ Top.cancel
            /\ frozen' = frozen /\ used' = used
        BY <2>5 DEF StartCancelled, resources
      <3> HIDE DEF m
      <3>3. used' \in [entries : 0..MaxEntries, controls : 0..MaxControls,
                       stops : Nat, interrupts : Nat, failures : Nat]
        BY <3>2 DEF IInv, TypeInv
      <3>4. Sound' => Sound BY <3>2 DEF Sound
      <3>5. Goes(m) BY <2>1, <2>2, <2>3, <2>4, <3>1, <3>2, <3>3, <3>4 DEF Goes
      <3>6. QED BY <3>1, <3>5 DEF Follows
    <2>6. CASE StartFails
      <3>1. PICK m \in Raised(vm[current], "error") : Becomes(current, m, "drive")
        BY <2>6 DEF StartFails
      <3>2. Follows(vm[current], m) BY <2>2, <3>1, RaisedFollows
      <3>3. ~Top.cancel /\ Uses("failures") /\ frozen' \in {frozen, frozen \ {held.owner}}
        BY <2>6 DEF StartFails
      <3>4. /\ used' \in [entries : 0..MaxEntries, controls : 0..MaxControls,
                          stops : Nat, interrupts : Nat, failures : Nat]
            /\ used'.entries = used.entries /\ used'.controls = used.controls
            /\ used'.failures = used.failures + 1
        BY <3>3, Counted DEF IInv
      <3>5. ~Sound' BY <3>4 DEF Sound, IInv, TypeInv
      <3>6. Goes(m) BY <2>1, <2>2, <2>3, <2>4, <3>1, <3>2, <3>3, <3>4, <3>5 DEF Goes
      <3>7. QED BY <3>2, <3>6 DEF Follows
    <2>7. QED BY <1>5, <2>5, <2>6
  <1>6. QED BY <1>1, <1>2, <1>3, <1>4, <1>5


\* Every step moves a machine on or is one of the coordinator's.
LEMMA StepKinds ==
  ASSUME IInv, [Next]_vars
  PROVE  \/ \E m \in Machines : Goes(m)
         \/ \E release \in BOOLEAN : Evaluate(release)
         \/ Idle \/ Continue \/ Serve \/ Park
         \/ \E id \in Ids : (\E cancel \in BOOLEAN : Controls(id, cancel)) \/ ControlFails(id)
         \/ StartResumed \/ Finish \/ Resumer \/ StoppedAgain \/ CalleeReturned
         \/ BeginShutdown \/ ShutdownNext \/ ShutdownReturns \/ ShutdownEnds
         \/ UNCHANGED vars
  BY MachineSteps DEF Next, Segments, Program, Spins, Ended

-----------------------------------------------------------------------------
(* The stack *)

\* The job of the innermost control is the last active one.
LEMMA Actives ==
  ASSUME TypeInv, StackInv, stack # <<>>
  PROVE  /\ Len(stack) \in Nat /\ Len(stack) >= 1 /\ Top \in Frames /\ Top = stack[Len(stack)]
         /\ Len(stack) = 1 => active = <<>>
         /\ Len(stack) > 1 => /\ active # <<>> /\ Last(active) = Top.id
                              /\ Top.id \in Ids /\ Top.caller \in Ids
         /\ Len(stack) = 1 <=> Top.kind # "control"
         /\ ParkingId = IF Len(stack) = 1 THEN ids + 1 ELSE Top.id
         /\ \A i \in Calls : {stack[i].caller, stack[i].id} \subseteq ToSet(active)
  <1>1. /\ Len(stack) \in Nat /\ Len(stack) >= 1 /\ Top \in Frames /\ Top = stack[Len(stack)]
    BY FrontLast DEF Top, TypeInv
  <1>2. active \in Seq(Ids) /\ Len(active) = 2 * (Len(stack) - 1)
    BY DEF TypeInv, TypeOK, StackInv
  <1>3. Len(stack) = 1 => active = <<>> BY <1>2, EmptySeq
  <1>4. ASSUME NEW i \in Calls
        PROVE  /\ 2 * i - 3 \in 1..Len(active) /\ 2 * i - 2 \in 1..Len(active)
               /\ active[2 * i - 3] = stack[i].caller /\ active[2 * i - 2] = stack[i].id
    BY <1>1, <1>2 DEF StackInv, Calls
  <1>5. ASSUME Len(stack) > 1
        PROVE  /\ active # <<>> /\ Last(active) = Top.id
               /\ Top.id \in Ids /\ Top.caller \in Ids
    <2>1. Len(stack) \in Calls BY <1>1, <1>5 DEF Calls
    <2>2. active # <<>> BY <1>1, <1>2, <1>5, EmptySeq
    <2>3. Last(active) = active[2 * Len(stack) - 2] BY <1>1, <1>2 DEF Last
    <2>4. \A k \in 1..Len(active) : active[k] \in Ids BY <1>2, ElementOfSeq
    <2>5. PICK n \in Nat : n = Len(stack) BY <1>1
    <2>6. /\ 2 * n - 3 \in 1..Len(active) /\ 2 * n - 2 \in 1..Len(active)
          /\ active[2 * n - 3] = stack[n].caller /\ active[2 * n - 2] = stack[n].id
      BY <1>4, <2>1, <2>5
    <2>7. Top = stack[n] /\ Last(active) = active[2 * n - 2] BY <1>1, <2>3, <2>5
    <2>8. active[2 * n - 3] \in Ids /\ active[2 * n - 2] \in Ids BY <2>4, <2>6
    <2>9. Last(active) = Top.id /\ Top.id \in Ids BY <2>6, <2>7, <2>8
    <2>10. Top.caller \in Ids BY <2>6, <2>7, <2>8
    <2>11. QED BY <2>2, <2>9, <2>10
  <1>6. Len(stack) = 1 <=> Top.kind # "control"
    <2>1. \A i \in 1..Len(stack) : stack[i].kind = "control" <=> i > 1 BY DEF StackInv
    <2>2. PICK n \in Nat : n = Len(stack) BY <1>1
    <2>3. stack[n].kind = "control" <=> n > 1 BY <1>1, <2>1, <2>2
    <2>4. Top = stack[n] /\ n >= 1 BY <1>1, <2>2
    <2>5. QED BY <2>2, <2>3, <2>4
  <1>7. \A i \in Calls : {stack[i].caller, stack[i].id} \subseteq ToSet(active)
    <2>1. DOMAIN active = 1..Len(active) BY <1>2
    <2>2. QED BY <1>4, <2>1 DEF ToSet
  <1>8. ParkingId = IF Len(stack) = 1 THEN ids + 1 ELSE Top.id
    <2>1. CASE Len(stack) = 1 BY <1>3, <2>1 DEF ParkingId
    <2>2. CASE Len(stack) # 1
      <3>1. \A n \in Nat : n >= 1 /\ n # 1 => n > 1 OBVIOUS
      <3> Len(stack) > 1 BY <1>1, <2>2, <3>1
      <3>2. QED BY <1>5, <2>2 DEF ParkingId
    <2>3. QED BY <2>1, <2>2
  <1>9. QED BY <1>1, <1>3, <1>5, <1>6, <1>7, <1>8

\* The id to park under is free and in range while there is something to park.
LEMMA ParkingIdFree ==
  ASSUME IInv, current # 0, at \in {"drive", "service"},
         \/ used.controls < MaxControls
         \/ vm[current].phase = "body"
  PROVE  /\ ParkingId \in Ids /\ ParkingId \notin DOMAIN suspended /\ ParkingId # 0
         /\ ParkingId \notin Callers
         /\ ParkingId = ids + 1 \/ ParkingId <= ids
         /\ stack # <<>>
  <1>1. /\ stack # <<>> /\ TypeInv /\ StackInv BY RunningFacts DEF IInv
  <1>2. ids \in Nat /\ used.entries \in 0..MaxEntries /\ used.controls \in 0..MaxControls
    BY BoundsNatural DEF IInv, TypeInv, TypeOK
  <1>3. Callers \subseteq DOMAIN suspended /\ DOMAIN suspended \subseteq 1..ids
    BY DEF IInv, ChainInv, IdsInv, HomeInv
  <1>4. CASE Len(stack) = 1
    <2>1. ParkingId = ids + 1 BY <1>1, <1>4, Actives
    <2>2. ids <= used.entries + used.controls BY DEF IInv, IdsInv
    <2>3. ids < MaxEntries + MaxControls
      <3>1. CASE used.controls < MaxControls BY <1>2, <2>2, <3>1, BoundsNatural
      <3>2. CASE vm[current].phase = "body"
        <4>1. ~Top.cancel BY <3>2, RunningFacts DEF Cancelled
        <4>2. Top = stack[1] /\ Top \in Frames /\ Top.kind # "control" BY <1>1, <1>4, Actives
        <4>3. Top.kind = "entry" BY <1>1, <4>1, <4>2 DEF StackInv, Frames
        <4>4. ids < used.entries + used.controls BY <1>1, <4>2, <4>3 DEF IInv, IdsInv
        <4>5. QED BY <1>2, <4>4, BoundsNatural
      <3>3. QED BY <3>1, <3>2
    <2>4. QED BY <1>1, <1>2, <1>3, <2>1, <2>3, BoundsNatural DEF Ids
  <1>5. CASE Len(stack) # 1
    <2>1. Len(stack) > 1 /\ ParkingId = Top.id /\ Top.id \in Ids
      <3>1. Len(stack) \in Nat /\ Len(stack) >= 1 BY <1>1, Actives
      <3>2. \A n \in Nat : n >= 1 /\ n # 1 => n > 1 OBVIOUS
      <3> Len(stack) > 1 BY <1>5, <3>1, <3>2
      <3>3. QED BY <1>1, <1>5, Actives
    <2>2. Top.id \notin DOMAIN suspended BY <2>1 DEF IInv, TopInv
    <2>3. Top.id \in 1..ids
      <3>1. Len(stack) \in Calls /\ Top = stack[Len(stack)] BY <1>1, <2>1, Actives DEF Calls
      <3>2. QED BY <3>1 DEF IInv, IdsInv
    <2>4. Top.id \notin Callers BY <2>1 DEF IInv, ChainInv
    <2>5. QED BY <1>1, <1>2, <2>1, <2>2, <2>3, <2>4 DEF Ids
  <1>6. QED BY <1>4, <1>5


\* A step that leaves the frames leaves the stack in order.
LEMMA QuietStack ==
  ASSUME TypeInv, StackInv, SameCalls, active' = active, stack' \in Seq(Frames),
         at \in {"prompt", "shutdown", "ended"} <=> at' \in {"prompt", "shutdown", "ended"}
  PROVE  /\ StackInv' /\ Calls' = Calls /\ Callers' = Callers
         /\ stack' = <<>> <=> stack = <<>>
         /\ stack # <<>> => /\ Top'.kind = Top.kind /\ Top'.id = Top.id
                            /\ Top'.caller = Top.caller /\ Top'.cancel = Top.cancel
  <1>1. /\ Len(stack) \in Nat /\ Len(stack') = Len(stack)
        /\ \A i \in 1..Len(stack) :
             /\ stack'[i].kind = stack[i].kind /\ stack'[i].caller = stack[i].caller
             /\ stack'[i].id = stack[i].id /\ stack'[i].cancel = stack[i].cancel
    BY LenProperties DEF SameCalls, TypeInv
  <1>2. stack' = <<>> <=> stack = <<>> BY <1>1, EmptySeq DEF TypeInv
  <1>3. Calls' = Calls /\ Calls \subseteq 1..Len(stack) BY <1>1 DEF Calls
  <1>4. Callers' = Callers BY <1>1, <1>3 DEF Callers
  <1>5. ASSUME stack # <<>>
        PROVE  /\ Top'.kind = Top.kind /\ Top'.id = Top.id
               /\ Top'.caller = Top.caller /\ Top'.cancel = Top.cancel
    <2>1. Len(stack) >= 1 BY <1>1, <1>5, EmptySeq DEF TypeInv
    <2>2. Top = stack[Len(stack)] /\ Top' = stack'[Len(stack)] BY <1>1 DEF Top, Last
    <2>3. Len(stack) \in 1..Len(stack) BY <1>1, <2>1
    <2>4. QED BY <1>1, <2>2, <2>3
  <1>6. StackInv'
    <2>1. stack' = <<>> <=> at' \in {"prompt", "shutdown", "ended"} BY <1>2 DEF StackInv
    <2>2. \A i \in 1..Len(stack') : stack'[i].kind = "control" <=> i > 1 BY <1>1 DEF StackInv
    <2>3. stack' # <<>> /\ stack'[1].kind = "shutdown" => stack'[1].cancel
      <3>1. stack # <<>> => 1 \in 1..Len(stack) BY <1>1, EmptySeq DEF TypeInv
      <3>2. QED BY <1>1, <1>2, <3>1 DEF StackInv
    <2>4. Len(active') = IF stack' = <<>> THEN 0 ELSE 2 * (Len(stack') - 1)
      BY <1>1, <1>2 DEF StackInv
    <2>5. \A i \in Calls' : active'[2 * i - 3] = stack'[i].caller
                             /\ active'[2 * i - 2] = stack'[i].id
      BY <1>1, <1>3 DEF StackInv
    <2>6. \A i \in 2..(Len(stack') - 1) : stack'[i + 1].caller = stack'[i].id
      <3>1. PICK n \in Nat : n = Len(stack) BY <1>1
      <3>2. \A i \in 2..(n - 1) : stack[i + 1].caller = stack[i].id BY <3>1 DEF StackInv
      <3>3. \A i \in 2..(n - 1) : i \in 1..n /\ i + 1 \in 1..n BY <3>1
      <3>4. \A i \in 2..(n - 1) : /\ stack'[i + 1].caller = stack[i + 1].caller
                                  /\ stack'[i].id = stack[i].id
        BY <1>1, <3>1, <3>3
      <3>5. \A i \in 2..(n - 1) : stack'[i + 1].caller = stack'[i].id BY <3>2, <3>4
      <3>6. QED BY <1>1, <3>1, <3>5
    <2>7. QED BY <2>1, <2>2, <2>3, <2>4, <2>5, <2>6 DEF StackInv
  <1>7. QED BY <1>2, <1>3, <1>4, <1>5, <1>6

\* What a request to control a stopped job finds.
LEMMA Accepting ==
  ASSUME IInv, NEW id \in Ids, NEW cancel \in BOOLEAN, Controls(id, cancel)
  PROVE  /\ at = "drive" /\ current # 0 /\ ~held.pending /\ ~vm[current].ask
         /\ used.controls < MaxControls /\ id \in DOMAIN suspended /\ id # 0
         /\ \A p \in Jobs : id \notin ToSet(Resumers(p))
         /\ \A i \in Calls : id # stack[i].caller /\ id # stack[i].id
         /\ id \notin Callers /\ id # ParkingId
  <1>1. /\ at = "drive" /\ current # 0 /\ ~held.pending /\ ~vm[current].ask
        /\ used.controls < MaxControls /\ id \in DOMAIN suspended
        /\ id \notin ToSet(active) \cup ToSet(held.resumers)
        /\ \A i \in DOMAIN suspended : id \notin ToSet(suspended[i].resumers)
    BY DEF Controls, Accepted, RetainedCaller, Runs, Driving
  <1>2. id # 0 BY DEF Ids
  <1>3. \A p \in Jobs : id \notin ToSet(Resumers(p)) BY <1>1 DEF Jobs, Resumers
  <1>4. \A i \in Calls : {stack[i].caller, stack[i].id} \subseteq ToSet(active)
    BY <1>1, RunningFacts, Actives DEF IInv
  <1>5. ParkingId \notin DOMAIN suspended BY <1>1, ParkingIdFree
  <1>6. QED BY <1>1, <1>2, <1>3, <1>4, <1>5 DEF Callers

\* The new call is on top.
LEMMA ControlsPush ==
  ASSUME IInv, NEW id \in Ids, NEW cancel \in BOOLEAN, Controls(id, cancel)
  PROVE  /\ stack' \in Seq(Frames) /\ stack' # <<>> /\ Len(stack') = Len(stack) + 1
         /\ \A i \in 1..Len(stack) : stack'[i] = stack[i]
         /\ stack'[Len(stack) + 1] = Frame("control", ParkingId, id, cancel)
         /\ Top' = Frame("control", ParkingId, id, cancel)
         /\ Callers' = Callers \cup {ParkingId}
         /\ active' \in Seq(Ids) /\ Len(active') = Len(active) + 2
         /\ \A i \in 1..Len(active) : active'[i] = active[i]
         /\ active'[Len(active) + 1] = ParkingId /\ active'[Len(active) + 2] = id
         /\ StackInv'
  <1> DEFINE frame == Frame("control", ParkingId, id, cancel)
             n == Len(stack)
  <1>1. /\ stack # <<>> /\ stack \in Seq(Frames) /\ active \in Seq(Ids) /\ ParkingId \in Ids
        /\ n \in Nat /\ n >= 1
    BY Accepting, RunningFacts, ParkingIdFree, Actives DEF IInv, TypeInv, TypeOK
  <1>2. /\ frame \in Frames /\ frame.kind = "control" /\ frame.caller = ParkingId /\ frame.id = id
        /\ frame.cancel = cancel
    <2>1. id \in 0..(MaxEntries + MaxControls) /\ ParkingId \in 0..(MaxEntries + MaxControls)
      BY <1>1, BoundsNatural DEF Ids
    <2>2. QED BY <2>1 DEF Frame, Frames
  <1>3. stack' = Append(stack, frame) /\ active' = active \o <<ParkingId, id>> /\ at' = "start"
    BY DEF Controls
  <1> HIDE DEF frame
  <1>4. /\ stack' \in Seq(Frames) /\ stack' # <<>> /\ Len(stack') = n + 1
        /\ \A i \in 1..n : stack'[i] = stack[i]
        /\ stack'[n + 1] = frame /\ Top' = frame
    BY <1>1, <1>2, <1>3, Pushed DEF Top
  <1>5. /\ active' \in Seq(Ids) /\ Len(active') = Len(active) + 2
        /\ \A i \in 1..Len(active) : active'[i] = active[i]
        /\ active'[Len(active) + 1] = ParkingId /\ active'[Len(active) + 2] = id
    <2>1. <<ParkingId, id>> \in Seq(Ids) /\ Len(<<ParkingId, id>>) = 2 BY <1>1
    <2>2. Len(active) \in Nat BY <1>1, LenProperties
    <2>3. /\ active' \in Seq(Ids) /\ Len(active') = Len(active) + 2
          /\ \A i \in 1..Len(active) + 2 : active'[i] =
               IF i <= Len(active) THEN active[i] ELSE <<ParkingId, id>>[i - Len(active)]
      BY <1>1, <1>3, <2>1, ConcatProperties
    <2>4. PICK k \in Nat : k = Len(active) BY <2>2
    <2>5. active'[k + 1] = ParkingId BY <2>3, <2>4
    <2>6. active'[k + 2] = id BY <2>3, <2>4
    <2>7. QED BY <2>2, <2>3, <2>4, <2>5, <2>6
  <1>6. Callers' = Callers \cup {ParkingId}
    <2>1. Calls' = Calls \cup {n + 1} /\ n + 1 \notin Calls BY <1>1, <1>4 DEF Calls
    <2>2. \A i \in Calls : stack'[i].caller = stack[i].caller BY <1>4 DEF Calls
    <2>3. QED BY <1>2, <1>4, <2>1, <2>2 DEF Callers
  <1>7. StackInv'
    <2> PICK m \in Nat : m = n BY <1>1
    <2>1. stack' # <<>> /\ at' \notin {"prompt", "shutdown", "ended"} BY <1>3, <1>4
    <2>2. \A i \in 1..Len(stack') : stack'[i].kind = "control" <=> i > 1
      <3>1. \A i \in 1..n : stack'[i].kind = "control" <=> i > 1 BY <1>4 DEF IInv, StackInv
      <3>2. stack'[n + 1].kind = "control" /\ n + 1 > 1 BY <1>1, <1>2, <1>4
      <3>3. QED BY <1>1, <1>4, <3>1, <3>2
    <2>3. stack'[1].kind = "shutdown" => stack'[1].cancel
      BY <1>1, <1>4 DEF IInv, StackInv
    <2>4. Len(active) = 2 * (m - 1) BY <1>1 DEF IInv, StackInv
    <2>5. Len(active') = 2 * (Len(stack') - 1) BY <1>4, <1>5, <2>4
    <2>6. \A i \in Calls' : active'[2 * i - 3] = stack'[i].caller
                             /\ active'[2 * i - 2] = stack'[i].id
      <3>1. TAKE i \in Calls'
      <3>2. CASE i = m + 1 BY <1>2, <1>4, <1>5, <2>4, <3>2
      <3>3. CASE i # m + 1
        <4>1. i \in Calls /\ i \in 1..n BY <1>4, <3>3 DEF Calls
        <4>2. 2 * i - 3 \in 1..Len(active) /\ 2 * i - 2 \in 1..Len(active) BY <2>4, <4>1 DEF Calls
        <4>3. QED BY <1>4, <1>5, <4>1, <4>2 DEF IInv, StackInv
      <3>4. QED BY <3>2, <3>3
    <2>7. \A i \in 2..(Len(stack') - 1) : stack'[i + 1].caller = stack'[i].id
      <3>1. TAKE i \in 2..(Len(stack') - 1)
      <3>2. CASE i = m
        <4>1. Len(stack) > 1 BY <3>2
        <4>2. ParkingId = Top.id /\ Top = stack[m] BY <1>1, <4>1, Actives DEF IInv
        <4>3. QED BY <1>2, <1>4, <3>2, <4>2
      <3>3. CASE i # m
        <4>1. i \in 2..(n - 1) /\ i \in 1..n /\ i + 1 \in 1..n BY <1>4, <3>3
        <4>2. QED BY <1>4, <4>1 DEF IInv, StackInv
      <3>4. QED BY <3>2, <3>3
    <2>8. QED BY <2>1, <2>2, <2>3, <2>5, <2>6, <2>7 DEF StackInv
  <1>8. QED BY <1>4, <1>5, <1>6, <1>7 DEF frame

\* The innermost call is over.
LEMMA LeavePops ==
  ASSUME TypeInv, StackInv, Len(stack) > 1, Leave, at' \notin {"prompt", "shutdown", "ended"}
  PROVE  /\ stack' \in Seq(Frames) /\ stack' # <<>> /\ Len(stack') = Len(stack) - 1
         /\ \A i \in 1..(Len(stack) - 1) : stack'[i] = stack[i]
         /\ Calls' \subseteq Calls /\ \A i \in Calls : i \in Calls' <=> i # Len(stack)
         /\ active' \in Seq(Ids)
         /\ Top = stack[Len(stack)] /\ Len(stack) \in Calls
         /\ Len(stack) > 2 => Top'.id = Top.caller
         /\ StackInv'
  <1> PICK n \in Nat : n = Len(stack) BY LenProperties DEF TypeInv
  <1>1. n > 1 /\ stack # <<>> BY EmptySeq
  <1>2. /\ stack' \in Seq(Frames) /\ Len(stack') = n - 1
        /\ \A i \in 1..(n - 1) : stack'[i] = stack[i]
        /\ Top = stack[n]
    <2>1. stack \in Seq(Frames) /\ stack # <<>> BY <1>1 DEF TypeInv
    <2>2. /\ Front(stack) \in Seq(Frames) /\ Len(Front(stack)) = n - 1
          /\ \A i \in 1..(n - 1) : Front(stack)[i] = stack[i]
          /\ Last(stack) = stack[n]
      BY <2>1, FrontLast
    <2>3. stack' = Front(stack) /\ Top = Last(stack) BY DEF Leave, Top
    <2>4. QED BY <2>2, <2>3
  <1>3. stack' # <<>> BY <1>1, <1>2, EmptySeq
  <1>4. /\ Calls' \subseteq Calls /\ n \in Calls
        /\ \A i \in Calls : i \in Calls' <=> i # n
    BY <1>1, <1>2 DEF Calls
  <1>5. /\ active' \in Seq(Ids) /\ Len(active') = 2 * (n - 2)
        /\ \A i \in 1..(2 * (n - 2)) : active'[i] = active[i]
    <2>1. active \in Seq(Ids) /\ Len(active) = 2 * (n - 1)
      BY <1>1 DEF TypeInv, TypeOK, StackInv
    <2>2. active # <<>> BY <1>1, <2>1, EmptySeq
    <2>3. /\ Front(active) \in Seq(Ids) /\ Len(Front(active)) = 2 * (n - 1) - 1
          /\ \A i \in 1..(2 * (n - 1) - 1) : Front(active)[i] = active[i]
      BY <2>1, <2>2, FrontLast
    <2>4. Front(active) # <<>> BY <1>1, <2>3, EmptySeq
    <2> DEFINE t == Front(active)
    <2>5. active' = Front(t) BY DEF Leave
    <2> HIDE DEF t
    <2>6. /\ Front(t) \in Seq(Ids) /\ Len(Front(t)) = Len(t) - 1
          /\ \A i \in 1..(Len(t) - 1) : Front(t)[i] = t[i]
      BY <2>3, <2>4, FrontLast DEF t
    <2>7. Len(t) = 2 * (n - 1) - 1 /\ \A i \in 1..(2 * (n - 1) - 1) : t[i] = active[i]
      BY <2>3 DEF t
    <2>8. QED BY <1>1, <2>5, <2>6, <2>7
  <1>6. ASSUME n > 2 PROVE Top'.id = Top.caller
    <2>1. stack[n - 1 + 1].caller = stack[n - 1].id BY <1>6 DEF StackInv
    <2>2. Top' = stack'[n - 1] BY <1>2 DEF Top, Last
    <2>3. n - 1 \in 1..(n - 1) /\ n - 1 + 1 = n BY <1>6
    <2>4. QED BY <1>2, <2>1, <2>2, <2>3
  <1>7. StackInv'
    <2>1. \A i \in 1..Len(stack') : stack'[i].kind = "control" <=> i > 1
      <3>1. TAKE i \in 1..Len(stack')
      <3>2. i \in 1..(n - 1) /\ i \in 1..Len(stack) BY <1>2
      <3>3. stack[i].kind = "control" <=> i > 1 BY <3>2 DEF StackInv
      <3>4. QED BY <1>2, <3>2, <3>3
    <2>2. stack'[1].kind = "shutdown" => stack'[1].cancel
      <3>1. 1 \in 1..(n - 1) BY <1>1
      <3>2. QED BY <1>1, <1>2, <3>1 DEF StackInv
    <2>3. \A i \in Calls' : active'[2 * i - 3] = stack'[i].caller
                             /\ active'[2 * i - 2] = stack'[i].id
      <3>1. TAKE i \in Calls'
      <3>2. /\ i \in Calls /\ i \in 1..(n - 1)
            /\ 2 * i - 3 \in 1..(2 * (n - 2)) /\ 2 * i - 2 \in 1..(2 * (n - 2))
        BY <1>2 DEF Calls
      <3>3. active[2 * i - 3] = stack[i].caller /\ active[2 * i - 2] = stack[i].id
        BY <3>2 DEF StackInv
      <3>4. QED BY <1>2, <1>5, <3>2, <3>3
    <2>4. \A i \in 2..(Len(stack') - 1) : stack'[i + 1].caller = stack'[i].id
      <3>1. TAKE i \in 2..(Len(stack') - 1)
      <3>2. i \in 2..(n - 1) /\ i \in 1..(n - 1) /\ i + 1 \in 1..(n - 1) BY <1>2
      <3>3. stack[i + 1].caller = stack[i].id BY <3>2 DEF StackInv
      <3>4. QED BY <1>2, <3>2, <3>3
    <2>5. Len(active') = 2 * (Len(stack') - 1) BY <1>1, <1>2, <1>5
    <2>6. QED BY <1>3, <2>1, <2>2, <2>3, <2>4, <2>5 DEF StackInv
  <1>8. QED BY <1>1, <1>2, <1>3, <1>4, <1>5, <1>6, <1>7

\* A stack with a single frame.
LEMMA OneFrame ==
  ASSUME NEW frame \in Frames, frame.kind # "control", frame.kind = "shutdown" => frame.cancel,
         stack' = <<frame>>, active' = <<>>, at' \notin {"prompt", "shutdown", "ended"}
  PROVE  /\ stack' \in Seq(Frames) /\ stack' # <<>> /\ Len(stack') = 1 /\ Top' = frame
         /\ stack'[1] = frame /\ Calls' = {} /\ Callers' = {} /\ StackInv'
  <1>1. /\ stack' \in Seq(Frames) /\ stack' # <<>> /\ Len(stack') = 1 /\ stack'[1] = frame
        /\ Top' = frame
    BY DEF Top, Last
  <1>2. Calls' = {} BY <1>1 DEF Calls
  <1>3. Callers' = {} BY <1>2 DEF Callers
  <1>4. Len(active') = 0 OBVIOUS
  <1>5. StackInv' BY <1>1, <1>2, <1>4 DEF StackInv
  <1>6. QED BY <1>1, <1>2, <1>3, <1>5

\* No frame.
LEMMA NoFrame ==
  ASSUME stack' = <<>>, active' = <<>>, at' \in {"prompt", "shutdown", "ended"}
  PROVE  /\ stack' \in Seq(Frames) /\ Calls' = {} /\ Callers' = {} /\ StackInv'
  <1>1. stack' \in Seq(Frames) /\ Len(stack') = 0 /\ Len(active') = 0 OBVIOUS
  <1>2. Calls' = {} BY <1>1 DEF Calls
  <1>3. Callers' = {} BY <1>2 DEF Callers
  <1>4. StackInv' BY <1>1, <1>2 DEF StackInv
  <1>5. QED BY <1>1, <1>2, <1>3, <1>4

-----------------------------------------------------------------------------
(* The steps that move an evaluation, and what it owns, in and out of the  *)
(* maps of parked ones                                                     *)

\* The counters of the bounds, after a step that counts no entry and no control.
Bounds == [entries : 0..MaxEntries, controls : 0..MaxControls,
           stops : Nat, interrupts : Nat, failures : Nat]

\* The running evaluation is stopped, and put away under id.
Parks(id) ==
  /\ current \in Entries /\ vm[current].phase = "body" /\ stack # <<>> /\ ~Top.cancel
  /\ at \in {"drive", "service"} /\ ~held.pending
  /\ id \in Ids /\ id # 0 /\ id \notin DOMAIN suspended /\ id \notin Callers
  /\ id = IF Len(stack) = 1 THEN ids + 1 ELSE Top.id
  /\ ids' = IF id > ids THEN id ELSE ids
  /\ frozen' = frozen \cup {held.owner}
  /\ DOMAIN parked' = DOMAIN parked \cup {id} /\ parked'[id] = current
  /\ \A i \in DOMAIN parked \ {id} : parked'[i] = parked[i]
  /\ DOMAIN suspended' = DOMAIN suspended \cup {id} /\ suspended'[id] \in Records
  /\ suspended'[id].owner = held.owner /\ suspended'[id].resumers = held.resumers
  /\ suspended'[id].pending = (at = "service")
  /\ \A i \in DOMAIN suspended : suspended'[i] = suspended[i]
  /\ current' = 0 /\ value' = 0 /\ held' = Nothing /\ at' = "end" /\ outcome' = "ok"
  /\ used' \in Bounds /\ used'.entries = used.entries /\ used'.controls = used.controls
  /\ used'.failures = used.failures
  /\ UNCHANGED <<vm, callee, active, open, stack>>

LEMMA ParkParks ==
  ASSUME IInv, Park
  PROVE  Parks(ParkingId)
  <1>1. /\ current # 0 /\ at \in {"drive", "service"} /\ ~held.pending
        /\ vm[current].phase = "body"
    BY DEF Park, Stoppable, Interruptible, Driving, IInv, HomeInv, HeldInv
  <1>2. /\ current \in Entries /\ vm[current] \in Machines /\ stack # <<>>
        /\ Top.cancel => Cancelled(vm[current])
        /\ held \in Records
    BY <1>1, RunningFacts
  <1>3. ~Top.cancel BY <1>1, <1>2 DEF Cancelled
  <1>4. /\ ParkingId \in Ids /\ ParkingId # 0 /\ ParkingId \notin DOMAIN suspended
        /\ ParkingId \notin Callers
    BY <1>1, ParkingIdFree
  <1>5. ParkingId = IF Len(stack) = 1 THEN ids + 1 ELSE Top.id
    BY <1>2, Actives DEF IInv
  <1>6. /\ ids' = IF ParkingId > ids THEN ParkingId ELSE ids
        /\ frozen' = frozen \cup {held.owner}
        /\ parked' = Store(parked, ParkingId, current) /\ current' = 0 /\ value' = 0
        /\ suspended' = Store(suspended, ParkingId, [held EXCEPT !.pending = at = "service"])
        /\ held' = Nothing /\ at' = "end" /\ outcome' = "ok"
        /\ UNCHANGED <<vm, callee, active, open, stack>> /\ Uses("stops")
    BY DEF Park
  <1>7. /\ DOMAIN parked' = DOMAIN parked \cup {ParkingId} /\ parked'[ParkingId] = current
        /\ \A i \in DOMAIN parked \ {ParkingId} : parked'[i] = parked[i]
    BY <1>6 DEF Store
  <1> DEFINE put == [held EXCEPT !.pending = at = "service"]
  <1>8. /\ put \in Records /\ put.owner = held.owner /\ put.resumers = held.resumers
        /\ put.pending = (at = "service")
    BY <1>2 DEF Records
  <1> HIDE DEF put
  <1>9. /\ DOMAIN suspended' = DOMAIN suspended \cup {ParkingId} /\ suspended'[ParkingId] = put
        /\ \A i \in DOMAIN suspended \ {ParkingId} : suspended'[i] = suspended[i]
    BY <1>6 DEF put, Store
  <1>10. \A i \in DOMAIN suspended : suspended'[i] = suspended[i] BY <1>4, <1>9
  <1>11. /\ used' \in Bounds /\ used'.entries = used.entries
         /\ used'.controls = used.controls /\ used'.failures = used.failures
    BY <1>6, Counted DEF IInv, Bounds
  <1>12. QED
    BY <1>1, <1>2, <1>3, <1>4, <1>5, <1>6, <1>7, <1>8, <1>9, <1>10, <1>11 DEF Parks

\* The running evaluation is put away under pid, and waits for the one of job id.
Controlled(id, pid, cancel) ==
  /\ current \in Entries /\ stack # <<>> /\ at = "drive" /\ ~held.pending
  /\ id \in Ids /\ id # 0 /\ id \in DOMAIN suspended /\ id # pid /\ id \notin Callers
  /\ \A p \in Jobs : id \notin ToSet(Resumers(p))
  /\ \A i \in Calls : id # stack[i].id
  /\ pid \in Ids /\ pid # 0 /\ pid \notin DOMAIN suspended /\ pid \notin Callers
  /\ pid = IF Len(stack) = 1 THEN ids + 1 ELSE Top.id
  /\ ids' = IF pid > ids THEN pid ELSE ids
  /\ frozen' = frozen \cup {held.owner}
  /\ vm' \in [Entries -> Machines] /\ \A e \in Entries \ {current} : vm'[e] = vm[e]
  /\ vm'[current].ask /\ vm'[current].phase = vm[current].phase
  /\ vm'[current].reason = vm[current].reason
  /\ DOMAIN parked' = (DOMAIN parked \cup {pid}) \ {id} /\ parked'[pid] = current
  /\ \A i \in DOMAIN parked \ {pid, id} : parked'[i] = parked[i]
  /\ DOMAIN suspended' = (DOMAIN suspended \cup {pid}) \ {id} /\ suspended'[pid] = held
  /\ \A i \in DOMAIN suspended \ {id} : suspended'[i] = suspended[i]
  /\ current' = parked[id] /\ value' = 0 /\ held' = suspended[id] /\ at' = "start"
  /\ callee' \in [Entries -> 0..MaxEntries]
  /\ used' \in Bounds /\ used'.entries = used.entries /\ used'.controls = used.controls + 1
  /\ used'.failures = used.failures
  /\ stack' \in Seq(Frames) /\ stack' # <<>> /\ Len(stack') = Len(stack) + 1
  /\ \A i \in 1..Len(stack) : stack'[i] = stack[i]
  /\ stack'[Len(stack) + 1] = Frame("control", pid, id, cancel)
  /\ Top' = Frame("control", pid, id, cancel)
  /\ Callers' = Callers \cup {pid}
  /\ active' \in Seq(Ids) /\ StackInv'
  /\ UNCHANGED <<open, outcome>>

LEMMA ControlsControlled ==
  ASSUME IInv, NEW id \in Ids, NEW cancel \in BOOLEAN, Controls(id, cancel)
  PROVE  Controlled(id, ParkingId, cancel)
  <1>1. /\ at = "drive" /\ current # 0 /\ ~held.pending /\ ~vm[current].ask
        /\ used.controls < MaxControls /\ id \in DOMAIN suspended /\ id # 0
        /\ \A p \in Jobs : id \notin ToSet(Resumers(p))
        /\ \A i \in Calls : id # stack[i].id
        /\ id \notin Callers /\ id # ParkingId
    BY Accepting
  <1>2. current \in Entries /\ stack # <<>> /\ vm[current] \in Machines BY <1>1, RunningFacts
  <1>3. /\ ParkingId \in Ids /\ ParkingId # 0 /\ ParkingId \notin DOMAIN suspended
        /\ ParkingId \notin Callers
    BY <1>1, ParkingIdFree
  <1>4. ParkingId = IF Len(stack) = 1 THEN ids + 1 ELSE Top.id
    BY <1>2, Actives DEF IInv
  <1>5. /\ ids' = IF ParkingId > ids THEN ParkingId ELSE ids
        /\ frozen' = frozen \cup {held.owner}
        /\ vm' = [vm EXCEPT ![current].ask = TRUE]
        /\ callee' = [callee EXCEPT ![current] = EndsWith(id)]
        /\ parked' = Without(Store(parked, ParkingId, current), id)
        /\ current' = parked[id] /\ value' = 0
        /\ suspended' = Without(Store(suspended, ParkingId, held), id)
        /\ held' = suspended[id] /\ at' = "start"
        /\ UNCHANGED <<open, outcome>> /\ Uses("controls")
    BY DEF Controls
  <1>6. vm \in [Entries -> Machines] /\ callee \in [Entries -> 0..MaxEntries]
    BY DEF IInv, TypeInv, TypeOK, Machines
  <1>7. /\ vm' \in [Entries -> Machines] /\ \A e \in Entries \ {current} : vm'[e] = vm[e]
        /\ vm'[current].ask /\ vm'[current].phase = vm[current].phase
        /\ vm'[current].reason = vm[current].reason
    <2> DEFINE m == [vm[current] EXCEPT !.ask = TRUE]
    <2>1. /\ m \in Machines /\ m.ask /\ m.phase = vm[current].phase
          /\ m.reason = vm[current].reason
      BY <1>2 DEF Machines
    <2>2. vm' = [vm EXCEPT ![current] = m] BY <1>5
    <2> HIDE DEF m
    <2>3. QED BY <1>2, <1>6, <2>1, <2>2
  <1>8. callee' \in [Entries -> 0..MaxEntries]
    <2>1. EndsWith(id) \in Entries
      BY <1>2 DEF EndsWith
    <2>2. EndsWith(id) \in 0..MaxEntries BY <2>1, BoundsNatural DEF Entries
    <2>3. QED BY <1>2, <1>5, <1>6, <2>2
  <1>9. /\ DOMAIN parked' = (DOMAIN parked \cup {ParkingId}) \ {id}
        /\ parked'[ParkingId] = current
        /\ \A i \in DOMAIN parked \ {ParkingId, id} : parked'[i] = parked[i]
    <2> DEFINE f == Store(parked, ParkingId, current)
    <2>1. /\ DOMAIN f = DOMAIN parked \cup {ParkingId} /\ f[ParkingId] = current
          /\ \A i \in DOMAIN parked \ {ParkingId} : f[i] = parked[i]
      BY DEF Store
    <2> HIDE DEF f
    <2>2. DOMAIN parked' = DOMAIN f \ {id} /\ \A i \in DOMAIN f \ {id} : parked'[i] = f[i]
      BY <1>5 DEF f, Without, Restrict
    <2>3. QED BY <1>1, <2>1, <2>2
  <1>10. /\ DOMAIN suspended' = (DOMAIN suspended \cup {ParkingId}) \ {id}
         /\ suspended'[ParkingId] = held
         /\ \A i \in DOMAIN suspended \ {id} : suspended'[i] = suspended[i]
    <2> DEFINE f == Store(suspended, ParkingId, held)
    <2>1. /\ DOMAIN f = DOMAIN suspended \cup {ParkingId} /\ f[ParkingId] = held
          /\ \A i \in DOMAIN suspended \ {ParkingId} : f[i] = suspended[i]
      BY DEF Store
    <2> HIDE DEF f
    <2>2. DOMAIN suspended' = DOMAIN f \ {id} /\ \A i \in DOMAIN f \ {id} : suspended'[i] = f[i]
      BY <1>5 DEF f, Without, Restrict
    <2>3. QED BY <1>1, <1>3, <2>1, <2>2
  <1>11. /\ used' \in Bounds /\ used'.entries = used.entries
         /\ used'.controls = used.controls + 1 /\ used'.failures = used.failures
    <2>1. /\ used \in Bounds /\ used' = [used EXCEPT !.controls = used.controls + 1]
      BY <1>5 DEF Uses, IInv, TypeInv, Bounds
    <2>2. used.controls + 1 \in 0..MaxControls BY <1>1, <2>1, BoundsNatural DEF Bounds
    <2>3. QED BY <2>1, <2>2 DEF Bounds
  <1>12. /\ stack' \in Seq(Frames) /\ stack' # <<>> /\ Len(stack') = Len(stack) + 1
         /\ \A i \in 1..Len(stack) : stack'[i] = stack[i]
         /\ stack'[Len(stack) + 1] = Frame("control", ParkingId, id, cancel)
         /\ Top' = Frame("control", ParkingId, id, cancel)
         /\ Callers' = Callers \cup {ParkingId}
         /\ active' \in Seq(Ids) /\ StackInv'
    BY ControlsPush
  <1>13. QED
    BY <1>1, <1>2, <1>3, <1>4, <1>5, <1>7, <1>8, <1>9, <1>10, <1>11, <1>12 DEF Controlled

\* The machine parked under id is taken back and answered, or, when its callee was
\* cancelled with it, runs again as it is; or an active machine refuses it.
Returns(id, next) ==
  /\ vm' \in [Entries -> Machines] /\ callee' \in [Entries -> 0..MaxEntries]
  /\ value' \in 0..MaxEntries /\ outcome' \in {"ok", "error", "cancelled", "noted"}
  /\ parked[id] \in Entries /\ \A e \in Entries \ {parked[id]} : vm'[e] = vm[e]
  /\ \/ current # 0 /\ at' = "end" /\ UNCHANGED <<vm, current, parked>>
     \/ /\ current = 0
        /\ DOMAIN parked' = DOMAIN parked \ {id}
        /\ \A i \in DOMAIN parked \ {id} : parked'[i] = parked[i]
        /\ \/ vm'[parked[id]].phase = "over" /\ current' = 0 /\ at' = "end"
           \/ /\ vm'[parked[id]].phase \in {"body", "cleanup"}
              /\ current' = parked[id] /\ at' = next
              /\ Cancelled(vm[parked[id]]) => Cancelled(vm'[parked[id]])
              /\ ~vm'[parked[id]].ask \/ (Top.cancel /\ next = "start")

LEMMA ReturnToReturns ==
  ASSUME IInv, NEW id \in DOMAIN suspended, NEW next,
         NEW result \in {"ok", "error", "cancelled", "noted"}, ReturnTo(id, result, next)
  PROVE  Returns(id, next)
  <1>1. /\ id \in DOMAIN parked /\ parked[id] \in Entries
        /\ vm[parked[id]] \in Machines /\ vm[parked[id]].phase \in {"body", "cleanup"}
    BY DEF IInv, HomeInv, TypeInv, TypeOK, Machines, Live, ToSet
  <1>2. CASE current # 0
    BY <1>1, <1>2 DEF ReturnTo, Returns, engine, IInv, TypeInv, TypeOK, Machines
  <1>3. CASE current = 0
    <2>1. parked' = Without(parked, id) BY <1>3 DEF ReturnTo
    <2>2. PICK m \in Answered(vm[parked[id]], result) : Becomes(parked[id], m, next)
      BY <1>3 DEF ReturnTo
    <2>3. Follows(vm[parked[id]], m) /\ m.ask = FALSE BY <1>1, <2>2, AnsweredFollows
    <2>4. m \in Machines /\ m.phase # "new" /\ TypeOK BY <2>3 DEF Follows, IInv, TypeInv
    <2>5. /\ vm' \in [Entries -> Machines]
          /\ \A d \in Entries \ {parked[id]} : vm'[d] = vm[d]
          /\ callee' \in [Entries -> 0..MaxEntries]
          /\ outcome' \in {"ok", "error", "cancelled", "noted"}
          /\ value' \in 0..MaxEntries
          /\ IF m.phase = "over"
             THEN vm'[parked[id]].phase = "over" /\ current' = 0 /\ at' = "end"
             ELSE vm'[parked[id]] = m /\ current' = parked[id] /\ at' = next
      BY <1>1, <2>2, <2>4, BecomesTypes
    <2>6. /\ DOMAIN parked' = DOMAIN parked \ {id}
          /\ \A i \in DOMAIN parked \ {id} : parked'[i] = parked[i]
      BY <2>1 DEF Without, Restrict
    <2>7. m.phase \in {"body", "cleanup", "over"} BY <2>4 DEF Machines
    <2>8. CASE m.phase = "over" BY <1>1, <1>3, <2>5, <2>6, <2>8 DEF Returns
    <2>9. CASE m.phase # "over"
      <3>1. Cancelled(vm[parked[id]]) => Cancelled(vm'[parked[id]])
        BY <2>3, <2>5, <2>9 DEF Follows
      <3>2. QED BY <1>1, <1>3, <2>3, <2>5, <2>6, <2>7, <2>9, <3>1 DEF Returns
    <2>10. QED BY <2>8, <2>9
  <1>4. QED BY <1>2, <1>3

\* The next caller of the chain is taken.
Resumes(id) ==
  /\ at = "retained" /\ stack # <<>> /\ held \in Records /\ held.resumers # <<>>
  /\ id \in DOMAIN suspended /\ suspended[id] \in Records
  /\ id = held.resumers[Len(held.resumers)]
  /\ held' \in Records /\ held'.owner = suspended[id].owner /\ ~held'.pending
  /\ held'.resumers = Front(held.resumers) \o suspended[id].resumers
  /\ DOMAIN suspended' = DOMAIN suspended \ {id}
  /\ \A i \in DOMAIN suspended \ {id} : suspended'[i] = suspended[i]
  /\ Returns(id, "start")
  /\ UNCHANGED <<active, ids, frozen, open, stack, used>>

LEMMA ResumerResumes ==
  ASSUME IInv, Resumer
  PROVE  \E id \in Ids : Resumes(id)
  <1> DEFINE id == Last(held.resumers)
  <1>1. /\ at = "retained" /\ held.resumers # <<>> /\ id \in DOMAIN suspended
        /\ held' = Inherit(suspended[id]) /\ suspended' = Without(suspended, id)
        /\ UNCHANGED <<active, ids, frozen, open, stack, used>>
        /\ IF ~Top.cancel THEN ReturnTo(id, outcome, "start")
           ELSE IF current # 0
           THEN at' = "end" /\ outcome' = "error" /\ UNCHANGED engine
           ELSE /\ parked' = Without(parked, id) /\ current' = parked[id] /\ value' = 0
                /\ at' = "start"
                /\ UNCHANGED <<vm, callee, outcome>>
    BY DEF Resumer, resources
  <1>2. held \in Records /\ suspended[id] \in Records /\ outcome \in {"ok", "error", "cancelled", "noted"}
    BY <1>1 DEF IInv, TypeInv, TypeOK
  <1>3. held.resumers \in Seq(Ids) /\ suspended[id].resumers \in Seq(Ids) BY <1>2 DEF Records
  <1>4. id = held.resumers[Len(held.resumers)] /\ id \in Ids BY <1>1, <1>3, FrontLast
  <1>5. ~suspended[id].pending
    <2>1. Len(held.resumers) \in 1..Len(held.resumers)
      BY <1>1, <1>3, FrontLast
    <2>2. id \in ToSet(Resumers(0)) BY <1>3, <1>4, <2>1 DEF ToSet, Resumers
    <2>3. Waiting(id) BY <2>2 DEF Waiting, Jobs
    <2>4. QED BY <1>1, <2>3 DEF IInv, AskInv
  <1> HIDE DEF id
  <1>6. /\ held' \in Records /\ held'.owner = suspended[id].owner /\ ~held'.pending
        /\ held'.resumers = Front(held.resumers) \o suspended[id].resumers
    <2> DEFINE chain == Front(held.resumers) \o suspended[id].resumers
    <2>1. chain \in Seq(Ids) BY <1>1, <1>3, ChainsJoined
    <2>2. held' = [suspended[id] EXCEPT !.resumers = chain] BY <1>1 DEF Inherit
    <2> HIDE DEF chain
    <2>3. QED BY <1>2, <1>5, <2>1, <2>2 DEF Records, chain
  <1>7. /\ DOMAIN suspended' = DOMAIN suspended \ {id}
        /\ \A i \in DOMAIN suspended \ {id} : suspended'[i] = suspended[i]
    BY <1>1 DEF Without, Restrict
  <1>8. Returns(id, "start")
    <2>1. CASE ~Top.cancel BY <1>1, <1>2, <2>1, ReturnToReturns
    <2>2. CASE Top.cancel
      <3>1. /\ id \in DOMAIN parked /\ parked[id] \in Entries
            /\ vm[parked[id]] \in Machines /\ vm[parked[id]].phase \in {"body", "cleanup"}
        BY <1>1 DEF IInv, HomeInv, TypeInv, TypeOK, Machines, Live, ToSet
      <3>2. /\ vm \in [Entries -> Machines] /\ callee \in [Entries -> 0..MaxEntries]
            /\ value \in 0..MaxEntries /\ 0 \in 0..MaxEntries
        BY BoundsNatural DEF IInv, TypeInv, TypeOK, Machines
      <3>3. CASE current # 0
        BY <1>1, <2>2, <3>1, <3>2, <3>3 DEF Returns, engine
      <3>4. CASE current = 0
        <4>1. /\ parked' = Without(parked, id) /\ current' = parked[id] /\ value' = 0
              /\ at' = "start" /\ vm' = vm /\ callee' = callee /\ outcome' = outcome
          BY <1>1, <2>2, <3>4
        <4>2. /\ DOMAIN parked' = DOMAIN parked \ {id}
              /\ \A i \in DOMAIN parked \ {id} : parked'[i] = parked[i]
          BY <4>1 DEF Without, Restrict
        <4>3. QED BY <1>2, <2>2, <3>1, <3>2, <3>4, <4>1, <4>2 DEF Returns
      <3>5. QED BY <3>3, <3>4
    <2>3. QED BY <2>1, <2>2
  <1>9. stack # <<>> BY <1>1 DEF IInv, StackInv
  <1>10. Resumes(id) BY <1>1, <1>2, <1>4, <1>6, <1>7, <1>8, <1>9 DEF Resumes
  <1>11. QED BY <1>4, <1>10

\* The caller of the innermost control.
LEMMA TheCaller ==
  ASSUME IInv, Len(stack) > 1
  PROVE  /\ stack # <<>> /\ Top = stack[Len(stack)] /\ Len(stack) \in Calls
         /\ Top.caller \in Callers /\ Top.caller \in DOMAIN suspended
         /\ Top.caller \in DOMAIN parked /\ Top.caller \in Ids /\ Top.id \in Ids
         /\ Top.id \notin Callers
         /\ \A i \in Calls : stack[i].caller = Top.caller => i = Len(stack)
         /\ vm[parked[Top.caller]].ask /\ ~suspended[Top.caller].pending
  <1>1. stack # <<>> BY EmptySeq DEF IInv, TypeInv
  <1>2. Top = stack[Len(stack)] /\ Len(stack) \in Nat /\ Top.id \in Ids /\ Top.caller \in Ids
    BY <1>1, Actives DEF IInv
  <1>3. Len(stack) \in Calls BY <1>2 DEF Calls
  <1>4. Top.caller \in Callers BY <1>2, <1>3 DEF Callers
  <1>5. /\ Top.caller \in DOMAIN suspended /\ Top.id \notin Callers
        /\ \A i \in Calls : stack[i].caller = Top.caller => i = Len(stack)
    BY <1>2, <1>3, <1>4 DEF IInv, ChainInv
  <1>6. vm[parked[Top.caller]].ask /\ ~suspended[Top.caller].pending
    BY <1>4, <1>5 DEF IInv, AskInv, Waiting
  <1>7. Top.caller \in DOMAIN parked BY <1>5 DEF IInv, HomeInv
  <1>8. QED BY <1>1, <1>2, <1>3, <1>4, <1>5, <1>6, <1>7

\* The job was stopped again: the caller is retained behind it.
Retains(job, caller) ==
  /\ at = "retained" /\ held.resumers = <<>> /\ Len(stack) > 1 /\ Leave
  /\ job = Top.id /\ caller = Top.caller
  /\ job \in DOMAIN suspended
  /\ DOMAIN suspended' = DOMAIN suspended /\ suspended'[job] \in Records
  /\ suspended[job] \in Records
  /\ suspended'[job].owner = suspended[job].owner
  /\ suspended'[job].pending = suspended[job].pending
  /\ suspended'[job].resumers = <<caller>> \o suspended[job].resumers
  /\ \A i \in DOMAIN suspended \ {job} : suspended'[i] = suspended[i]
  /\ at' = "drive"
  /\ UNCHANGED <<vm, current, value, parked, callee, held, ids, frozen, open, outcome, used>>

\* The job is over: the caller takes back what it owns, and is answered.
Returned(id) ==
  /\ at = "retained" /\ held.resumers = <<>> /\ Len(stack) > 1 /\ Leave
  /\ Top.id \notin DOMAIN suspended /\ id = Top.caller /\ id \in DOMAIN suspended
  /\ suspended[id] \in Records /\ held' = suspended[id]
  /\ DOMAIN suspended' = DOMAIN suspended \ {id}
  /\ \A i \in DOMAIN suspended \ {id} : suspended'[i] = suspended[i]
  /\ frozen' \in {frozen, frozen \ {held'.owner}}
  /\ used' \in Bounds /\ used'.entries = used.entries /\ used'.controls = used.controls
  /\ Sound' => Sound /\ frozen' = frozen \ {held'.owner}
  /\ Returns(id, "drive")
  /\ UNCHANGED <<ids, open>>

LEMMA Deep ==
  ASSUME IInv, at = "retained", Top.kind = "control"
  PROVE  Len(stack) > 1
  <1>1. stack # <<>> BY DEF IInv, StackInv
  <1>2. Len(stack) \in Nat /\ Len(stack) >= 1 /\ Len(stack) # 1 BY <1>1, Actives DEF IInv
  <1>3. \A n \in Nat : n >= 1 /\ n # 1 => n > 1 OBVIOUS
  <1>4. QED BY <1>2, <1>3

LEMMA StoppedAgainRetains ==
  ASSUME IInv, StoppedAgain
  PROVE  Retains(Top.id, Top.caller)
  <1>1. /\ at = "retained" /\ held.resumers = <<>> /\ Top.kind = "control"
        /\ Top.id \in DOMAIN suspended /\ Leave /\ at' = "drive"
        /\ suspended' = [suspended EXCEPT ![Top.id].resumers = <<Top.caller>> \o @]
        /\ UNCHANGED <<vm, current, value, parked, callee, held, ids, frozen, open, outcome, used>>
    BY DEF StoppedAgain, ChainOver, engine, resources
  <1>2. Len(stack) > 1 BY <1>1, Deep
  <1>3. Top.caller \in Ids BY <1>2, TheCaller
  <1>4. suspended[Top.id] \in Records BY <1>1 DEF IInv, TypeInv, TypeOK
  <1> DEFINE chain == <<Top.caller>> \o suspended[Top.id].resumers
             put == [suspended[Top.id] EXCEPT !.resumers = chain]
  <1>5. chain \in Seq(Ids) BY <1>3, <1>4, CallerBehind DEF Records
  <1> HIDE DEF chain
  <1>6. /\ put \in Records /\ put.owner = suspended[Top.id].owner
        /\ put.pending = suspended[Top.id].pending /\ put.resumers = chain
    BY <1>4, <1>5 DEF Records
  <1>7. suspended' = [suspended EXCEPT ![Top.id] = put] BY <1>1 DEF chain
  <1> HIDE DEF put
  <1>8. /\ DOMAIN suspended' = DOMAIN suspended /\ suspended'[Top.id] = put
        /\ \A i \in DOMAIN suspended \ {Top.id} : suspended'[i] = suspended[i]
    BY <1>1, <1>7
  <1>9. QED BY <1>1, <1>2, <1>4, <1>6, <1>8 DEF Retains, chain

LEMMA CalleeReturnedReturned ==
  ASSUME IInv, CalleeReturned
  PROVE  Returned(Top.caller)
  <1>1. /\ at = "retained" /\ held.resumers = <<>> /\ Top.kind = "control"
        /\ Top.id \notin DOMAIN suspended /\ Top.caller \in DOMAIN suspended /\ Leave
        /\ held' = suspended[Top.caller] /\ suspended' = Without(suspended, Top.caller)
        /\ UNCHANGED <<ids, open>>
    BY DEF CalleeReturned, ChainOver
  <1>2. Len(stack) > 1 BY <1>1, Deep
  <1>3. suspended[Top.caller] \in Records BY <1>1 DEF IInv, TypeInv, TypeOK
  <1>4. /\ DOMAIN suspended' = DOMAIN suspended \ {Top.caller}
        /\ \A i \in DOMAIN suspended \ {Top.caller} : suspended'[i] = suspended[i]
    BY <1>1 DEF Without, Restrict
  <1>5. ChainResult \in {"ok", "error", "cancelled", "noted"}
    BY DEF ChainResult, IInv, TypeInv, TypeOK
  <1>6. used \in Bounds BY DEF IInv, TypeInv, Bounds
  <1>7. CASE /\ frozen' = frozen \ {held'.owner} /\ used' = used
             /\ ReturnTo(Top.caller, ChainResult, "drive")
    <2>1. Returns(Top.caller, "drive") BY <1>1, <1>5, <1>7, ReturnToReturns
    <2>2. Sound' => Sound BY <1>7 DEF Sound
    <2>3. QED BY <1>1, <1>2, <1>3, <1>4, <1>6, <1>7, <2>1, <2>2 DEF Returned
  <1> DEFINE result == IF ChainResult = "ok" THEN "error" ELSE Joined(ChainResult, "error")
  <1>8. CASE /\ Uses("failures") /\ frozen' \in {frozen, frozen \ {held'.owner}}
             /\ ReturnTo(Top.caller, result, "drive")
    <2>1. Joined(ChainResult, "error") \in {"error", "noted", "cancelled"}
             \/ ChainResult = "ok"
      BY <1>5 DEF Joined
    <2>2. result \in {"ok", "error", "cancelled", "noted"} BY <2>1
    <2> HIDE DEF result
    <2>3. Returns(Top.caller, "drive") BY <1>1, <1>8, <2>2, ReturnToReturns
    <2>4. /\ used' \in Bounds /\ used'.entries = used.entries
          /\ used'.controls = used.controls /\ used'.failures = used.failures + 1
      BY <1>8, Counted DEF IInv, Bounds
    <2>5. ~Sound' BY <1>6, <2>4 DEF Sound, Bounds
    <2>6. QED BY <1>1, <1>2, <1>3, <1>4, <1>8, <2>3, <2>4, <2>5 DEF Returned
  <1>9. QED BY <1>7, <1>8 DEF CalleeReturned

\* Shutdown takes a parked evaluation to cancel it.
Cancels(id) ==
  /\ at = "shutdown" /\ current = 0 /\ stack = <<>> /\ active = <<>> /\ held = Nothing
  /\ id \in DOMAIN suspended /\ id \in Ids /\ suspended[id] \in Records
  /\ \A p \in DOMAIN suspended : id \notin ToSet(suspended[p].resumers)
  /\ DOMAIN parked' = DOMAIN parked \ {id}
  /\ \A i \in DOMAIN parked \ {id} : parked'[i] = parked[i]
  /\ DOMAIN suspended' = DOMAIN suspended \ {id}
  /\ \A i \in DOMAIN suspended \ {id} : suspended'[i] = suspended[i]
  /\ current' = parked[id] /\ value' = 0 /\ held' = suspended[id] /\ at' = "start"
  /\ stack' = <<Frame("shutdown", 0, id, TRUE)>>
  /\ UNCHANGED <<vm, callee, active, ids, frozen, open, outcome, used>>

LEMMA ShutdownCancels ==
  ASSUME IInv, ShutdownNext
  PROVE  \E id \in Ids : Cancels(id)
  <1>1. PICK id \in Controllable :
          /\ parked' = Without(parked, id) /\ current' = parked[id] /\ value' = 0
          /\ suspended' = Without(suspended, id) /\ held' = suspended[id]
          /\ stack' = <<Frame("shutdown", 0, id, TRUE)>>
    BY DEF ShutdownNext
  <1>2. /\ at = "shutdown" /\ current = 0 /\ at' = "start"
        /\ UNCHANGED <<vm, callee, active, ids, frozen, open, outcome, used>>
    BY DEF ShutdownNext, resources
  <1>3. stack = <<>> BY <1>2 DEF IInv, StackInv
  <1>4. active = <<>> BY <1>3, EmptySeq DEF IInv, StackInv, TypeInv, TypeOK
  <1>5. held = Nothing BY <1>3 DEF IInv, HeldInv
  <1>6. /\ id \in DOMAIN suspended
        /\ \A p \in DOMAIN suspended : id \notin ToSet(suspended[p].resumers)
    BY DEF Controllable, RetainedCaller
  <1>7. id \in Ids /\ suspended[id] \in Records BY <1>6 DEF IInv, TypeInv, TypeOK
  <1>8. /\ DOMAIN parked' = DOMAIN parked \ {id}
        /\ \A i \in DOMAIN parked \ {id} : parked'[i] = parked[i]
    BY <1>1 DEF Without, Restrict
  <1>9. /\ DOMAIN suspended' = DOMAIN suspended \ {id}
        /\ \A i \in DOMAIN suspended \ {id} : suspended'[i] = suspended[i]
    BY <1>1 DEF Without, Restrict
  <1>10. Cancels(id)
    BY <1>1, <1>2, <1>3, <1>4, <1>5, <1>6, <1>7, <1>8, <1>9 DEF Cancels
  <1>11. QED BY <1>7, <1>10

\* Every step: one that leaves the maps of parked evaluations, or a move.
Plain ==
  \/ \E m \in Machines : Goes(m)
  \/ \E release \in BOOLEAN : Evaluate(release)
  \/ Idle \/ Continue \/ Serve \/ (\E id \in Ids : ControlFails(id))
  \/ StartResumed \/ Finish \/ BeginShutdown \/ ShutdownReturns \/ ShutdownEnds
  \/ UNCHANGED vars

Moves ==
  \/ \E id \in Ids : Parks(id) \/ Resumes(id) \/ Returned(id) \/ Cancels(id)
  \/ \E id \in Ids, pid \in Ids, cancel \in BOOLEAN : Controlled(id, pid, cancel)
  \/ \E job \in Ids, caller \in Ids : Retains(job, caller)

LEMMA Steps ==
  ASSUME IInv, [Next]_vars
  PROVE  Plain \/ Moves
  <1>1. CASE Park
    <2>1. Parks(ParkingId) BY <1>1, ParkParks
    <2>2. QED BY <2>1 DEF Parks, Moves
  <1>2. CASE \E id \in Ids : \E cancel \in BOOLEAN : Controls(id, cancel)
    <2>1. PICK id \in Ids : \E cancel \in BOOLEAN : Controls(id, cancel) BY <1>2
    <2>2. PICK cancel \in BOOLEAN : Controls(id, cancel) BY <2>1
    <2>3. Controlled(id, ParkingId, cancel) BY <2>2, ControlsControlled
    <2>4. ParkingId \in Ids BY <2>3 DEF Controlled
    <2>5. QED BY <2>3, <2>4 DEF Moves
  <1>3. CASE Resumer BY <1>3, ResumerResumes DEF Moves
  <1>4. CASE StoppedAgain
    <2>1. Retains(Top.id, Top.caller) BY <1>4, StoppedAgainRetains
    <2>2. Top.id \in Ids /\ Top.caller \in Ids BY <2>1, TheCaller DEF Retains
    <2>3. QED BY <2>1, <2>2 DEF Moves
  <1>5. CASE CalleeReturned
    <2>1. Returned(Top.caller) BY <1>5, CalleeReturnedReturned
    <2>2. Top.caller \in Ids BY <2>1, TheCaller DEF Returned
    <2>3. QED BY <2>1, <2>2 DEF Moves
  <1>6. CASE ShutdownNext BY <1>6, ShutdownCancels DEF Moves
  <1>7. QED BY <1>1, <1>2, <1>3, <1>4, <1>5, <1>6, StepKinds DEF Plain

-----------------------------------------------------------------------------
(* Plain steps *)

\* The chains of resumers, the open calls and who waits in them stay.
SameChains ==
  /\ suspended' = suspended /\ held'.resumers = held.resumers
  /\ Calls' = Calls
  /\ \A i \in Calls : stack'[i].caller = stack[i].caller /\ stack'[i].id = stack[i].id
  /\ Len(stack') > 1 <=> Len(stack) > 1
  /\ Len(stack) > 1 => Top'.id = Top.id

LEMMA ChainsKept ==
  ASSUME IInv, SameChains
  PROVE  /\ Callers' = Callers /\ Jobs' = Jobs
         /\ \A p : Resumers(p)' = Resumers(p)
         /\ \A id : Waiting(id)' <=> Waiting(id)
         /\ ChainInv' /\ AcyclicInv'
  <1>1. Callers' = Callers BY DEF Callers, SameChains
  <1>2. Jobs' = Jobs BY DEF Jobs, SameChains
  <1>3. \A p : Resumers(p)' = Resumers(p) BY DEF Resumers, SameChains
  <1>4. \A id : Waiting(id)' <=> Waiting(id) BY <1>1, <1>2, <1>3 DEF Waiting
  <1>5. ChainInv' BY <1>1, <1>2, <1>3 DEF IInv, ChainInv, SameChains
  <1>6. \A p, id : Before(p, id)' <=> Before(p, id) BY DEF Before, SameChains
  <1>7. AcyclicInv' BY <1>6 DEF IInv, AcyclicInv
  <1>8. QED BY <1>1, <1>2, <1>3, <1>4, <1>5, <1>7

LEMMA QuietChains ==
  ASSUME IInv, SameCalls, stack' \in Seq(Frames), UNCHANGED <<suspended, active>>,
         held'.resumers = held.resumers,
         at \in {"prompt", "shutdown", "ended"} <=> at' \in {"prompt", "shutdown", "ended"}
  PROVE  SameChains /\ StackInv' /\ active' \in Seq(Ids)
  <1>1. /\ StackInv' /\ Calls' = Calls
        /\ stack # <<>> => Top'.id = Top.id
    BY QuietStack DEF IInv
  <1>2. \A i \in Calls : stack'[i].caller = stack[i].caller /\ stack'[i].id = stack[i].id
    <2>1. Calls \subseteq 1..Len(stack) BY LenProperties DEF Calls, IInv, TypeInv
    <2>2. QED BY <2>1 DEF SameCalls
  <1>3. Len(stack') > 1 <=> Len(stack) > 1 BY DEF SameCalls
  <1>4. Len(stack) > 1 => stack # <<>> BY EmptySeq DEF IInv, TypeInv
  <1>5. active' \in Seq(Ids) BY DEF IInv, TypeInv, TypeOK
  <1>6. QED BY <1>1, <1>2, <1>3, <1>4, <1>5 DEF SameChains

LEMMA EmptyStack ==
  ASSUME IInv
  PROVE  /\ stack = <<>> => Len(stack) = 0 /\ Calls = {} /\ active = <<>> /\ held = Nothing
         /\ Len(stack) = 1 => Calls = {} /\ active = <<>>
  <1>1. stack = <<>> => Len(stack) = 0 OBVIOUS
  <1>2. active \in Seq(Ids) /\ Len(active) = IF stack = <<>> THEN 0 ELSE 2 * (Len(stack) - 1)
    BY DEF IInv, TypeInv, TypeOK, StackInv
  <1>3. ASSUME stack = <<>> \/ Len(stack) = 1
        PROVE  Len(active) = 0 /\ Calls = {}
    <2>1. PICK n \in Nat : n = Len(stack) BY LenProperties DEF IInv, TypeInv
    <2>2. n = 0 \/ n = 1 BY <1>1, <1>3, <2>1
    <2>3. 2..n = {} BY <2>2
    <2>4. Calls = {} BY <2>1, <2>3 DEF Calls
    <2>5. CASE stack = <<>> BY <1>2, <2>4, <2>5
    <2>6. CASE stack # <<>> /\ n = 1
      <3>1. Len(active) = 2 * (n - 1) BY <1>2, <2>1, <2>6
      <3>2. 2 * (n - 1) = 0 BY <2>6
      <3>3. QED BY <2>4, <3>1, <3>2
    <2>7. QED BY <1>3, <2>1, <2>5, <2>6
  <1>4. stack = <<>> => held = Nothing BY DEF IInv, HeldInv
  <1>5. QED BY <1>1, <1>2, <1>3, <1>4, EmptySeq

LEMMA PlainChains ==
  ASSUME IInv, Plain
  PROVE  SameChains /\ stack' \in Seq(Frames) /\ StackInv' /\ active' \in Seq(Ids)
  <1>0. stack = <<>> <=> at \in {"prompt", "shutdown", "ended"} BY DEF IInv, StackInv
  <1>1. stack' = stack => SameCalls /\ stack' \in Seq(Frames)
    BY DEF SameCalls, IInv, TypeInv
  <1>2. CASE \E m \in Machines : Goes(m)
    <2> PICK m \in Machines : Goes(m) BY <1>2
    <2>1. /\ at \in {"drive", "service", "start"} /\ at' \in {"drive", "end"}
          /\ stack' \in Seq(Frames) /\ SameCalls /\ UNCHANGED <<suspended, active>>
          /\ held' \in {held, [held EXCEPT !.pending = FALSE]}
      BY DEF Goes, Becomes
    <2>2. held \in Records BY DEF IInv, TypeInv, TypeOK
    <2>3. held'.resumers = held.resumers BY <2>1, <2>2 DEF Records
    <2>4. QED BY <2>1, <2>3, QuietChains
  <1>3. ASSUME NEW release \in BOOLEAN, Evaluate(release)
        PROVE  SameChains /\ stack' \in Seq(Frames) /\ StackInv' /\ active' \in Seq(Ids)
    <2>1. CASE current = 0
      <3>1. /\ at = "prompt" /\ at' = "drive" /\ stack' = <<Frame("entry", 0, 0, FALSE)>>
            /\ held' = [held EXCEPT !.owner = used.entries + 1]
            /\ UNCHANGED <<suspended, active>>
        BY <1>3, <2>1 DEF Evaluate
      <3>2. stack = <<>> BY <1>0, <3>1
      <3>3. Len(stack) = 0 /\ Calls = {} /\ active = <<>> /\ held = Nothing
        BY <3>2, EmptyStack
      <3>4. held'.resumers = held.resumers BY <3>1, <3>3 DEF Nothing
      <3>5. /\ Frame("entry", 0, 0, FALSE) \in Frames /\ Frame("entry", 0, 0, FALSE).kind = "entry"
        BY BoundsNatural DEF Frame, Frames
      <3>6. stack' \in Seq(Frames) /\ Len(stack') = 1 /\ Calls' = {} /\ StackInv'
        BY <3>1, <3>3, <3>5, OneFrame
      <3>7. active' \in Seq(Ids) BY <3>1, <3>3
      <3>8. ~(Len(stack) > 1) /\ ~(Len(stack') > 1) BY <3>3, <3>6
      <3>9. SameChains BY <3>1, <3>3, <3>4, <3>6, <3>8 DEF SameChains
      <3>10. QED BY <3>6, <3>7, <3>9
    <2>2. CASE current # 0
      <3>1. UNCHANGED <<held, stack, at, suspended, active>> BY <1>3, <2>2 DEF Evaluate
      <3>2. QED BY <1>1, <3>1, QuietChains
    <2>3. QED BY <2>1, <2>2
  <1>4. CASE Idle \/ BeginShutdown \/ ShutdownEnds \/ UNCHANGED vars
    <2>1. /\ UNCHANGED <<held, stack, suspended, active>>
          /\ at \in {"prompt", "shutdown", "ended"} <=> at' \in {"prompt", "shutdown", "ended"}
      BY <1>4 DEF Idle, BeginShutdown, ShutdownEnds, vars, session, coordinator
    <2>2. QED BY <1>1, <2>1, QuietChains
  <1>5. CASE Continue
    <2>1. /\ UNCHANGED <<stack, suspended, active>> /\ held' = [held EXCEPT !.pending = FALSE]
          /\ at = "drive" /\ at' = "service"
      BY <1>5 DEF Continue
    <2>2. held \in Records BY DEF IInv, TypeInv, TypeOK
    <2>3. held'.resumers = held.resumers BY <2>1, <2>2 DEF Records
    <2>4. QED BY <1>1, <2>1, <2>3, QuietChains
  <1>6. CASE Serve \/ \E id \in Ids : ControlFails(id)
    <2>1. /\ UNCHANGED <<held, stack, suspended, active>>
          /\ at = "drive" /\ at' \in {"service", "end"}
      BY <1>6 DEF Serve, ControlFails, Accepted, Runs, Driving, session
    <2>2. QED BY <1>1, <2>1, QuietChains
  <1>7. CASE StartResumed
    <2>1. /\ UNCHANGED <<held, suspended, active>> /\ NewSegment
          /\ at = "start" /\ at' = "drive"
      BY <1>7 DEF StartResumed, session
    <2>2. stack # <<>> /\ stack \in Seq(Frames) BY <1>0, <2>1 DEF IInv, TypeInv
    <2>3. Top \in Frames BY <2>2, FrontLast DEF Top
    <2>4. stack' \in Seq(Frames) /\ SameCalls
      <3>1. [Top EXCEPT !.stopping = FALSE] \in Frames BY <2>3 DEF Frames
      <3>2. stack' = WithTop([Top EXCEPT !.stopping = FALSE]) BY <2>1 DEF NewSegment
      <3>3. QED BY <2>2, <2>3, <3>1, <3>2, ReplacedTop DEF Frames
    <2>5. QED BY <2>1, <2>4, QuietChains
  <1>8. CASE Finish
    <2>1. /\ at = "end" /\ UNCHANGED <<suspended, active>> /\ held' = [held EXCEPT !.owner = 0]
      BY <1>8 DEF Finish
    <2>2. stack # <<>> /\ stack \in Seq(Frames) /\ held \in Records
      BY <1>0, <2>1 DEF IInv, TypeInv, TypeOK
    <2>3. Top \in Frames BY <2>2, FrontLast DEF Top
    <2>4. held'.resumers = held.resumers BY <2>1, <2>2 DEF Records
    <2>5. CASE Top.kind = "entry"
      <3>1. stack' = <<>> /\ at' = "prompt" BY <1>8, <2>5 DEF Finish
      <3>2. Len(stack) = 1 BY <2>2, <2>5, Actives DEF IInv
      <3>3. Calls = {} /\ active = <<>> BY <3>2, EmptyStack
      <3>4. stack' \in Seq(Frames) /\ Calls' = {} /\ StackInv' BY <2>1, <3>1, <3>3, NoFrame
      <3>5. active' \in Seq(Ids) /\ Len(stack') = 0 BY <2>1, <3>1, <3>3
      <3>6. QED BY <2>1, <2>4, <3>2, <3>3, <3>4, <3>5 DEF SameChains
    <2>6. CASE Top.kind # "entry"
      <3> DEFINE fails == Top.failed \/ (Top.cancel /\ SegmentResult # "ok")
      <3>1. stack' = WithTop([Top EXCEPT !.failed = fails]) /\ at' = "retained"
        BY <1>8, <2>6 DEF Finish
      <3>2. fails \in BOOLEAN OBVIOUS
      <3> HIDE DEF fails
      <3>3. [Top EXCEPT !.failed = fails] \in Frames BY <2>3, <3>2 DEF Frames
      <3>4. stack' \in Seq(Frames) /\ SameCalls
        BY <2>2, <2>3, <3>1, <3>3, ReplacedTop DEF Frames
      <3>5. QED BY <2>1, <2>4, <3>1, <3>4, QuietChains
    <2>7. QED BY <2>5, <2>6
  <1>9. CASE ShutdownReturns
    <2>1. /\ at = "retained" /\ Top.kind = "shutdown" /\ UNCHANGED <<held, suspended, active>>
          /\ stack' = <<>> /\ at' = "shutdown"
      BY <1>9 DEF ShutdownReturns, ChainOver, session
    <2>2. stack # <<>> BY <1>0, <2>1
    <2>3. Len(stack) = 1 BY <2>1, <2>2, Actives DEF IInv
    <2>4. Calls = {} /\ active = <<>> BY <2>3, EmptyStack
    <2>5. stack' \in Seq(Frames) /\ Calls' = {} /\ StackInv' BY <2>1, <2>4, NoFrame
    <2>6. active' \in Seq(Ids) /\ Len(stack') = 0 BY <2>1, <2>4
    <2>7. QED BY <2>1, <2>3, <2>4, <2>5, <2>6 DEF SameChains
  <1>10. QED BY <1>2, <1>3, <1>4, <1>5, <1>6, <1>7, <1>8, <1>9 DEF Plain

-----------------------------------------------------------------------------
(* The chains of resumers under the moves *)

LEMMA ChainFacts ==
  ASSUME IInv
  PROVE  /\ 0 \in Jobs /\ 0 \notin DOMAIN suspended
         /\ \A p \in Jobs : /\ Resumers(p) \in Seq(Ids) /\ Len(Resumers(p)) \in Nat
                            /\ \A x : x \in ToSet(Resumers(p)) <=>
                                 \E i \in 1..Len(Resumers(p)) : Resumers(p)[i] = x
                            /\ ToSet(Resumers(p)) \subseteq DOMAIN suspended \ Callers
         /\ \A p, q \in Jobs : \A x \in ToSet(Resumers(p)) : x \in ToSet(Resumers(q)) => p = q
         /\ Callers \subseteq DOMAIN suspended
  <1>1. 0 \in Jobs /\ 0 \notin DOMAIN suspended
    BY BoundsNatural DEF Jobs, IInv, TypeInv, TypeOK, Ids
  <1>2. ASSUME NEW p \in Jobs
        PROVE  /\ Resumers(p) \in Seq(Ids) /\ Len(Resumers(p)) \in Nat
               /\ \A x : x \in ToSet(Resumers(p)) <=>
                    \E i \in 1..Len(Resumers(p)) : Resumers(p)[i] = x
    <2>1. Resumers(p) \in Seq(Ids)
      BY <1>2 DEF Jobs, Resumers, IInv, TypeInv, TypeOK, Records
    <2>2. Len(Resumers(p)) \in Nat /\ DOMAIN Resumers(p) = 1..Len(Resumers(p)) BY <2>1
    <2>3. QED BY <2>1, <2>2 DEF ToSet
  <1>3. /\ \A p \in Jobs : ToSet(Resumers(p)) \subseteq DOMAIN suspended \ Callers
        /\ \A p, q \in Jobs : \A x \in ToSet(Resumers(p)) : x \in ToSet(Resumers(q)) => p = q
        /\ Callers \subseteq DOMAIN suspended
    BY <1>2 DEF IInv, ChainInv
  <1>4. QED BY <1>1, <1>2, <1>3

LEMMA ParksChains ==
  ASSUME IInv, NEW id \in Ids, Parks(id)
  PROVE  /\ Jobs' = Jobs \cup {id} /\ Callers' = Callers /\ Calls' = Calls
         /\ Resumers(0)' = <<>> /\ Resumers(id)' = held.resumers
         /\ \A p \in DOMAIN suspended : Resumers(p)' = Resumers(p)
         /\ \A x : Waiting(x)' <=> Waiting(x)
         /\ stack' \in Seq(Frames) /\ active' \in Seq(Ids) /\ StackInv'
         /\ ChainInv'
  <1>1. /\ DOMAIN suspended' = DOMAIN suspended \cup {id}
        /\ suspended'[id].resumers = held.resumers
        /\ \A i \in DOMAIN suspended : suspended'[i] = suspended[i]
        /\ held' = Nothing /\ stack' = stack /\ active' = active
        /\ id # 0 /\ id \notin DOMAIN suspended /\ id \notin Callers
        /\ at' = "end" /\ stack # <<>>
        /\ id = IF Len(stack) = 1 THEN ids + 1 ELSE Top.id
    BY DEF Parks
  <1>2. Jobs' = Jobs \cup {id} BY <1>1 DEF Jobs
  <1>3. Calls' = Calls /\ Callers' = Callers BY <1>1 DEF Calls, Callers
  <1>4. Resumers(0)' = <<>> BY <1>1 DEF Resumers, Nothing
  <1>5. Resumers(id)' = held.resumers BY <1>1 DEF Resumers
  <1>6. \A p \in DOMAIN suspended : Resumers(p)' = Resumers(p)
    BY <1>1, ChainFacts DEF Resumers
  <1>7. Resumers(0) = held.resumers BY DEF Resumers
  <1>8. \A x : Waiting(x)' <=> Waiting(x)
    <2>1. ToSet(Resumers(0)') = {} BY <1>4 DEF ToSet
    <2>2. \A x : (\E p \in Jobs' : x \in ToSet(Resumers(p)')) <=> \E p \in Jobs : x \in ToSet(Resumers(p))
      BY <1>2, <1>5, <1>6, <1>7, <2>1, ChainFacts DEF Jobs
    <2>3. QED BY <1>3, <2>2 DEF Waiting
  <1>9. stack' \in Seq(Frames) /\ active' \in Seq(Ids)
    BY <1>1 DEF IInv, TypeInv, TypeOK
  <1>10. StackInv' BY <1>1, <1>3 DEF IInv, StackInv
  <1>11. ChainInv'
    <2>1. ASSUME NEW p \in Jobs', NEW i \in 1..Len(Resumers(p)')
          PROVE  \E r \in Jobs : /\ Resumers(p)' = Resumers(r) /\ i \in 1..Len(Resumers(r))
                                 /\ p # 0 /\ p = IF r = 0 THEN id ELSE r
      <3>1. p # 0 BY <1>4, <2>1
      <3>2. CASE p = id BY <1>1, <1>5, <1>7, <2>1, <3>1, <3>2, ChainFacts
      <3>3. CASE p # id
        <4>1. p \in DOMAIN suspended /\ p \in Jobs BY <1>2, <2>1, <3>1, <3>3 DEF Jobs
        <4>2. QED BY <1>6, <2>1, <3>1, <4>1
      <3>4. QED BY <3>2, <3>3
    <2>2. ASSUME NEW p \in Jobs', NEW q \in Jobs', NEW i \in 1..Len(Resumers(p)'),
                 NEW j \in 1..Len(Resumers(q)'), Resumers(p)'[i] = Resumers(q)'[j]
          PROVE  p = q /\ i = j
      <3>1. PICK r \in Jobs : /\ Resumers(p)' = Resumers(r) /\ i \in 1..Len(Resumers(r))
                              /\ p # 0 /\ p = IF r = 0 THEN id ELSE r
        BY <2>1, <2>2
      <3>2. PICK t \in Jobs : /\ Resumers(q)' = Resumers(t) /\ j \in 1..Len(Resumers(t))
                              /\ q # 0 /\ q = IF t = 0 THEN id ELSE t
        BY <2>1, <2>2
      <3>3. Resumers(r)[i] = Resumers(t)[j] BY <2>2, <3>1, <3>2
      <3>4. r = t /\ i = j BY <3>1, <3>2, <3>3 DEF IInv, ChainInv
      <3>5. QED BY <3>1, <3>2, <3>4
    <2>3. ASSUME NEW p \in Jobs', NEW i \in 1..Len(Resumers(p)')
          PROVE  Resumers(p)'[i] \in DOMAIN suspended' \ Callers'
      <3>1. PICK r \in Jobs : /\ Resumers(p)' = Resumers(r) /\ i \in 1..Len(Resumers(r))
                              /\ p # 0 /\ p = IF r = 0 THEN id ELSE r
        BY <2>1, <2>3
      <3>2. Resumers(r)[i] \in DOMAIN suspended \ Callers BY <3>1 DEF IInv, ChainInv
      <3>3. QED BY <1>1, <1>3, <3>1, <3>2
    <2>4. /\ Callers' \subseteq DOMAIN suspended'
          /\ \A i, j \in Calls' : stack'[i].caller = stack'[j].caller => i = j
          /\ Len(stack') > 1 => Top'.id \notin Callers'
      BY <1>1, <1>3 DEF IInv, ChainInv, Top
    <2>5. QED BY <2>2, <2>3, <2>4 DEF ChainInv
  <1>12. QED BY <1>2, <1>3, <1>4, <1>5, <1>6, <1>8, <1>9, <1>10, <1>11

LEMMA ControlledChains ==
  ASSUME IInv, NEW id \in Ids, NEW pid \in Ids, NEW cancel \in BOOLEAN,
         Controlled(id, pid, cancel)
  PROVE  /\ Jobs' = (Jobs \cup {pid}) \ {id} /\ Callers' = Callers \cup {pid}
         /\ Calls' = Calls \cup {Len(stack) + 1} /\ Len(stack) + 1 \notin Calls
         /\ Resumers(0)' = Resumers(id) /\ Resumers(pid)' = Resumers(0)
         /\ \A p \in DOMAIN suspended \ {id} : Resumers(p)' = Resumers(p)
         /\ \A x : Waiting(x)' <=> Waiting(x) \/ x = pid
         /\ ChainInv'
  <1>1. /\ DOMAIN suspended' = (DOMAIN suspended \cup {pid}) \ {id} /\ suspended'[pid] = held
        /\ \A i \in DOMAIN suspended \ {id} : suspended'[i] = suspended[i]
        /\ held' = suspended[id] /\ id # 0 /\ id \in DOMAIN suspended /\ id # pid /\ id \notin Callers
        /\ \A p \in Jobs : id \notin ToSet(Resumers(p))
        /\ pid # 0 /\ pid \notin DOMAIN suspended /\ pid \notin Callers
        /\ Callers' = Callers \cup {pid}
        /\ Len(stack') = Len(stack) + 1
        /\ \A i \in 1..Len(stack) : stack'[i] = stack[i]
        /\ stack # <<>>
    BY DEF Controlled
  <1>2. PICK n \in Nat : n = Len(stack) /\ n >= 1
    BY <1>1, LenProperties, EmptySeq DEF IInv, TypeInv
  <1>3. Calls' = Calls \cup {n + 1} /\ n + 1 \notin Calls /\ Calls \subseteq 1..n
    BY <1>1, <1>2 DEF Calls
  <1>4. Jobs' = (Jobs \cup {pid}) \ {id} BY <1>1 DEF Jobs
  <1>5. Resumers(0)' = Resumers(id) BY <1>1 DEF Resumers
  <1>6. Resumers(pid)' = Resumers(0) BY <1>1 DEF Resumers
  <1>7. \A p \in DOMAIN suspended \ {id} : Resumers(p)' = Resumers(p)
    BY <1>1, ChainFacts DEF Resumers
  <1>8. \A x : Waiting(x)' <=> Waiting(x) \/ x = pid
    <2>1. \A x : (\E p \in Jobs' : x \in ToSet(Resumers(p)')) <=> \E p \in Jobs : x \in ToSet(Resumers(p))
      <3>1. \A p \in Jobs' : \E q \in Jobs : Resumers(p)' = Resumers(q)
        BY <1>1, <1>4, <1>5, <1>6, <1>7, ChainFacts DEF Jobs
      <3>2. \A q \in Jobs : \E p \in Jobs' : Resumers(p)' = Resumers(q)
        BY <1>1, <1>4, <1>5, <1>6, <1>7, ChainFacts DEF Jobs
      <3>3. QED BY <3>1, <3>2
    <2>2. QED BY <1>1, <2>1 DEF Waiting
  <1>9. ChainInv'
    <2>1. ASSUME NEW p \in Jobs', NEW i \in 1..Len(Resumers(p)')
          PROVE  \E r \in Jobs : /\ Resumers(p)' = Resumers(r) /\ i \in 1..Len(Resumers(r))
                                 /\ p = IF r = 0 THEN pid ELSE IF r = id THEN 0 ELSE r
      <3>1. CASE p = pid BY <1>1, <1>6, <2>1, <3>1, ChainFacts
      <3>2. CASE p = 0 BY <1>1, <1>5, <2>1, <3>2 DEF Jobs
      <3>3. CASE p # pid /\ p # 0
        <4>1. p \in DOMAIN suspended \ {id} /\ p \in Jobs BY <1>4, <2>1, <3>3 DEF Jobs
        <4>2. QED BY <1>7, <2>1, <3>3, <4>1
      <3>4. QED BY <3>1, <3>2, <3>3
    <2>2. ASSUME NEW p \in Jobs', NEW q \in Jobs', NEW i \in 1..Len(Resumers(p)'),
                 NEW j \in 1..Len(Resumers(q)'), Resumers(p)'[i] = Resumers(q)'[j]
          PROVE  p = q /\ i = j
      <3>1. PICK r \in Jobs : /\ Resumers(p)' = Resumers(r) /\ i \in 1..Len(Resumers(r))
                              /\ p = IF r = 0 THEN pid ELSE IF r = id THEN 0 ELSE r
        BY <2>1, <2>2
      <3>2. PICK t \in Jobs : /\ Resumers(q)' = Resumers(t) /\ j \in 1..Len(Resumers(t))
                              /\ q = IF t = 0 THEN pid ELSE IF t = id THEN 0 ELSE t
        BY <2>1, <2>2
      <3>3. Resumers(r)[i] = Resumers(t)[j] BY <2>2, <3>1, <3>2
      <3>4. r = t /\ i = j BY <3>1, <3>2, <3>3 DEF IInv, ChainInv
      <3>5. QED BY <3>1, <3>2, <3>4
    <2>3. ASSUME NEW p \in Jobs', NEW i \in 1..Len(Resumers(p)')
          PROVE  Resumers(p)'[i] \in DOMAIN suspended' \ Callers'
      <3>1. PICK r \in Jobs : Resumers(p)' = Resumers(r) /\ i \in 1..Len(Resumers(r))
        BY <2>1, <2>3
      <3>2. Resumers(r)[i] \in DOMAIN suspended \ Callers BY <3>1 DEF IInv, ChainInv
      <3>3. Resumers(r)[i] \in ToSet(Resumers(r)) BY <3>1, ChainFacts
      <3>4. Resumers(r)[i] # id /\ Resumers(r)[i] # pid BY <1>1, <3>2, <3>3
      <3>5. QED BY <1>1, <3>1, <3>2, <3>4
    <2>4. Callers' \subseteq DOMAIN suspended' BY <1>1, ChainFacts
    <2>5. ASSUME NEW i \in Calls', NEW j \in Calls', stack'[i].caller = stack'[j].caller
          PROVE  i = j
      <3>1. stack'[n + 1].caller = pid BY <1>2 DEF Controlled, Frame
      <3>2. \A k \in Calls : stack'[k].caller = stack[k].caller /\ stack[k].caller \in Callers
        BY <1>1, <1>2, <1>3 DEF Callers
      <3>3. CASE i = n + 1 /\ j = n + 1 BY <3>3
      <3>4. CASE i \in Calls /\ j = n + 1 BY <1>1, <2>5, <3>1, <3>2, <3>4
      <3>5. CASE j \in Calls /\ i = n + 1 BY <1>1, <2>5, <3>1, <3>2, <3>5
      <3>6. CASE i \in Calls /\ j \in Calls BY <2>5, <3>2, <3>6 DEF IInv, ChainInv
      <3>7. QED BY <1>3, <3>3, <3>4, <3>5, <3>6
    <2>6. Top'.id \notin Callers'
      <3>1. Top'.id = id BY DEF Controlled, Frame
      <3>2. QED BY <1>1, <3>1
    <2>7. QED BY <2>2, <2>3, <2>4, <2>5, <2>6 DEF ChainInv
  <1>10. QED BY <1>1, <1>2, <1>3, <1>4, <1>5, <1>6, <1>7, <1>8, <1>9

LEMMA RetainsChains ==
  ASSUME IInv, NEW job \in Ids, NEW c \in Ids, Retains(job, c)
  PROVE  /\ Jobs' = Jobs /\ Callers' = Callers \ {c}
         /\ Resumers(job)' = <<c>> \o Resumers(job)
         /\ \A p \in Jobs \ {job} : Resumers(p)' = Resumers(p)
         /\ \A x : Waiting(x)' <=> Waiting(x)
         /\ stack' \in Seq(Frames) /\ active' \in Seq(Ids) /\ StackInv'
         /\ ChainInv'
  <1>1. /\ held' = held /\ Len(stack) > 1 /\ Leave /\ at' = "drive"
        /\ job \in DOMAIN suspended /\ DOMAIN suspended' = DOMAIN suspended
        /\ suspended'[job].resumers = <<c>> \o suspended[job].resumers
        /\ \A i \in DOMAIN suspended \ {job} : suspended'[i] = suspended[i]
        /\ job = Top.id /\ c = Top.caller
    BY DEF Retains
  <1>2. /\ Len(stack) \in Calls /\ c \in Callers /\ c \in DOMAIN suspended /\ c \in Ids
        /\ Top = stack[Len(stack)]
        /\ \A i \in Calls : stack[i].caller = c => i = Len(stack)
    BY <1>1, TheCaller
  <1>3. /\ stack' \in Seq(Frames) /\ stack' # <<>> /\ Len(stack') = Len(stack) - 1
        /\ \A i \in 1..(Len(stack) - 1) : stack'[i] = stack[i]
        /\ Calls' \subseteq Calls /\ \A i \in Calls : i \in Calls' <=> i # Len(stack)
        /\ active' \in Seq(Ids)
        /\ Len(stack) > 2 => Top'.id = Top.caller
        /\ StackInv'
    BY <1>1, LeavePops DEF IInv
  <1>4. \A i \in Calls' : stack'[i] = stack[i]
    <2>1. PICK n \in Nat : n = Len(stack) BY LenProperties DEF IInv, TypeInv
    <2>2. \A i \in Calls' : i \in 1..(n - 1) BY <1>3, <2>1 DEF Calls
    <2>3. QED BY <1>3, <2>1, <2>2
  <1>5. Callers' = Callers \ {c}
    <2>1. \A i \in Calls' : stack[i].caller # c BY <1>2, <1>3
    <2>2. \A i \in Calls : stack[i].caller # c => i \in Calls' BY <1>1, <1>2, <1>3
    <2>3. QED BY <1>3, <1>4, <2>1, <2>2 DEF Callers
  <1>6. Jobs' = Jobs BY <1>1 DEF Jobs
  <1>7. job # 0 /\ job \in Jobs BY <1>1, ChainFacts DEF Jobs
  <1>8. Resumers(job)' = <<c>> \o Resumers(job) BY <1>1, <1>7 DEF Resumers
  <1>9. \A p \in Jobs \ {job} : Resumers(p)' = Resumers(p)
    BY <1>1, ChainFacts DEF Jobs, Resumers
  <1>10. /\ Resumers(job) \in Seq(Ids) /\ Len(Resumers(job)) \in Nat
         /\ Resumers(job)' \in Seq(Ids) /\ Len(Resumers(job)') = Len(Resumers(job)) + 1
         /\ Resumers(job)'[1] = c
         /\ \A i \in 1..Len(Resumers(job)) : Resumers(job)'[i + 1] = Resumers(job)[i]
    <2>1. Resumers(job) \in Seq(Ids) /\ Len(Resumers(job)) \in Nat BY <1>7, ChainFacts
    <2>2. QED BY <1>2, <1>8, <2>1, CallerBehind
  <1>11. ASSUME NEW p \in Jobs', NEW i \in 1..Len(Resumers(p)')
         PROVE  \/ p = job /\ i = 1 /\ Resumers(p)'[i] = c
                \/ p = job /\ i - 1 \in 1..Len(Resumers(p)) /\ Resumers(p)'[i] = Resumers(p)[i - 1]
                \/ p # job /\ i \in 1..Len(Resumers(p)) /\ Resumers(p)'[i] = Resumers(p)[i]
    <2>1. CASE p = job
      <3>1. CASE i = 1 BY <1>10, <2>1, <3>1
      <3>2. CASE i # 1
        <4>1. i - 1 \in 1..Len(Resumers(job)) /\ i - 1 + 1 = i BY <1>10, <1>11, <2>1, <3>2
        <4>2. QED BY <1>10, <2>1, <4>1
      <3>3. QED BY <3>1, <3>2
    <2>2. CASE p # job BY <1>6, <1>9, <1>11, <2>2
    <2>3. QED BY <2>1, <2>2
  <1>12. \A p \in Jobs : \A k \in 1..Len(Resumers(p)) :
           Resumers(p)[k] \in DOMAIN suspended \ Callers /\ Resumers(p)[k] # c
    BY <1>2 DEF IInv, ChainInv
  <1>13. \A x : Waiting(x)' <=> Waiting(x)
    <2>1. ToSet(Resumers(job)') = {c} \cup ToSet(Resumers(job))
      <3>1. DOMAIN Resumers(job)' = 1..Len(Resumers(job)) + 1
        <4>1. DOMAIN Resumers(job)' = 1..Len(Resumers(job)') BY <1>10
        <4>2. QED BY <1>10, <4>1
      <3>2. ToSet(Resumers(job)') = {Resumers(job)'[i] : i \in 1..Len(Resumers(job)) + 1}
        BY <3>1 DEF ToSet
      <3>3. ASSUME NEW x \in ToSet(Resumers(job)') PROVE x \in {c} \cup ToSet(Resumers(job))
        <4>1. PICK i \in 1..Len(Resumers(job)) + 1 : x = Resumers(job)'[i] BY <3>2, <3>3
        <4>2. \/ i = 1
              \/ i - 1 \in 1..Len(Resumers(job)) /\ Resumers(job)'[i] = Resumers(job)[i - 1]
          <5>1. job \in Jobs' /\ i \in 1..Len(Resumers(job)') BY <1>6, <1>7, <1>10
          <5>2. QED BY <1>11, <5>1
        <4>3. QED BY <1>7, <1>10, <4>1, <4>2, ChainFacts
      <3>4. ASSUME NEW x \in {c} \cup ToSet(Resumers(job)) PROVE x \in ToSet(Resumers(job)')
        <4>1. 1 \in 1..Len(Resumers(job)) + 1 BY <1>10
        <4>2. CASE x = c BY <1>10, <3>2, <4>1, <4>2
        <4>3. CASE x # c
          <5>1. PICK i \in 1..Len(Resumers(job)) : x = Resumers(job)[i]
            BY <1>7, <3>4, <4>3, ChainFacts
          <5>2. i + 1 \in 1..Len(Resumers(job)) + 1 BY <1>10
          <5>3. QED BY <1>10, <3>2, <5>1, <5>2
        <4>4. QED BY <4>2, <4>3
      <3>5. QED BY <3>3, <3>4
    <2>2. \A x : (\E p \in Jobs' : x \in ToSet(Resumers(p)'))
                   <=> x = c \/ \E p \in Jobs : x \in ToSet(Resumers(p))
      BY <1>6, <1>7, <1>9, <2>1
    <2>3. QED BY <1>2, <1>5, <2>2 DEF Waiting
  <1>14. ChainInv'
    <2>1. ASSUME NEW p \in Jobs', NEW q \in Jobs', NEW i \in 1..Len(Resumers(p)'),
                 NEW j \in 1..Len(Resumers(q)'), Resumers(p)'[i] = Resumers(q)'[j]
          PROVE  p = q /\ i = j
      <3>1. \A k \in 1..Len(Resumers(p)), l \in 1..Len(Resumers(q)) :
              Resumers(p)[k] = Resumers(q)[l] => p = q /\ k = l
        BY <1>6, <2>1 DEF IInv, ChainInv
      <3>2. i \in Int /\ j \in Int
        BY <1>6, <1>9, <1>10, <2>1, ChainFacts
      <3>3. CASE Resumers(p)'[i] = c
        <4>1. p = job /\ i = 1
          <5>1. \/ p = job /\ i = 1
                \/ p = job /\ i - 1 \in 1..Len(Resumers(p)) /\ c = Resumers(p)[i - 1]
                \/ p # job /\ i \in 1..Len(Resumers(p)) /\ c = Resumers(p)[i]
            BY <1>11, <3>3
          <5>2. QED BY <1>6, <1>12, <5>1
        <4>2. q = job /\ j = 1
          <5>1. Resumers(q)'[j] = c BY <2>1, <3>3
          <5>2. \/ q = job /\ j = 1
                \/ q = job /\ j - 1 \in 1..Len(Resumers(q)) /\ c = Resumers(q)[j - 1]
                \/ q # job /\ j \in 1..Len(Resumers(q)) /\ c = Resumers(q)[j]
            BY <1>11, <5>1
          <5>3. QED BY <1>6, <1>12, <5>2
        <4>3. QED BY <4>1, <4>2
      <3>4. CASE Resumers(p)'[i] # c
        <4>1. \/ p = job /\ i - 1 \in 1..Len(Resumers(p)) /\ Resumers(p)'[i] = Resumers(p)[i - 1]
              \/ p # job /\ i \in 1..Len(Resumers(p)) /\ Resumers(p)'[i] = Resumers(p)[i]
          BY <1>11, <3>4
        <4>2. \/ q = job /\ j - 1 \in 1..Len(Resumers(q)) /\ Resumers(q)'[j] = Resumers(q)[j - 1]
              \/ q # job /\ j \in 1..Len(Resumers(q)) /\ Resumers(q)'[j] = Resumers(q)[j]
          BY <1>11, <2>1, <3>4
        <4>3. p = q BY <2>1, <3>1, <4>1, <4>2
        <4>4. i = j \/ i - 1 = j - 1 BY <2>1, <3>1, <4>1, <4>2
        <4>5. QED BY <3>2, <4>3, <4>4
      <3>5. QED BY <3>3, <3>4
    <2>2. ASSUME NEW p \in Jobs', NEW i \in 1..Len(Resumers(p)')
          PROVE  Resumers(p)'[i] \in DOMAIN suspended' \ Callers'
      BY <1>1, <1>2, <1>5, <1>6, <1>11, <1>12, <2>2
    <2>3. Callers' \subseteq DOMAIN suspended' BY <1>1, <1>5, ChainFacts
    <2>4. \A i, j \in Calls' : stack'[i].caller = stack'[j].caller => i = j
      BY <1>3, <1>4 DEF IInv, ChainInv
    <2>5. Len(stack') > 1 => Top'.id \notin Callers'
      <3>1. Len(stack') > 1 => Len(stack) > 2
        BY <1>3, LenProperties DEF IInv, TypeInv
      <3>2. QED BY <1>1, <1>3, <1>5, <3>1
    <2>6. QED BY <2>1, <2>2, <2>3, <2>4, <2>5 DEF ChainInv
  <1>15. QED BY <1>3, <1>5, <1>6, <1>8, <1>9, <1>13, <1>14

LEMMA ResumesChains ==
  ASSUME IInv, NEW id \in Ids, Resumes(id)
  PROVE  /\ Jobs' = Jobs \ {id} /\ Callers' = Callers /\ Calls' = Calls
         /\ id # 0 /\ id \in ToSet(Resumers(0)) /\ id \notin Callers
         /\ ToSet(Resumers(0)') = (ToSet(Resumers(0)) \ {id}) \cup ToSet(Resumers(id))
         /\ \A p \in DOMAIN suspended \ {id} : Resumers(p)' = Resumers(p)
         /\ \A x : Waiting(x)' <=> Waiting(x) /\ x # id
         /\ stack' \in Seq(Frames) /\ active' \in Seq(Ids) /\ StackInv'
         /\ ChainInv'
  <1> DEFINE s == Resumers(0)
             t == Resumers(id)
  <1>1. /\ stack # <<>> /\ s # <<>> /\ id \in DOMAIN suspended /\ id = s[Len(s)]
        /\ DOMAIN suspended' = DOMAIN suspended \ {id}
        /\ \A i \in DOMAIN suspended \ {id} : suspended'[i] = suspended[i]
        /\ UNCHANGED <<stack, active>> /\ at = "retained" /\ at' \in {"start", "end"}
    BY DEF Resumes, Returns, Resumers
  <1>2. id # 0 /\ id \in Jobs /\ 0 \in Jobs BY <1>1, ChainFacts DEF Jobs
  <1>3. Resumers(0)' = Front(s) \o t BY <1>2 DEF Resumes, Resumers
  <1>4. Jobs' = Jobs \ {id} BY <1>1, <1>2 DEF Jobs
  <1>5. Calls' = Calls /\ Callers' = Callers BY <1>1 DEF Calls, Callers
  <1>6. \A p \in DOMAIN suspended \ {id} : Resumers(p)' = Resumers(p)
    BY <1>1, ChainFacts DEF Resumers
  <1>7. s \in Seq(Ids) /\ t \in Seq(Ids) BY <1>2, ChainFacts
  <1> DEFINE u == Resumers(0)'
  <1>8. PICK n \in Nat : n = Len(s) /\ n >= 1 BY <1>1, <1>7, FrontLast
  <1>9. PICK k \in Nat : k = Len(t) BY <1>2, ChainFacts
  <1> HIDE DEF s, t
  <1>10. /\ u \in Seq(Ids) /\ Len(u) = n - 1 + k
         /\ \A i \in 1..(n - 1) : u[i] = s[i]
         /\ \A i \in 1..k : u[n - 1 + i] = t[i]
    <2>1. /\ Front(s) \o t \in Seq(Ids) /\ Len(Front(s) \o t) = Len(s) - 1 + Len(t)
          /\ \A i \in 1..(Len(s) - 1) : (Front(s) \o t)[i] = s[i]
          /\ \A i \in 1..Len(t) : (Front(s) \o t)[Len(s) - 1 + i] = t[i]
      BY <1>1, <1>7, ChainsJoined
    <2>2. QED BY <1>3, <1>8, <1>9, <2>1
  <1>11. ASSUME NEW i \in 1..Len(u)
         PROVE  \/ i \in 1..(n - 1) /\ u[i] = s[i]
                \/ i - (n - 1) \in 1..k /\ u[i] = t[i - (n - 1)]
    <2>1. CASE i <= n - 1 BY <1>10, <1>11, <2>1
    <2>2. CASE ~(i <= n - 1)
      <3>1. i - (n - 1) \in 1..k /\ n - 1 + (i - (n - 1)) = i BY <1>8, <1>9, <1>10, <1>11, <2>2
      <3>2. QED BY <1>10, <3>1
    <2>3. QED BY <2>1, <2>2
  <1> HIDE DEF u
  <1>12. /\ \A i, j \in 1..n : s[i] = s[j] => i = j
         /\ \A i, j \in 1..k : t[i] = t[j] => i = j
         /\ \A i \in 1..n, j \in 1..k : s[i] # t[j]
    BY <1>2, <1>8, <1>9 DEF IInv, ChainInv, s, t
  <1>13. n \in 1..n /\ s[n] = id BY <1>1, <1>8
  <1>14. /\ \A i \in 1..(n - 1) : i \in 1..n /\ s[i] # id
         /\ \A j \in 1..k : t[j] # id
    <2>1. ASSUME NEW i \in 1..(n - 1) PROVE i \in 1..n /\ i # n BY <1>8
    <2>2. QED BY <1>12, <1>13, <2>1
  <1>15. /\ \A x : x \in ToSet(s) <=> \E i \in 1..n : s[i] = x
         /\ \A x : x \in ToSet(t) <=> \E i \in 1..k : t[i] = x
    BY <1>2, <1>8, <1>9, ChainFacts DEF s, t
  <1>16. \A x : x \in ToSet(u) <=> \E i \in 1..Len(u) : u[i] = x
    <2>1. DOMAIN u = 1..Len(u) BY <1>10
    <2>2. QED BY <2>1 DEF ToSet
  <1>17. id \in ToSet(s) BY <1>13, <1>15
  <1>18. ToSet(u) = (ToSet(s) \ {id}) \cup ToSet(t)
    <2>1. ASSUME NEW x \in ToSet(u) PROVE x \in (ToSet(s) \ {id}) \cup ToSet(t)
      <3>1. PICK i \in 1..Len(u) : u[i] = x BY <1>16, <2>1
      <3>2. CASE i \in 1..(n - 1) /\ u[i] = s[i] BY <1>14, <1>15, <3>1, <3>2
      <3>3. CASE i - (n - 1) \in 1..k /\ u[i] = t[i - (n - 1)] BY <1>15, <3>1, <3>3
      <3>4. QED BY <1>11, <3>2, <3>3
    <2>2. ASSUME NEW x \in ToSet(s) \ {id} PROVE x \in ToSet(u)
      <3>1. PICK i \in 1..n : s[i] = x BY <1>15, <2>2
      <3>2. i # n BY <1>13, <2>2, <3>1
      <3>3. i \in 1..(n - 1) /\ i \in 1..Len(u) BY <1>8, <1>9, <1>10, <3>1, <3>2
      <3>4. QED BY <1>10, <1>16, <3>1, <3>3
    <2>3. ASSUME NEW x \in ToSet(t) PROVE x \in ToSet(u)
      <3>1. PICK i \in 1..k : t[i] = x BY <1>15, <2>3
      <3>2. n - 1 + i \in 1..Len(u) BY <1>8, <1>9, <1>10, <3>1
      <3>3. QED BY <1>10, <1>16, <3>1, <3>2
    <2>4. QED BY <2>1, <2>2, <2>3
  <1>19. id \notin Callers BY <1>2, <1>17, ChainFacts DEF s
  <1>20. \A x : Waiting(x)' <=> Waiting(x) /\ x # id
    <2>1. ASSUME NEW x, Waiting(x)'
          PROVE  Waiting(x) /\ x # id
      <3>1. CASE x \in Callers BY <1>19, <3>1 DEF Waiting
      <3>2. CASE \E p \in Jobs' : x \in ToSet(Resumers(p)')
        <4>1. PICK p \in Jobs' : x \in ToSet(Resumers(p)') BY <3>2
        <4>2. CASE p = 0
          <5>1. x \in ToSet(u) BY <4>1, <4>2 DEF u
          <5>2. x # id BY <1>14, <1>15, <1>18, <5>1
          <5>3. QED BY <1>2, <1>18, <5>1, <5>2 DEF Waiting, s, t
        <4>3. CASE p # 0
          <5>1. p \in DOMAIN suspended \ {id} /\ p \in Jobs BY <1>4, <4>1, <4>3 DEF Jobs
          <5>2. x \in ToSet(Resumers(p)) BY <1>6, <4>1, <5>1
          <5>3. x # id BY <1>2, <1>17, <4>3, <5>1, <5>2, ChainFacts DEF s
          <5>4. QED BY <5>1, <5>2, <5>3 DEF Waiting
        <4>4. QED BY <4>2, <4>3
      <3>3. QED BY <1>5, <2>1, <3>1, <3>2 DEF Waiting
    <2>2. ASSUME NEW x, Waiting(x), x # id
          PROVE  Waiting(x)'
      <3>1. CASE x \in Callers BY <1>5, <3>1 DEF Waiting
      <3>2. CASE \E p \in Jobs : x \in ToSet(Resumers(p))
        <4>1. PICK p \in Jobs : x \in ToSet(Resumers(p)) BY <3>2
        <4>2. CASE p \in {0, id}
          <5>1. x \in ToSet(u) BY <1>18, <2>2, <4>1, <4>2 DEF s, t
          <5>2. 0 \in Jobs' BY <1>2, <1>4
          <5>3. QED BY <5>1, <5>2 DEF u, Waiting
        <4>3. CASE p \notin {0, id}
          <5>1. p \in DOMAIN suspended \ {id} /\ p \in Jobs' BY <1>4, <4>1, <4>3 DEF Jobs
          <5>2. QED BY <1>6, <4>1, <5>1 DEF Waiting
        <4>4. QED BY <4>2, <4>3
      <3>3. QED BY <2>2, <3>1, <3>2 DEF Waiting
    <2>3. QED BY <2>1, <2>2
  <1>21. stack' \in Seq(Frames) /\ active' \in Seq(Ids) BY <1>1 DEF IInv, TypeInv, TypeOK
  <1>22. StackInv' BY <1>1, <1>5 DEF IInv, StackInv
  <1>23. QED
    <2>1. ASSUME NEW p \in Jobs', NEW i \in 1..Len(Resumers(p)')
          PROVE  \/ p = 0 /\ i \in 1..(n - 1) /\ u[i] = s[i]
                 \/ p = 0 /\ i - (n - 1) \in 1..k /\ u[i] = t[i - (n - 1)]
                 \/ /\ p # 0 /\ p # id /\ p \in Jobs /\ Resumers(p)' = Resumers(p)
                    /\ i \in 1..Len(Resumers(p))
      <3>1. CASE p = 0 BY <1>11, <2>1, <3>1 DEF u
      <3>2. CASE p # 0
        <4>1. p \in DOMAIN suspended \ {id} /\ p \in Jobs BY <1>4, <2>1, <3>2 DEF Jobs
        <4>2. QED BY <1>6, <2>1, <3>2, <4>1
      <3>3. QED BY <3>1, <3>2
    <2>2. ASSUME NEW p \in Jobs', NEW i \in 1..Len(Resumers(p)')
          PROVE  \E q \in Jobs : \E l \in 1..Len(Resumers(q)) :
                   /\ Resumers(p)'[i] = Resumers(q)[l] /\ Resumers(q)[l] # id
                   /\ p = IF q = id THEN 0 ELSE q
                   /\ i = IF q = id THEN n - 1 + l ELSE l
      <3>1. CASE p = 0 /\ i \in 1..(n - 1) /\ u[i] = s[i]
        <4>1. i \in 1..Len(Resumers(0)) BY <1>8, <3>1 DEF s
        <4>2. Resumers(p)'[i] = Resumers(0)[i] /\ Resumers(0)[i] # id
          BY <1>14, <3>1 DEF u, s
        <4>3. QED BY <1>2, <3>1, <4>1, <4>2
      <3>2. CASE p = 0 /\ i - (n - 1) \in 1..k /\ u[i] = t[i - (n - 1)]
        <4> DEFINE l == i - (n - 1)
        <4>1. l \in 1..Len(Resumers(id)) BY <1>9, <3>2 DEF t
        <4>2. Resumers(p)'[i] = Resumers(id)[l] /\ Resumers(id)[l] # id
          BY <1>14, <3>2 DEF u, t
        <4>3. i = n - 1 + l
          <5>1. i \in Int BY <1>10, <2>2, <3>2 DEF u
          <5>2. QED BY <1>8, <5>1
        <4> HIDE DEF l
        <4>4. QED BY <1>2, <3>2, <4>1, <4>2, <4>3
      <3>3. CASE /\ p # 0 /\ p # id /\ p \in Jobs /\ Resumers(p)' = Resumers(p)
                 /\ i \in 1..Len(Resumers(p))
        <4>1. Resumers(p)[i] # id
          BY <1>2, <1>17, <3>3, ChainFacts DEF s
        <4>2. QED BY <3>3, <4>1
      <3>4. QED BY <2>1, <2>2, <3>1, <3>2, <3>3
    <2>3. ASSUME NEW p \in Jobs', NEW q \in Jobs', NEW i \in 1..Len(Resumers(p)'),
                 NEW j \in 1..Len(Resumers(q)'), Resumers(p)'[i] = Resumers(q)'[j]
          PROVE  p = q /\ i = j
      <3>1. PICK pp \in Jobs : \E l \in 1..Len(Resumers(pp)) :
                   /\ Resumers(p)'[i] = Resumers(pp)[l] /\ Resumers(pp)[l] # id
                   /\ p = IF pp = id THEN 0 ELSE pp
                   /\ i = IF pp = id THEN n - 1 + l ELSE l
        BY <2>2, <2>3
      <3>2. PICK l \in 1..Len(Resumers(pp)) :
                   /\ Resumers(p)'[i] = Resumers(pp)[l] /\ Resumers(pp)[l] # id
                   /\ p = IF pp = id THEN 0 ELSE pp
                   /\ i = IF pp = id THEN n - 1 + l ELSE l
        BY <3>1
      <3>3. PICK qq \in Jobs : \E m \in 1..Len(Resumers(qq)) :
                   /\ Resumers(q)'[j] = Resumers(qq)[m] /\ Resumers(qq)[m] # id
                   /\ q = IF qq = id THEN 0 ELSE qq
                   /\ j = IF qq = id THEN n - 1 + m ELSE m
        BY <2>2, <2>3
      <3>4. PICK m \in 1..Len(Resumers(qq)) :
                   /\ Resumers(q)'[j] = Resumers(qq)[m] /\ Resumers(qq)[m] # id
                   /\ q = IF qq = id THEN 0 ELSE qq
                   /\ j = IF qq = id THEN n - 1 + m ELSE m
        BY <3>3
      <3>5. Resumers(pp)[l] = Resumers(qq)[m] BY <2>3, <3>2, <3>4
      <3>6. pp = qq /\ l = m BY <3>5 DEF IInv, ChainInv
      <3>7. QED BY <3>2, <3>4, <3>6
    <2>4. ASSUME NEW p \in Jobs', NEW i \in 1..Len(Resumers(p)')
          PROVE  Resumers(p)'[i] \in DOMAIN suspended' \ Callers'
      <3>1. PICK q \in Jobs : \E l \in 1..Len(Resumers(q)) :
                   Resumers(p)'[i] = Resumers(q)[l] /\ Resumers(q)[l] # id
        BY <2>2, <2>4
      <3>2. \A l \in 1..Len(Resumers(q)) : Resumers(q)[l] \in DOMAIN suspended \ Callers
        BY DEF IInv, ChainInv
      <3>3. QED BY <1>1, <1>5, <3>1, <3>2
    <2>5. Callers' \subseteq DOMAIN suspended' BY <1>1, <1>5, <1>19, ChainFacts
    <2>6. \A i, j \in Calls' : stack'[i].caller = stack'[j].caller => i = j
      BY <1>1, <1>5 DEF IInv, ChainInv
    <2>7. Len(stack') > 1 => Top'.id \notin Callers' BY <1>1, <1>5 DEF IInv, ChainInv, Top
    <2>8. ChainInv' BY <2>3, <2>4, <2>5, <2>6, <2>7 DEF ChainInv
    <2>9. QED
      BY <1>2, <1>4, <1>5, <1>6, <1>17, <1>18, <1>19, <1>20, <1>21, <1>22, <2>8 DEF s, t, u

LEMMA ReturnedChains ==
  ASSUME IInv, NEW id \in Ids, Returned(id)
  PROVE  /\ Jobs' = Jobs \ {id} /\ Callers' = Callers \ {id} /\ Calls' \subseteq Calls
         /\ id # 0 /\ \A i \in Calls' : stack'[i] = stack[i] /\ stack[i].caller # id
         /\ \A i \in Calls : stack[i].caller # id => i \in Calls'
         /\ Resumers(0)' = Resumers(id) /\ Resumers(0) = <<>>
         /\ \A p \in DOMAIN suspended \ {id} : Resumers(p)' = Resumers(p)
         /\ \A p \in Jobs : id \notin ToSet(Resumers(p))
         /\ \A x : Waiting(x)' <=> Waiting(x) /\ x # id
         /\ Len(stack) > 2 => Top'.id = id
         /\ stack' \in Seq(Frames) /\ active' \in Seq(Ids) /\ StackInv'
         /\ ChainInv'
  <1>1. /\ held.resumers = <<>> /\ Len(stack) > 1 /\ Leave /\ at' \in {"drive", "end"}
        /\ id = Top.caller /\ id \in DOMAIN suspended /\ held' = suspended[id]
        /\ DOMAIN suspended' = DOMAIN suspended \ {id}
        /\ \A i \in DOMAIN suspended \ {id} : suspended'[i] = suspended[i]
    BY DEF Returned, Returns
  <1>2. /\ Len(stack) \in Calls /\ id \in Callers /\ Top = stack[Len(stack)]
        /\ \A i \in Calls : stack[i].caller = id => i = Len(stack)
    BY <1>1, TheCaller
  <1>3. /\ stack' \in Seq(Frames) /\ stack' # <<>> /\ Len(stack') = Len(stack) - 1
        /\ \A i \in 1..(Len(stack) - 1) : stack'[i] = stack[i]
        /\ Calls' \subseteq Calls /\ \A i \in Calls : i \in Calls' <=> i # Len(stack)
        /\ active' \in Seq(Ids)
        /\ Len(stack) > 2 => Top'.id = id
        /\ StackInv'
    BY <1>1, LeavePops DEF IInv
  <1>4. \A i \in Calls' : stack'[i] = stack[i]
    <2>1. PICK n \in Nat : n = Len(stack) BY LenProperties DEF IInv, TypeInv
    <2>2. \A i \in Calls' : i \in 1..(n - 1) BY <1>3, <2>1 DEF Calls
    <2>3. QED BY <1>3, <2>1, <2>2
  <1>5. /\ \A i \in Calls' : stack[i].caller # id
        /\ \A i \in Calls : stack[i].caller # id => i \in Calls'
    BY <1>1, <1>2, <1>3
  <1>6. Callers' = Callers \ {id} BY <1>3, <1>4, <1>5 DEF Callers
  <1>7. id # 0 /\ id \in Jobs /\ 0 \in Jobs BY <1>1, ChainFacts DEF Jobs
  <1>8. Jobs' = Jobs \ {id} BY <1>1, <1>7 DEF Jobs
  <1>9. Resumers(0)' = Resumers(id) /\ Resumers(0) = <<>> BY <1>1, <1>7 DEF Resumers
  <1>10. \A p \in DOMAIN suspended \ {id} : Resumers(p)' = Resumers(p)
    BY <1>1, ChainFacts DEF Resumers
  <1>11. \A p \in Jobs : id \notin ToSet(Resumers(p)) BY <1>2, ChainFacts
  <1>12. ASSUME NEW p \in Jobs'
         PROVE  \E q \in Jobs \ {0} : Resumers(p)' = Resumers(q) /\ p = IF q = id THEN 0 ELSE q
    <2>1. CASE p = 0 BY <1>7, <1>9, <2>1
    <2>2. CASE p # 0
      <3>1. p \in DOMAIN suspended \ {id} /\ p \in Jobs BY <1>8, <1>12, <2>2 DEF Jobs
      <3>2. QED BY <1>10, <2>2, <3>1
    <2>3. QED BY <2>1, <2>2
  <1>13. ASSUME NEW q \in Jobs \ {0}
         PROVE  \E p \in Jobs' : Resumers(p)' = Resumers(q)
    <2>1. CASE q = id BY <1>7, <1>8, <1>9, <2>1
    <2>2. CASE q # id BY <1>8, <1>10, <1>13, <2>2 DEF Jobs
    <2>3. QED BY <2>1, <2>2
  <1>14. \A x : Waiting(x)' <=> Waiting(x) /\ x # id
    <2>1. ToSet(Resumers(0)) = {} BY <1>9 DEF ToSet
    <2>2. \A x : (\E p \in Jobs' : x \in ToSet(Resumers(p)'))
                   <=> \E q \in Jobs : x \in ToSet(Resumers(q))
      BY <1>12, <1>13, <2>1
    <2>3. QED BY <1>6, <1>11, <2>2 DEF Waiting
  <1>15. ChainInv'
    <2>1. ASSUME NEW p \in Jobs', NEW q \in Jobs', NEW i \in 1..Len(Resumers(p)'),
                 NEW j \in 1..Len(Resumers(q)'), Resumers(p)'[i] = Resumers(q)'[j]
          PROVE  p = q /\ i = j
      <3>1. PICK r \in Jobs : Resumers(p)' = Resumers(r) /\ p = IF r = id THEN 0 ELSE r
        BY <1>12, <2>1
      <3>2. PICK t \in Jobs : Resumers(q)' = Resumers(t) /\ q = IF t = id THEN 0 ELSE t
        BY <1>12, <2>1
      <3>3. r = t /\ i = j BY <2>1, <3>1, <3>2 DEF IInv, ChainInv
      <3>4. QED BY <3>1, <3>2, <3>3
    <2>2. ASSUME NEW p \in Jobs', NEW i \in 1..Len(Resumers(p)')
          PROVE  Resumers(p)'[i] \in DOMAIN suspended' \ Callers'
      <3>1. PICK r \in Jobs : Resumers(p)' = Resumers(r) BY <1>12, <2>2
      <3>2. /\ Resumers(r)[i] \in DOMAIN suspended \ Callers
            /\ Resumers(r)[i] \in ToSet(Resumers(r))
        BY <2>2, <3>1, ChainFacts DEF IInv, ChainInv
      <3>3. QED BY <1>1, <1>6, <1>11, <3>1, <3>2
    <2>3. Callers' \subseteq DOMAIN suspended' BY <1>1, <1>6, ChainFacts
    <2>4. \A i, j \in Calls' : stack'[i].caller = stack'[j].caller => i = j
      BY <1>3, <1>4 DEF IInv, ChainInv
    <2>5. Len(stack') > 1 => Top'.id \notin Callers'
      <3>1. Len(stack') > 1 => Len(stack) > 2
        BY <1>3, LenProperties DEF IInv, TypeInv
      <3>2. QED BY <1>3, <1>6, <3>1
    <2>6. QED BY <2>1, <2>2, <2>3, <2>4, <2>5 DEF ChainInv
  <1>16. QED BY <1>3, <1>4, <1>5, <1>6, <1>7, <1>8, <1>9, <1>10, <1>11, <1>14, <1>15

LEMMA CancelsChains ==
  ASSUME IInv, NEW id \in Ids, Cancels(id)
  PROVE  /\ Jobs' = Jobs \ {id} /\ Callers' = {} /\ Callers = {} /\ Calls' = {} /\ Calls = {}
         /\ id # 0 /\ Resumers(0)' = Resumers(id) /\ Resumers(0) = <<>>
         /\ \A p \in DOMAIN suspended \ {id} : Resumers(p)' = Resumers(p)
         /\ \A p \in Jobs : id \notin ToSet(Resumers(p))
         /\ ~Waiting(id) /\ \A x : Waiting(x)' <=> Waiting(x)
         /\ stack' \in Seq(Frames) /\ active' \in Seq(Ids) /\ StackInv'
         /\ stack' # <<>> /\ Len(stack') = 1 /\ Top'.cancel /\ stack'[1].kind = "shutdown"
         /\ ChainInv'
  <1>1. /\ held = Nothing /\ at' = "start" /\ stack = <<>> /\ active = <<>> /\ active' = active
        /\ id \in DOMAIN suspended /\ held' = suspended[id]
        /\ DOMAIN suspended' = DOMAIN suspended \ {id}
        /\ \A i \in DOMAIN suspended \ {id} : suspended'[i] = suspended[i]
        /\ \A p \in DOMAIN suspended : id \notin ToSet(suspended[p].resumers)
        /\ stack' = <<Frame("shutdown", 0, id, TRUE)>>
    BY DEF Cancels
  <1>2. /\ Frame("shutdown", 0, id, TRUE) \in Frames
        /\ Frame("shutdown", 0, id, TRUE).kind = "shutdown"
        /\ Frame("shutdown", 0, id, TRUE).cancel
    BY BoundsNatural DEF Frame, Frames, Ids
  <1>3. /\ stack' \in Seq(Frames) /\ stack' # <<>> /\ Len(stack') = 1
        /\ Top' = Frame("shutdown", 0, id, TRUE) /\ stack'[1] = Frame("shutdown", 0, id, TRUE)
        /\ Calls' = {} /\ Callers' = {} /\ StackInv'
    BY <1>1, <1>2, OneFrame
  <1>4. Calls = {} BY <1>1, EmptyStack
  <1>5. Callers = {} BY <1>4 DEF Callers
  <1>6. active' \in Seq(Ids) BY <1>1
  <1>7. id # 0 /\ id \in Jobs /\ 0 \in Jobs BY <1>1, ChainFacts DEF Jobs
  <1>8. Jobs' = Jobs \ {id} BY <1>1, <1>7 DEF Jobs
  <1>9. Resumers(0)' = Resumers(id) /\ Resumers(0) = <<>> BY <1>1, <1>7 DEF Resumers, Nothing
  <1>10. \A p \in DOMAIN suspended \ {id} : Resumers(p)' = Resumers(p)
    BY <1>1, ChainFacts DEF Resumers
  <1>11. \A p \in Jobs : id \notin ToSet(Resumers(p))
    <2>1. id \notin ToSet(Resumers(0)) BY <1>9 DEF ToSet
    <2>2. \A p \in DOMAIN suspended : id \notin ToSet(Resumers(p))
      BY <1>1, ChainFacts DEF Resumers
    <2>3. QED BY <2>1, <2>2 DEF Jobs
  <1>12. ASSUME NEW p \in Jobs'
         PROVE  \E q \in Jobs \ {0} : Resumers(p)' = Resumers(q) /\ p = IF q = id THEN 0 ELSE q
    <2>1. CASE p = 0 BY <1>7, <1>9, <2>1
    <2>2. CASE p # 0
      <3>1. p \in DOMAIN suspended \ {id} /\ p \in Jobs BY <1>8, <1>12, <2>2 DEF Jobs
      <3>2. QED BY <1>10, <2>2, <3>1
    <2>3. QED BY <2>1, <2>2
  <1>13. ASSUME NEW q \in Jobs \ {0}
         PROVE  \E p \in Jobs' : Resumers(p)' = Resumers(q)
    <2>1. CASE q = id BY <1>7, <1>8, <1>9, <2>1
    <2>2. CASE q # id BY <1>8, <1>10, <1>13, <2>2 DEF Jobs
    <2>3. QED BY <2>1, <2>2
  <1>14. ~Waiting(id) /\ \A x : Waiting(x)' <=> Waiting(x)
    <2>1. ToSet(Resumers(0)) = {} BY <1>9 DEF ToSet
    <2>2. \A x : (\E p \in Jobs' : x \in ToSet(Resumers(p)'))
                   <=> \E q \in Jobs : x \in ToSet(Resumers(q))
      BY <1>12, <1>13, <2>1
    <2>3. QED BY <1>3, <1>5, <1>11, <2>2 DEF Waiting
  <1>15. ChainInv'
    <2>1. ASSUME NEW p \in Jobs', NEW q \in Jobs', NEW i \in 1..Len(Resumers(p)'),
                 NEW j \in 1..Len(Resumers(q)'), Resumers(p)'[i] = Resumers(q)'[j]
          PROVE  p = q /\ i = j
      <3>1. PICK r \in Jobs : Resumers(p)' = Resumers(r) /\ p = IF r = id THEN 0 ELSE r
        BY <1>12, <2>1
      <3>2. PICK t \in Jobs : Resumers(q)' = Resumers(t) /\ q = IF t = id THEN 0 ELSE t
        BY <1>12, <2>1
      <3>3. r = t /\ i = j BY <2>1, <3>1, <3>2 DEF IInv, ChainInv
      <3>4. QED BY <3>1, <3>2, <3>3
    <2>2. ASSUME NEW p \in Jobs', NEW i \in 1..Len(Resumers(p)')
          PROVE  Resumers(p)'[i] \in DOMAIN suspended' \ Callers'
      <3>1. PICK r \in Jobs : Resumers(p)' = Resumers(r) BY <1>12, <2>2
      <3>2. Resumers(r)[i] \in DOMAIN suspended /\ Resumers(r)[i] \in ToSet(Resumers(r))
        BY <2>2, <3>1, ChainFacts DEF IInv, ChainInv
      <3>3. QED BY <1>1, <1>3, <1>11, <3>1, <3>2
    <2>3. Len(stack') = 1 /\ ~(1 > 1) BY <1>3
    <2>4. QED BY <1>3, <2>1, <2>2, <2>3 DEF ChainInv
  <1>16. QED
    BY <1>2, <1>3, <1>4, <1>5, <1>6, <1>7, <1>8, <1>9, <1>10, <1>11, <1>14, <1>15

-----------------------------------------------------------------------------
(* The types *)

LEMMA TypeFrom ==
  ASSUME vm' \in [Entries -> Machines], current' \in 0..MaxEntries, value' \in 0..MaxEntries,
         DOMAIN parked' \subseteq Ids, \A i \in DOMAIN parked' : parked'[i] \in Entries,
         DOMAIN suspended' \subseteq Ids, \A i \in DOMAIN suspended' : suspended'[i] \in Records,
         held' \in Records, active' \in Seq(Ids), ids' \in 0..(MaxEntries + MaxControls),
         frozen' \subseteq Entries, open' \subseteq Entries, stack' \in Seq(Frames),
         at' \in {"prompt", "drive", "service", "start", "end", "retained", "shutdown", "ended"},
         outcome' \in {"ok", "error", "cancelled", "noted"},
         callee' \in [Entries -> 0..MaxEntries], used' \in Bounds
  PROVE  TypeInv'
  <1>1. \A i \in DOMAIN stack' : stack'[i] \in Frames BY ElementOfSeq
  <1>2. \A i \in DOMAIN stack' : stack'[i].kind \in {"entry", "control", "shutdown"}
    BY <1>1 DEF Frames
  <1>3. ToSet(parked') \subseteq Entries BY DEF ToSet
  <1>4. vm' \in [Entries -> [phase : {"new", "body", "cleanup", "over"}, ask : BOOLEAN,
                  reason : {"none", "error", "aborted", "cancelled", "noted"}, release : BOOLEAN]]
    BY DEF Machines
  <1>5. TypeOK' BY <1>2, <1>3, <1>4 DEF TypeOK
  <1>6. QED BY <1>5 DEF TypeInv, Bounds

LEMMA Types ==
  ASSUME IInv
  PROVE  /\ vm \in [Entries -> Machines] /\ current \in 0..MaxEntries /\ value \in 0..MaxEntries
         /\ DOMAIN parked \subseteq Ids /\ \A i \in DOMAIN parked : parked[i] \in Entries
         /\ DOMAIN suspended \subseteq Ids /\ \A i \in DOMAIN suspended : suspended[i] \in Records
         /\ held \in Records /\ active \in Seq(Ids) /\ ids \in 0..(MaxEntries + MaxControls)
         /\ frozen \subseteq Entries /\ open \subseteq Entries /\ stack \in Seq(Frames)
         /\ at \in {"prompt", "drive", "service", "start", "end", "retained", "shutdown", "ended"}
         /\ outcome \in {"ok", "error", "cancelled", "noted"}
         /\ callee \in [Entries -> 0..MaxEntries] /\ used \in Bounds
         /\ Entries \subseteq 0..MaxEntries /\ 0 \in 0..MaxEntries /\ 0 \notin Entries
         /\ DOMAIN suspended \subseteq DOMAIN parked /\ 0 \notin DOMAIN parked
         /\ held.owner \in 0..MaxEntries
         /\ current # 0 /\ at \in {"drive", "service", "start"} => held.owner \in Entries
  <1>1. TypeOK /\ stack \in Seq(Frames) /\ used \in Bounds BY DEF IInv, TypeInv, Bounds
  <1>2. \A i \in DOMAIN parked : parked[i] \in Entries BY <1>1 DEF TypeOK, ToSet
  <1>3. Entries \subseteq 0..MaxEntries /\ 0 \in 0..MaxEntries /\ 0 \notin Entries
    BY BoundsNatural DEF Entries
  <1>4. DOMAIN suspended \subseteq DOMAIN parked BY DEF IInv, HomeInv
  <1>5. 0 \notin DOMAIN parked BY <1>1, BoundsNatural DEF TypeOK, Ids
  <1>6. held.owner \in 0..MaxEntries BY <1>1 DEF TypeOK, Records
  <1>7. current # 0 /\ at \in {"drive", "service", "start"} => held.owner \in Entries
    BY <1>6, BoundsNatural DEF IInv, HomeInv, Entries
  <1>8. vm \in [Entries -> Machines] BY <1>1 DEF TypeOK, Machines
  <1>9. QED BY <1>1, <1>2, <1>3, <1>4, <1>5, <1>6, <1>7, <1>8 DEF TypeOK

\* The plain steps, but for those of a machine, keep the map of machines or change
\* one machine in it.
LEMMA EvaluateTypes ==
  ASSUME IInv, NEW release \in BOOLEAN, Evaluate(release)
  PROVE  /\ used.entries + 1 \in Entries /\ used' \in Bounds
         /\ used'.entries = used.entries + 1 /\ used'.controls = used.controls
         /\ used'.failures = used.failures
         /\ vm' \in [Entries -> Machines]
         /\ \A d \in Entries \ {used.entries + 1} : vm'[d] = vm[d]
         /\ vm'[used.entries + 1].phase = IF current = 0 THEN "body" ELSE "over"
         /\ vm'[used.entries + 1].ask = FALSE
  <1> DEFINE e == used.entries + 1
             m == [Fresh EXCEPT !.phase = "body", !.release = release]
             n == IF current = 0 THEN m ELSE Gone
  <1>1. e \in Entries /\ used' = [used EXCEPT !.entries = e] BY DEF Evaluate, Uses
  <1>2. used \in Bounds /\ vm \in [Entries -> Machines] BY Types
  <1>3. /\ used' \in Bounds /\ used'.entries = used.entries + 1
        /\ used'.controls = used.controls /\ used'.failures = used.failures
    <2>1. e \in 0..MaxEntries BY <1>1, BoundsNatural DEF Entries
    <2> HIDE DEF e
    <2>2. used' \in Bounds /\ used'.entries = e /\ used'.controls = used.controls
          /\ used'.failures = used.failures
      BY <1>1, <1>2, <2>1 DEF Bounds
    <2>3. QED BY <2>2 DEF e
  <1>4. m \in Machines /\ m.phase = "body" /\ m.ask = FALSE BY DEF Fresh, Machines
  <1>5. Gone \in Machines /\ Gone.phase = "over" /\ Gone.ask = FALSE
    BY DEF Gone, Over, Fresh, Machines
  <1>6. vm' = [vm EXCEPT ![e] = n] BY DEF Evaluate
  <1>7. n \in Machines /\ n.phase = (IF current = 0 THEN "body" ELSE "over") /\ n.ask = FALSE
    BY <1>4, <1>5
  <1> HIDE DEF n, m
  <1>8. QED BY <1>1, <1>2, <1>3, <1>6, <1>7

LEMMA AskTypes ==
  ASSUME IInv, Serve \/ \E id \in Ids : ControlFails(id)
  PROVE  /\ current \in Entries /\ at = "drive" /\ ~held.pending /\ ~vm[current].ask
         /\ stack # <<>>
         /\ vm' \in [Entries -> Machines] /\ \A e \in Entries \ {current} : vm'[e] = vm[e]
         /\ vm'[current].ask /\ vm'[current].phase = vm[current].phase
         /\ vm'[current].reason = vm[current].reason
  <1>1. /\ at = "drive" /\ current # 0 /\ ~held.pending /\ ~vm[current].ask
        /\ vm' = [vm EXCEPT ![current].ask = TRUE]
    BY DEF Serve, ControlFails, Accepted, Runs, Driving
  <1>2. current \in Entries /\ vm[current] \in Machines /\ stack # <<>> BY <1>1, RunningFacts
  <1> DEFINE m == [vm[current] EXCEPT !.ask = TRUE]
  <1>3. m \in Machines /\ m.ask /\ m.phase = vm[current].phase /\ m.reason = vm[current].reason
    BY <1>2 DEF Machines
  <1>4. vm' = [vm EXCEPT ![current] = m] BY <1>1
  <1> HIDE DEF m
  <1>5. vm \in [Entries -> Machines] BY Types
  <1>6. QED BY <1>1, <1>2, <1>3, <1>4, <1>5

LEMMA ControlFailsTypes ==
  ASSUME IInv, NEW id \in Ids, ControlFails(id)
  PROVE  /\ used' \in Bounds /\ used'.entries = used.entries
         /\ used'.controls = used.controls + 1 /\ ~Sound'
         /\ ids' = IF ParkingId > ids THEN ParkingId ELSE ids
         /\ frozen' \in {frozen, frozen \cup {held.owner}} /\ at' = "end" /\ outcome' = "error"
         /\ UNCHANGED <<current, value, parked, callee, held, suspended, active, open, stack>>
         /\ ParkingId \in Ids /\ ParkingId = IF Len(stack) = 1 THEN ids + 1 ELSE Top.id
  <1>1. /\ used' = [used EXCEPT !.controls = used.controls + 1, !.failures = used.failures + 1]
        /\ used.controls < MaxControls /\ current # 0 /\ at = "drive"
        /\ ids' = IF ParkingId > ids THEN ParkingId ELSE ids
        /\ frozen' \in {frozen, frozen \cup {held.owner}} /\ at' = "end" /\ outcome' = "error"
        /\ UNCHANGED <<current, value, parked, callee, held, suspended, active, open, stack>>
    BY DEF ControlFails, Accepted, Runs, Driving
  <1>2. used \in Bounds BY Types
  <1>3. used.controls + 1 \in 0..MaxControls /\ used.failures + 1 \in Nat /\ used.failures \in Nat
    BY <1>1, <1>2, BoundsNatural DEF Bounds
  <1>4. /\ used' \in Bounds /\ used'.entries = used.entries
        /\ used'.controls = used.controls + 1 /\ used'.failures = used.failures + 1
    BY <1>1, <1>2, <1>3 DEF Bounds
  <1>5. ~Sound' BY <1>3, <1>4 DEF Sound
  <1>6. ParkingId \in Ids /\ stack # <<>> BY <1>1, ParkingIdFree
  <1>7. ParkingId = IF Len(stack) = 1 THEN ids + 1 ELSE Top.id BY <1>6, Actives DEF IInv
  <1>8. QED BY <1>1, <1>4, <1>5, <1>6, <1>7

LEMMA FinishTypes ==
  ASSUME IInv, Finish
  PROVE  /\ at = "end" /\ stack # <<>>
         /\ held' \in Records /\ held'.owner = 0 /\ ~held'.pending /\ held'.resumers = held.resumers
         /\ open' = open \ {held.owner} /\ frozen' = frozen \ {held.owner}
         /\ UNCHANGED <<vm, current, parked, callee, suspended, active, ids, used>>
         /\ outcome' \in {"ok", "error", "cancelled", "noted"} /\ value' \in 0..MaxEntries
         /\ \/ Top.kind = "entry" /\ Len(stack) = 1 /\ stack' = <<>> /\ at' = "prompt"
            \/ Top.kind # "entry" /\ SameCalls /\ stack' # <<>> /\ at' = "retained"
  <1>1. /\ at = "end" /\ held' = [held EXCEPT !.owner = 0]
        /\ open' = open \ {held.owner} /\ frozen' = frozen \ {held.owner}
        /\ UNCHANGED <<vm, current, parked, callee, suspended, active, ids, used>>
    BY DEF Finish
  <1>2. stack # <<>> /\ stack \in Seq(Frames) BY <1>1, Types DEF IInv, StackInv
  <1>3. Top \in Frames BY <1>2, FrontLast DEF Top
  <1>4. /\ held' \in Records /\ held'.owner = 0 /\ ~held'.pending
        /\ held'.resumers = held.resumers
    <2>1. held \in Records /\ ~held.pending BY <1>1, Types DEF IInv, HeldInv
    <2>2. QED BY <1>1, <2>1, BoundsNatural DEF Records
  <1>5. CASE Top.kind = "entry"
    <2>1. stack' = <<>> /\ at' = "prompt" /\ outcome' = "ok" /\ value' = 0
      BY <1>5 DEF Finish
    <2>2. Len(stack) = 1 BY <1>2, <1>5, Actives DEF IInv
    <2>3. QED BY <1>1, <1>2, <1>4, <1>5, <2>1, <2>2, Types
  <1>6. CASE Top.kind # "entry"
    <2> DEFINE fails == Top.failed \/ (Top.cancel /\ SegmentResult # "ok")
    <2>1. /\ stack' = WithTop([Top EXCEPT !.failed = fails]) /\ at' = "retained"
          /\ outcome' = (IF Top.cancel THEN "ok" ELSE SegmentResult) /\ value' = value
      BY <1>6 DEF Finish
    <2>2. fails \in BOOLEAN OBVIOUS
    <2> HIDE DEF fails
    <2>3. [Top EXCEPT !.failed = fails] \in Frames BY <1>3, <2>2 DEF Frames
    <2>4. SameCalls /\ stack' # <<>> BY <1>2, <1>3, <2>1, <2>3, ReplacedTop DEF Frames
    <2>5. outcome' \in {"ok", "error", "cancelled", "noted"}
      BY <2>1, Types DEF SegmentResult
    <2>6. QED BY <1>1, <1>2, <1>4, <1>6, <2>1, <2>4, <2>5, Types
  <1>7. QED BY <1>5, <1>6

LEMMA PlainTypes ==
  ASSUME IInv, Plain
  PROVE  TypeInv'
  <1>0. stack' \in Seq(Frames) /\ active' \in Seq(Ids) BY PlainChains
  <1>1. CASE \E m \in Machines : Goes(m)
    <2> PICK m \in Machines : Goes(m) BY <1>1
    <2>1. /\ current \in Entries /\ at \in {"drive", "service", "start"}
          /\ Becomes(current, m, "drive")
          /\ held' \in {held, [held EXCEPT !.pending = FALSE]}
          /\ frozen' \in {frozen, frozen \cup {held.owner}, frozen \ {held.owner}}
          /\ used' \in Bounds
          /\ UNCHANGED <<parked, suspended, ids, open>>
      BY DEF Goes, Bounds
    <2>2. TypeOK BY DEF IInv, TypeInv
    <2>3. /\ vm' \in [Entries -> Machines] /\ callee' \in [Entries -> 0..MaxEntries]
          /\ outcome' \in {"ok", "error", "cancelled", "noted"} /\ value' \in 0..MaxEntries
          /\ (current' = 0 /\ at' = "end") \/ (current' = current /\ at' = "drive")
      BY <2>1, <2>2, BecomesTypes
    <2>4. held' \in Records
      <3>1. held \in Records BY Types
      <3>2. [held EXCEPT !.pending = FALSE] \in Records BY <3>1 DEF Records
      <3>3. QED BY <2>1, <3>1, <3>2
    <2>5. held.owner \in Entries BY <2>1, Types
    <2>6. frozen' \subseteq Entries BY <2>1, <2>5, Types
    <2>7. current' \in 0..MaxEntries BY <2>3, Types
    <2>8. QED BY <1>0, <2>1, <2>3, <2>4, <2>6, <2>7, Types, TypeFrom
  <1>2. ASSUME NEW release \in BOOLEAN, Evaluate(release)
        PROVE  TypeInv'
    <2> DEFINE e == used.entries + 1
    <2>1. e \in Entries /\ used' \in Bounds /\ vm' \in [Entries -> Machines]
      BY <1>2, EvaluateTypes
    <2>2. /\ UNCHANGED <<parked, callee, suspended, active, ids, frozen, outcome>>
          /\ \/ /\ current' = e /\ value' = 0 /\ open' = open \cup {e}
                /\ held' = [held EXCEPT !.owner = e] /\ at' = "drive"
             \/ UNCHANGED <<current, value, held, open, at>>
      BY <1>2 DEF Evaluate
    <2> HIDE DEF e
    <2>3. [held EXCEPT !.owner = e] \in Records
      <3>1. held \in Records /\ e \in 0..MaxEntries BY <2>1, Types
      <3>2. QED BY <3>1 DEF Records
    <2>4. held' \in Records /\ current' \in 0..MaxEntries /\ value' \in 0..MaxEntries
      BY <2>1, <2>2, <2>3, Types
    <2>5. open' \subseteq Entries BY <2>1, <2>2, Types
    <2>6. at' \in {"prompt", "drive", "service", "start", "end", "retained", "shutdown", "ended"}
      BY <2>2, Types
    <2>7. QED BY <1>0, <2>1, <2>2, <2>4, <2>5, <2>6, Types, TypeFrom
  <1>3. CASE Idle \/ BeginShutdown \/ ShutdownEnds \/ ShutdownReturns \/ UNCHANGED vars
    <2>1. /\ UNCHANGED <<vm, current, value, parked, callee, held, suspended, ids, frozen,
                         open, used>>
          /\ outcome' \in {outcome, "ok"} /\ at' \in {at, "end", "shutdown", "ended"}
      BY <1>3 DEF Idle, BeginShutdown, ShutdownEnds, ShutdownReturns, vars, engine, session,
                  resources, coordinator
    <2>2. outcome' \in {"ok", "error", "cancelled", "noted"} BY <2>1, Types
    <2>3. at' \in {"prompt", "drive", "service", "start", "end", "retained", "shutdown", "ended"}
      BY <2>1, Types
    <2>4. QED BY <1>0, <2>1, <2>2, <2>3, Types, TypeFrom
  <1>4. CASE Continue \/ StartResumed
    <2>1. /\ UNCHANGED <<vm, current, value, parked, callee, suspended, ids, open, outcome, used>>
          /\ frozen' \subseteq frozen /\ at' \in {"drive", "service"}
          /\ held' \in {held, [held EXCEPT !.pending = FALSE]}
      BY <1>4 DEF Continue, StartResumed, engine, session, resources
    <2>2. held' \in Records
      <3>1. held \in Records BY Types
      <3>2. [held EXCEPT !.pending = FALSE] \in Records BY <3>1 DEF Records
      <3>3. QED BY <2>1, <3>1, <3>2
    <2>3. frozen' \subseteq Entries BY <2>1, Types
    <2>4. QED BY <1>0, <2>1, <2>2, <2>3, Types, TypeFrom
  <1>5. CASE Serve
    <2>1. vm' \in [Entries -> Machines] BY <1>5, AskTypes
    <2>2. /\ UNCHANGED <<current, value, parked, callee, held, suspended, ids, frozen, open,
                         outcome, used>>
          /\ at' = "service"
      BY <1>5 DEF Serve, session, resources
    <2>3. QED BY <1>0, <2>1, <2>2, Types, TypeFrom
  <1>6. ASSUME NEW id \in Ids, ControlFails(id)
        PROVE  TypeInv'
    <2>1. /\ vm' \in [Entries -> Machines] /\ current \in Entries /\ at = "drive"
      BY <1>6, AskTypes
    <2>2. /\ used' \in Bounds /\ ids' = IF ParkingId > ids THEN ParkingId ELSE ids
          /\ frozen' \in {frozen, frozen \cup {held.owner}} /\ at' = "end" /\ outcome' = "error"
          /\ UNCHANGED <<current, value, parked, callee, held, suspended, active, open, stack>>
          /\ ParkingId \in Ids
      BY <1>6, ControlFailsTypes
    <2>3. held.owner \in Entries BY <2>1, Types
    <2>4. frozen' \subseteq Entries BY <2>2, <2>3, Types
    <2>5. ids' \in 0..(MaxEntries + MaxControls)
      <3>1. ids \in 0..(MaxEntries + MaxControls) BY Types
      <3>2. ParkingId \in 0..(MaxEntries + MaxControls) BY <2>2, BoundsNatural DEF Ids
      <3>3. QED BY <2>2, <3>1, <3>2
    <2>6. QED BY <1>0, <2>1, <2>2, <2>4, <2>5, Types, TypeFrom
  <1>7. CASE Finish
    <2>1. /\ held' \in Records /\ open' = open \ {held.owner} /\ frozen' = frozen \ {held.owner}
          /\ UNCHANGED <<vm, current, parked, callee, suspended, active, ids, used>>
          /\ outcome' \in {"ok", "error", "cancelled", "noted"} /\ value' \in 0..MaxEntries
          /\ at' \in {"prompt", "retained"}
      BY <1>7, FinishTypes
    <2>2. frozen' \subseteq Entries /\ open' \subseteq Entries BY <2>1, Types
    <2>3. QED BY <1>0, <2>1, <2>2, Types, TypeFrom
  <1>8. QED BY <1>1, <1>2, <1>3, <1>4, <1>5, <1>6, <1>7 DEF Plain

LEMMA MoveTypes ==
  ASSUME IInv, Moves
  PROVE  TypeInv'
  <1>0. 0..(MaxEntries + MaxControls) = {0} \cup Ids BY BoundsNatural DEF Ids
  <1>1. ASSUME NEW id \in Ids, Parks(id)
        PROVE  TypeInv'
    <2>1. /\ current \in Entries /\ at \in {"drive", "service"}
          /\ ids' = IF id > ids THEN id ELSE ids
          /\ frozen' = frozen \cup {held.owner}
          /\ DOMAIN parked' = DOMAIN parked \cup {id} /\ parked'[id] = current
          /\ \A i \in DOMAIN parked \ {id} : parked'[i] = parked[i]
          /\ DOMAIN suspended' = DOMAIN suspended \cup {id} /\ suspended'[id] \in Records
          /\ \A i \in DOMAIN suspended : suspended'[i] = suspended[i]
          /\ current' = 0 /\ value' = 0 /\ held' = Nothing /\ at' = "end" /\ outcome' = "ok"
          /\ used' \in Bounds /\ UNCHANGED <<vm, callee, open>>
      BY <1>1 DEF Parks
    <2>2. stack' \in Seq(Frames) /\ active' \in Seq(Ids) BY <1>1, ParksChains
    <2>3. Nothing \in Records BY BoundsNatural DEF Nothing, Records
    <2>4. held.owner \in Entries BY <2>1, Types
    <2>5. frozen' \subseteq Entries BY <2>1, <2>4, Types
    <2>6. ids' \in 0..(MaxEntries + MaxControls) BY <1>0, <2>1, Types
    <2>7. DOMAIN parked' \subseteq Ids /\ \A i \in DOMAIN parked' : parked'[i] \in Entries
      BY <2>1, Types
    <2>8. DOMAIN suspended' \subseteq Ids /\ \A i \in DOMAIN suspended' : suspended'[i] \in Records
      BY <2>1, Types
    <2>9. QED BY <2>1, <2>2, <2>3, <2>5, <2>6, <2>7, <2>8, Types, TypeFrom
  <1>2. ASSUME NEW id \in Ids, NEW pid \in Ids, NEW cancel \in BOOLEAN,
               Controlled(id, pid, cancel)
        PROVE  TypeInv'
    <2>1. /\ current \in Entries /\ at = "drive" /\ id \in DOMAIN suspended
          /\ ids' = IF pid > ids THEN pid ELSE ids
          /\ frozen' = frozen \cup {held.owner} /\ vm' \in [Entries -> Machines]
          /\ DOMAIN parked' = (DOMAIN parked \cup {pid}) \ {id} /\ parked'[pid] = current
          /\ \A i \in DOMAIN parked \ {pid, id} : parked'[i] = parked[i]
          /\ DOMAIN suspended' = (DOMAIN suspended \cup {pid}) \ {id} /\ suspended'[pid] = held
          /\ \A i \in DOMAIN suspended \ {id} : suspended'[i] = suspended[i]
          /\ current' = parked[id] /\ value' = 0 /\ held' = suspended[id] /\ at' = "start"
          /\ callee' \in [Entries -> 0..MaxEntries] /\ used' \in Bounds
          /\ stack' \in Seq(Frames) /\ active' \in Seq(Ids)
          /\ UNCHANGED <<open, outcome>>
      BY <1>2 DEF Controlled
    <2>2. held.owner \in Entries /\ id \in DOMAIN parked BY <2>1, Types
    <2>3. frozen' \subseteq Entries BY <2>1, <2>2, Types
    <2>4. ids' \in 0..(MaxEntries + MaxControls) BY <1>0, <2>1, Types
    <2>5. DOMAIN parked' \subseteq Ids /\ \A i \in DOMAIN parked' : parked'[i] \in Entries
      BY <2>1, Types
    <2>6. DOMAIN suspended' \subseteq Ids /\ \A i \in DOMAIN suspended' : suspended'[i] \in Records
      BY <2>1, Types
    <2>7. current' \in 0..MaxEntries /\ held' \in Records BY <2>1, <2>2, Types
    <2>8. QED BY <2>1, <2>3, <2>4, <2>5, <2>6, <2>7, Types, TypeFrom
  <1>3. ASSUME NEW id \in Ids, NEW next \in {"start", "drive"}, Returns(id, next),
               id \in DOMAIN suspended
        PROVE  /\ vm' \in [Entries -> Machines] /\ callee' \in [Entries -> 0..MaxEntries]
               /\ value' \in 0..MaxEntries /\ outcome' \in {"ok", "error", "cancelled", "noted"}
               /\ current' \in 0..MaxEntries /\ at' \in {"end", "start", "drive"}
               /\ DOMAIN parked' \subseteq Ids /\ \A i \in DOMAIN parked' : parked'[i] \in Entries
    <2>1. /\ vm' \in [Entries -> Machines] /\ callee' \in [Entries -> 0..MaxEntries]
          /\ value' \in 0..MaxEntries /\ outcome' \in {"ok", "error", "cancelled", "noted"}
          /\ at' \in {"end", "start", "drive"} /\ parked[id] \in Entries
          /\ current' \in {0, current, parked[id]}
          /\ DOMAIN parked' \subseteq DOMAIN parked /\ \A i \in DOMAIN parked' : parked'[i] = parked[i]
      BY <1>3 DEF Returns
    <2>2. QED BY <2>1, Types
  <1>4. ASSUME NEW id \in Ids, Resumes(id)
        PROVE  TypeInv'
    <2>1. /\ id \in DOMAIN suspended /\ held' \in Records
          /\ DOMAIN suspended' = DOMAIN suspended \ {id}
          /\ \A i \in DOMAIN suspended \ {id} : suspended'[i] = suspended[i]
          /\ Returns(id, "start") /\ UNCHANGED <<ids, frozen, open, used>>
      BY <1>4 DEF Resumes
    <2>2. stack' \in Seq(Frames) /\ active' \in Seq(Ids) BY <1>4, ResumesChains
    <2>3. QED BY <1>3, <2>1, <2>2, Types, TypeFrom
  <1>5. ASSUME NEW id \in Ids, Returned(id)
        PROVE  TypeInv'
    <2>1. /\ id \in DOMAIN suspended /\ held' \in Records
          /\ DOMAIN suspended' = DOMAIN suspended \ {id}
          /\ \A i \in DOMAIN suspended \ {id} : suspended'[i] = suspended[i]
          /\ frozen' \subseteq frozen /\ used' \in Bounds
          /\ Returns(id, "drive") /\ UNCHANGED <<ids, open>>
      BY <1>5 DEF Returned
    <2>2. stack' \in Seq(Frames) /\ active' \in Seq(Ids) BY <1>5, ReturnedChains
    <2>3. frozen' \subseteq Entries BY <2>1, Types
    <2>4. QED BY <1>3, <2>1, <2>2, <2>3, Types, TypeFrom
  <1>6. ASSUME NEW id \in Ids, Cancels(id)
        PROVE  TypeInv'
    <2>1. /\ id \in DOMAIN suspended /\ suspended[id] \in Records
          /\ DOMAIN parked' = DOMAIN parked \ {id}
          /\ \A i \in DOMAIN parked \ {id} : parked'[i] = parked[i]
          /\ DOMAIN suspended' = DOMAIN suspended \ {id}
          /\ \A i \in DOMAIN suspended \ {id} : suspended'[i] = suspended[i]
          /\ current' = parked[id] /\ value' = 0 /\ held' = suspended[id] /\ at' = "start"
          /\ UNCHANGED <<vm, callee, ids, frozen, open, outcome, used>>
      BY <1>6 DEF Cancels
    <2>2. stack' \in Seq(Frames) /\ active' \in Seq(Ids) BY <1>6, CancelsChains
    <2>3. current' \in 0..MaxEntries BY <2>1, Types
    <2>4. DOMAIN parked' \subseteq Ids /\ \A i \in DOMAIN parked' : parked'[i] \in Entries
      BY <2>1, Types
    <2>5. QED BY <2>1, <2>2, <2>3, <2>4, Types, TypeFrom
  <1>7. ASSUME NEW job \in Ids, NEW caller \in Ids, Retains(job, caller)
        PROVE  TypeInv'
    <2>1. /\ job \in DOMAIN suspended
          /\ DOMAIN suspended' = DOMAIN suspended /\ suspended'[job] \in Records
          /\ \A i \in DOMAIN suspended \ {job} : suspended'[i] = suspended[i]
          /\ at' = "drive"
          /\ UNCHANGED <<vm, current, value, parked, callee, held, ids, frozen, open, outcome, used>>
      BY <1>7 DEF Retains
    <2>2. stack' \in Seq(Frames) /\ active' \in Seq(Ids) BY <1>7, RetainsChains
    <2>3. QED BY <2>1, <2>2, Types, TypeFrom
  <1>8. QED BY <1>1, <1>2, <1>4, <1>5, <1>6, <1>7 DEF Moves

-----------------------------------------------------------------------------
(* Every part of the invariant, under the plain steps and under the moves  *)

\* The plain steps keep the parked machines, and, but for two, the ids and the counts.
LEMMA IdsPlain ==
  ASSUME IInv, Plain
  PROVE  IdsInv'
  <1>1. SameChains /\ stack' \in Seq(Frames) /\ StackInv' BY PlainChains
  <1>2. /\ ids \in Nat /\ used.entries \in Nat /\ used.controls \in Nat
        /\ DOMAIN parked \subseteq 1..ids /\ ids <= used.entries + used.controls
        /\ \A i \in Calls : stack[i].id \in 1..ids
    <2>1. used \in Bounds /\ ids \in 0..(MaxEntries + MaxControls) BY Types
    <2>2. QED BY <2>1, BoundsNatural DEF Bounds, IInv, IdsInv
  <1> DEFINE Needs == stack # <<>> /\ stack[1].kind = "entry" /\ ~(Len(stack) = 1 /\ at = "end")
  <1>3. ASSUME parked' = parked, ids' = ids, used'.controls = used.controls,
               \/ used'.entries = used.entries /\ (Needs' => Needs)
               \/ used'.entries = used.entries + 1
        PROVE  IdsInv'
    <2>1. Needs => ids < used.entries + used.controls BY DEF IInv, IdsInv
    <2>2. ids' <= used'.entries + used'.controls BY <1>2, <1>3
    <2>3. Needs' => ids' < used'.entries + used'.controls BY <1>2, <1>3, <2>1
    <2>4. \A i \in Calls' : stack'[i].id \in 1..ids' BY <1>1, <1>2, <1>3 DEF SameChains
    <2>5. DOMAIN parked' \subseteq 1..ids' BY <1>2, <1>3
    <2>6. QED BY <2>2, <2>3, <2>4, <2>5 DEF IdsInv
  <1>4. stack # <<>> => Len(stack) \in Nat /\ Len(stack) >= 1 /\ Top = stack[Len(stack)]
    BY Actives DEF IInv
  <1>5. ASSUME SameCalls, stack # <<>>
        PROVE  Len(stack') = Len(stack) /\ stack'[1].kind = stack[1].kind
    BY <1>4, <1>5 DEF SameCalls
  <1>6. ASSUME NEW m \in Machines, Goes(m)
        PROVE  IdsInv'
    <2>1. /\ at # "end" /\ stack # <<>> /\ SameCalls
          /\ parked' = parked /\ ids' = ids /\ used'.controls = used.controls
          /\ used'.entries = used.entries
      BY <1>6 DEF Goes
    <2>2. Needs' => Needs BY <1>5, <2>1
    <2>3. QED BY <1>3, <2>1, <2>2
  <1>7. ASSUME NEW release \in BOOLEAN, Evaluate(release)
        PROVE  IdsInv'
    <2>1. parked' = parked /\ ids' = ids BY <1>7 DEF Evaluate
    <2>2. used'.entries = used.entries + 1 /\ used'.controls = used.controls
      BY <1>7, EvaluateTypes
    <2>3. QED BY <1>3, <2>1, <2>2
  <1>8. CASE Idle \/ Continue \/ Serve \/ StartResumed
    <2>1. /\ at # "end" /\ parked' = parked /\ ids' = ids /\ used' = used
          /\ Idle \/ Continue \/ Serve => stack' = stack
      BY <1>8 DEF Idle, Continue, Serve, StartResumed, engine, session, Runs, Driving
    <2>2. Needs' => Needs
      <3>1. CASE stack' = stack BY <2>1, <3>1
      <3>2. CASE StartResumed
        <4>1. at = "start" /\ stack' = WithTop([Top EXCEPT !.stopping = FALSE])
          BY <3>2 DEF StartResumed, NewSegment
        <4>2. stack # <<>> /\ stack \in Seq(Frames) /\ Top \in Frames
          BY <4>1, Actives DEF IInv, StackInv, TypeInv
        <4>3. SameCalls BY <4>1, <4>2, ReplacedTop DEF Frames
        <4>4. QED BY <1>5, <2>1, <4>2, <4>3
      <3>3. QED BY <1>8, <2>1, <3>1, <3>2
    <2>3. QED BY <1>3, <2>1, <2>2
  <1>9. CASE BeginShutdown \/ ShutdownReturns \/ ShutdownEnds
    <2>1. parked' = parked /\ ids' = ids /\ used' = used /\ at' \in {"shutdown", "ended"}
      BY <1>9 DEF BeginShutdown, ShutdownReturns, ShutdownEnds, engine, session
    <2>2. stack' = <<>> BY <1>1, <2>1 DEF StackInv
    <2>3. QED BY <1>3, <2>1, <2>2
  <1>10. CASE Finish
    <2>1. /\ parked' = parked /\ ids' = ids /\ used' = used /\ stack # <<>>
          /\ \/ stack' = <<>>
             \/ Top.kind # "entry" /\ SameCalls
      BY <1>10, FinishTypes
    <2>2. Needs' => Needs BY <1>4, <1>5, <2>1
    <2>3. QED BY <1>3, <2>1, <2>2
  <1>11. CASE UNCHANGED vars
    <2>1. parked' = parked /\ ids' = ids /\ used' = used /\ stack' = stack /\ at' = at
      BY <1>11 DEF vars, engine, session, coordinator
    <2>2. QED BY <1>3, <2>1
  <1>12. ASSUME NEW id \in Ids, ControlFails(id)
         PROVE  IdsInv'
    <2>1. /\ used'.entries = used.entries /\ used'.controls = used.controls + 1
          /\ ids' = IF ParkingId > ids THEN ParkingId ELSE ids
          /\ parked' = parked /\ stack' = stack /\ at' = "end"
          /\ ParkingId = IF Len(stack) = 1 THEN ids + 1 ELSE Top.id
      BY <1>12, ControlFailsTypes
    <2>2. stack # <<>> BY <1>12, AskTypes
    <2>3. CASE Len(stack) = 1
      <3>1. ids' = ids + 1 BY <1>2, <2>1, <2>3
      <3>2. ids' <= used'.entries + used'.controls BY <1>2, <2>1, <3>1
      <3>3. DOMAIN parked' \subseteq 1..ids' BY <1>2, <2>1, <3>1
      <3>4. \A i \in Calls' : stack'[i].id \in 1..ids'
        BY <2>1, <2>3 DEF Calls
      <3>5. QED BY <2>1, <2>3, <3>2, <3>3, <3>4 DEF IdsInv
    <2>4. CASE Len(stack) # 1
      <3>1. Top.id \in 1..ids BY <1>2, <1>4, <2>2, <2>4 DEF Calls
      <3>2. ids' = ids BY <1>2, <2>1, <2>4, <3>1
      <3>3. ids' < used'.entries + used'.controls BY <1>2, <2>1, <3>2
      <3>4. \A i \in Calls' : stack'[i].id \in 1..ids' BY <1>2, <2>1, <3>2 DEF Calls
      <3>5. DOMAIN parked' \subseteq 1..ids' /\ ids' <= used'.entries + used'.controls
        BY <1>2, <2>1, <3>2
      <3>6. QED BY <3>3, <3>4, <3>5 DEF IdsInv
    <2>5. QED BY <2>3, <2>4
  <1>13. QED BY <1>6, <1>7, <1>8, <1>9, <1>10, <1>11, <1>12 DEF Plain

\* Of the moves, parking and calling may take a new id.
LEMMA IdsMoves ==
  ASSUME IInv, Moves
  PROVE  IdsInv'
  <1>2. /\ ids \in Nat /\ used.entries \in Nat /\ used.controls \in Nat
        /\ DOMAIN parked \subseteq 1..ids /\ ids <= used.entries + used.controls
        /\ \A i \in Calls : stack[i].id \in 1..ids
        /\ DOMAIN suspended \subseteq DOMAIN parked
    <2>1. used \in Bounds /\ ids \in 0..(MaxEntries + MaxControls) BY Types
    <2>2. QED BY <2>1, Types, BoundsNatural DEF Bounds, IInv, IdsInv
  <1> DEFINE Needs == stack # <<>> /\ stack[1].kind = "entry" /\ ~(Len(stack) = 1 /\ at = "end")
  <1>3. Needs => ids < used.entries + used.controls BY DEF IInv, IdsInv
  <1>4. stack # <<>> => Len(stack) \in Nat /\ Len(stack) >= 1 /\ Top = stack[Len(stack)]
    BY Actives DEF IInv
  <1>5. stack # <<>> /\ Len(stack) # 1 => Top.id \in 1..ids
    <2>1. SUFFICES ASSUME stack # <<>>, Len(stack) # 1
                   PROVE  Top.id \in 1..ids
      OBVIOUS
    <2>2. PICK n \in Nat : n = Len(stack) /\ n > 1 BY <1>4, <2>1
    <2>3. n \in Calls BY <2>2 DEF Calls
    <2>4. QED BY <1>2, <1>4, <2>1, <2>2, <2>3
  <1>6. ASSUME DOMAIN parked' \subseteq DOMAIN parked, ids' = ids,
               used'.entries = used.entries, used'.controls = used.controls,
               Needs' => Needs, \A i \in Calls' : i \in Calls /\ stack'[i].id = stack[i].id
        PROVE  IdsInv'
    BY <1>2, <1>3, <1>6 DEF IdsInv
  <1>7. ASSUME NEW id, Returns(id, "start") \/ Returns(id, "drive")
        PROVE  DOMAIN parked' \subseteq DOMAIN parked
    BY <1>7 DEF Returns
  <1>8. ASSUME NEW id \in Ids, Parks(id)
        PROVE  IdsInv'
    <2>1. /\ stack # <<>> /\ ~Top.cancel /\ at \in {"drive", "service"} /\ at' = "end"
          /\ id = IF Len(stack) = 1 THEN ids + 1 ELSE Top.id
          /\ ids' = IF id > ids THEN id ELSE ids
          /\ DOMAIN parked' = DOMAIN parked \cup {id}
          /\ used'.entries = used.entries /\ used'.controls = used.controls /\ stack' = stack
      BY <1>8 DEF Parks
    <2>2. CASE Len(stack) = 1
      <3>1. stack[1].kind = "entry"
        <4>1. Top.kind # "control" /\ Top = stack[1] /\ Top \in Frames
          BY <2>1, <2>2, Actives DEF IInv
        <4>2. QED BY <2>1, <4>1 DEF Frames, IInv, StackInv
      <3>2. ids < used.entries + used.controls BY <1>3, <2>1, <3>1
      <3>3. ids' = ids + 1 BY <1>2, <2>1, <2>2
      <3>4. ids' <= used'.entries + used'.controls BY <1>2, <2>1, <3>2, <3>3
      <3>5. DOMAIN parked' \subseteq 1..ids' BY <1>2, <2>1, <2>2, <3>3
      <3>6. \A i \in Calls' : stack'[i].id \in 1..ids' BY <2>1, <2>2 DEF Calls
      <3>7. QED BY <2>1, <2>2, <3>4, <3>5, <3>6 DEF IdsInv
    <2>3. CASE Len(stack) # 1
      <3>1. id \in 1..ids BY <1>5, <2>1, <2>3
      <3>2. ids' = ids BY <1>2, <2>1, <3>1
      <3>3. DOMAIN parked' \subseteq 1..ids' BY <1>2, <2>1, <3>1, <3>2
      <3>4. \A i \in Calls' : stack'[i].id \in 1..ids' BY <1>2, <2>1, <3>2 DEF Calls
      <3>5. Needs' => ids' < used'.entries + used'.controls BY <1>3, <2>1, <3>2
      <3>6. ids' <= used'.entries + used'.controls BY <1>2, <2>1, <3>2
      <3>7. QED BY <3>3, <3>4, <3>5, <3>6 DEF IdsInv
    <2>4. QED BY <2>2, <2>3
  <1>9. ASSUME NEW id \in Ids, NEW pid \in Ids, NEW cancel \in BOOLEAN,
               Controlled(id, pid, cancel)
        PROVE  IdsInv'
    <2>1. /\ stack # <<>> /\ at = "drive" /\ id \in DOMAIN suspended
          /\ pid = IF Len(stack) = 1 THEN ids + 1 ELSE Top.id
          /\ ids' = IF pid > ids THEN pid ELSE ids
          /\ DOMAIN parked' = (DOMAIN parked \cup {pid}) \ {id}
          /\ used'.entries = used.entries /\ used'.controls = used.controls + 1
          /\ stack' # <<>> /\ Len(stack') = Len(stack) + 1
          /\ \A i \in 1..Len(stack) : stack'[i] = stack[i]
          /\ stack'[Len(stack) + 1] = Frame("control", pid, id, cancel)
      BY <1>9 DEF Controlled
    <2>2. pid \in 1..ids' /\ ids' \in {ids, ids + 1} /\ (ids' = ids + 1 => Len(stack) = 1)
      BY <1>2, <1>5, <2>1
    <2>3. Needs' => Needs
      <3>1. stack'[1] = stack[1] BY <1>4, <2>1
      <3>2. QED BY <2>1, <3>1
    <2>4. stack[1].kind = "entry" => ids < used.entries + used.controls BY <1>3, <2>1
    <2>5. stack'[1].kind = "entry" => ids' < used'.entries + used'.controls
      <3>1. stack'[1] = stack[1] BY <1>4, <2>1
      <3>2. QED BY <1>2, <2>1, <2>2, <2>4, <3>1
    <2>6. ids' <= used'.entries + used'.controls BY <1>2, <2>1, <2>2
    <2>7. DOMAIN parked' \subseteq 1..ids' BY <1>2, <2>1, <2>2
    <2>8. \A i \in Calls' : stack'[i].id \in 1..ids'
      <3>1. id \in 1..ids' BY <1>2, <2>1, <2>2
      <3>2. Frame("control", pid, id, cancel).id = id BY DEF Frame
      <3>3. PICK n \in Nat : n = Len(stack) /\ n >= 1 BY <1>4, <2>1
      <3>4. Calls' = 2..(n + 1) /\ Calls = 2..n BY <2>1, <3>3 DEF Calls
      <3>5. ASSUME NEW i \in Calls'
            PROVE  stack'[i].id \in 1..ids'
        <4>1. CASE i = n + 1 BY <2>1, <3>1, <3>2, <3>3, <4>1
        <4>2. CASE i # n + 1
          <5>1. i \in Calls /\ i \in 1..Len(stack) BY <3>3, <3>4, <3>5, <4>2
          <5>2. stack[i].id \in 1..ids BY <1>2, <5>1
          <5>3. stack'[i].id \in 1..ids BY <2>1, <5>1, <5>2
          <5>4. QED BY <1>2, <2>2, <5>3
        <4>3. QED BY <4>1, <4>2
      <3>6. QED BY <3>5
    <2>9. QED BY <2>5, <2>6, <2>7, <2>8 DEF IdsInv
  <1>10. ASSUME NEW id \in Ids, Resumes(id)
         PROVE  IdsInv'
    <2>1. /\ at = "retained" /\ stack' = stack /\ ids' = ids /\ used' = used
          /\ Returns(id, "start")
      BY <1>10 DEF Resumes
    <2>2. Calls' = Calls BY <2>1 DEF Calls
    <2>3. QED BY <1>6, <1>7, <2>1, <2>2
  <1>11. ASSUME Leave, Len(stack) > 1, stack # <<>>,
                at' \in {"drive", "start", "end"}
         PROVE  /\ Needs' => Needs
                /\ \A i \in Calls' : i \in Calls /\ stack'[i].id = stack[i].id
    <2>1. /\ stack' # <<>> /\ Len(stack') = Len(stack) - 1
          /\ \A i \in 1..(Len(stack) - 1) : stack'[i] = stack[i]
          /\ Calls' \subseteq Calls
      BY <1>11, LeavePops DEF IInv
    <2>2. stack'[1] = stack[1] BY <1>4, <1>11, <2>1
    <2>3. \A i \in Calls' : i \in 1..(Len(stack) - 1)
      <3>1. PICK n \in Nat : n = Len(stack) /\ n > 1 BY <1>4, <1>11
      <3>2. QED BY <2>1, <3>1 DEF Calls
    <2>4. QED BY <1>4, <1>11, <2>1, <2>2, <2>3
  <1>12. ASSUME NEW id \in Ids, Returned(id)
         PROVE  IdsInv'
    <2>1. /\ at = "retained" /\ Len(stack) > 1 /\ Leave /\ ids' = ids
          /\ used'.entries = used.entries /\ used'.controls = used.controls
          /\ Returns(id, "drive")
      BY <1>12 DEF Returned
    <2>2. at' \in {"drive", "end"} BY <2>1 DEF Returns
    <2>3. stack # <<>> BY <2>1 DEF IInv, StackInv
    <2>4. QED BY <1>6, <1>7, <1>11, <2>1, <2>2, <2>3
  <1>13. ASSUME NEW job \in Ids, NEW caller \in Ids, Retains(job, caller)
         PROVE  IdsInv'
    <2>1. /\ at = "retained" /\ Len(stack) > 1 /\ Leave /\ ids' = ids
          /\ used' = used /\ parked' = parked /\ at' = "drive"
      BY <1>13 DEF Retains
    <2>2. stack # <<>> BY <2>1 DEF IInv, StackInv
    <2>3. QED BY <1>6, <1>11, <2>1, <2>2
  <1>14. ASSUME NEW id \in Ids, Cancels(id)
         PROVE  IdsInv'
    <2>1. Calls' = {} /\ stack'[1].kind = "shutdown" BY <1>14, CancelsChains
    <2>2. ids' = ids /\ used' = used /\ DOMAIN parked' \subseteq DOMAIN parked
      BY <1>14 DEF Cancels
    <2>3. QED BY <1>6, <2>1, <2>2
  <1>15. QED BY <1>8, <1>9, <1>10, <1>12, <1>13, <1>14 DEF Moves

LEMMA HomePlain ==
  ASSUME IInv, Plain
  PROVE  HomeInv'
  <1>1. HomeInv /\ used.entries \in Nat
    <2>1. used \in Bounds BY Types
    <2>2. QED BY <2>1, BoundsNatural DEF Bounds, IInv
  <1>2. ASSUME UNCHANGED <<parked, suspended>>, used'.entries = used.entries,
               \A e \in Entries : \/ vm'[e].phase = vm[e].phase
                                  \/ vm'[e].phase # "new" /\ vm[e].phase # "new" /\ e = current,
               current' \in {0, current}, current' # 0 => Live(current)',
               frozen' \subseteq frozen \cup {held.owner}, open' \subseteq open,
               held'.owner \in {0, held.owner}, at' \in {"service", "start"} => current' # 0,
               current' # 0 /\ at' \in {"drive", "service", "start"} => held'.owner # 0
        PROVE  HomeInv'
    <2>1. \A id \in DOMAIN parked : parked[id] \in Entries /\ parked[id] # current /\ Live(parked[id])
      BY <1>1, Types DEF HomeInv
    <2>2. \A id \in DOMAIN parked' : Live(parked[id])' /\ parked'[id] # current'
      BY <1>2, <2>1, Types DEF Live
    <2>3. \A e \in Entries : vm'[e].phase = "new" <=> e > used'.entries
      BY <1>1, <1>2 DEF HomeInv
    <2>4. frozen' \cup open' \cup {held'.owner} \subseteq 0..used'.entries
      BY <1>1, <1>2 DEF HomeInv
    <2>5. \A id \in DOMAIN suspended' : suspended'[id].owner \in 1..used'.entries
      BY <1>1, <1>2 DEF HomeInv
    <2>6. DOMAIN suspended' \subseteq DOMAIN parked' /\ IsInjective(parked')
      BY <1>1, <1>2 DEF HomeInv
    <2>7. QED BY <1>2, <2>2, <2>3, <2>4, <2>5, <2>6 DEF HomeInv, Live
  <1>3. ASSUME NEW m \in Machines, Goes(m)
        PROVE  HomeInv'
    <2>1. /\ current \in Entries /\ at \in {"drive", "service", "start"}
          /\ Becomes(current, m, "drive") /\ m.phase # "new"
          /\ held' \in {held, [held EXCEPT !.pending = FALSE]}
          /\ frozen' \in {frozen, frozen \cup {held.owner}, frozen \ {held.owner}}
          /\ used'.entries = used.entries
          /\ UNCHANGED <<parked, suspended, open>>
      BY <1>3 DEF Goes, Follows
    <2>2. TypeOK BY DEF IInv, TypeInv
    <2>3. /\ \A d \in Entries \ {current} : vm'[d] = vm[d]
          /\ IF m.phase = "over"
             THEN vm'[current].phase = "over" /\ current' = 0 /\ at' = "end"
             ELSE vm'[current] = m /\ current' = current /\ at' = "drive"
      BY <2>1, <2>2, BecomesTypes
    <2>4. m.phase \in {"body", "cleanup", "over"} BY <2>1 DEF Machines
    <2>5. held'.owner = held.owner
      <3>1. held \in Records BY Types
      <3>2. QED BY <2>1, <3>1 DEF Records
    <2>6. current # 0 /\ held.owner # 0 /\ vm[current].phase # "new"
      BY <1>1, <2>1, Types DEF HomeInv, Live
    <2>7. current' # 0 => Live(current)' BY <2>3, <2>4 DEF Live
    <2>8. QED BY <1>2, <2>1, <2>3, <2>4, <2>5, <2>6, <2>7
  <1>4. ASSUME NEW release \in BOOLEAN, Evaluate(release)
        PROVE  HomeInv'
    <2> DEFINE e == used.entries + 1
    <2>1. /\ e \in Entries /\ used'.entries = e
          /\ \A d \in Entries \ {e} : vm'[d] = vm[d]
          /\ vm'[e].phase = IF current = 0 THEN "body" ELSE "over"
      BY <1>4, EvaluateTypes
    <2>2. /\ at = "prompt" /\ UNCHANGED <<parked, suspended, frozen>>
          /\ IF current = 0
             THEN /\ current' = e /\ open' = open \cup {e} /\ at' = "drive"
                  /\ held' = [held EXCEPT !.owner = e]
             ELSE UNCHANGED <<current, held, open, at>>
      BY <1>4 DEF Evaluate
    <2>3. held'.owner = IF current = 0 THEN e ELSE held.owner
      <3>1. held \in Records BY Types
      <3>2. QED BY <2>2, <3>1 DEF Records
    <2>4. vm[e].phase = "new" /\ e \in Nat /\ e # 0 BY <1>1, <2>1 DEF HomeInv
    <2> HIDE DEF e
    <2>5. \A d \in Entries : Live(d) => d # e /\ Live(d)' BY <2>1, <2>4 DEF Live
    <2>6. \A id \in DOMAIN parked' : Live(parked[id])' /\ parked'[id] # current'
      <3>1. \A id \in DOMAIN parked : /\ parked[id] \in Entries /\ parked[id] # current
                                      /\ Live(parked[id])
        BY <1>1, Types DEF HomeInv
      <3>2. \A id \in DOMAIN parked : parked[id] # e /\ vm'[parked[id]].phase \in {"body", "cleanup"}
        BY <2>5, <3>1 DEF Live
      <3>3. QED BY <2>2, <3>1, <3>2 DEF Live
    <2>7. current' # 0 => Live(current)'
      <3>1. CASE current = 0 BY <2>1, <2>2, <3>1 DEF Live
      <3>2. CASE current # 0
        <4>1. current \in Entries /\ Live(current) BY <1>1, <3>2, Types DEF HomeInv, Entries
        <4>2. QED BY <2>2, <2>5, <3>2, <4>1 DEF Live
      <3>3. QED BY <3>1, <3>2
    <2>8. \A d \in Entries : vm'[d].phase = "new" <=> d > used'.entries
      <3>1. \A d \in Entries : d \in Nat BY DEF Entries
      <3>2. \A d \in Entries : d > e <=> d > used.entries /\ d # e BY <1>1, <3>1 DEF e
      <3>3. \A d \in Entries \ {e} : vm'[d].phase = "new" <=> d > used.entries
        BY <1>1, <2>1 DEF HomeInv
      <3>4. QED BY <2>1, <2>4, <3>2, <3>3
    <2>9. frozen' \cup open' \cup {held'.owner} \subseteq 0..used'.entries
      <3>1. frozen \cup open \cup {held.owner} \subseteq 0..e /\ e \in 0..e
        BY <1>1, <2>4 DEF HomeInv, e
      <3>2. QED BY <2>1, <2>2, <2>3, <3>1
    <2>10. \A id \in DOMAIN suspended' : suspended'[id].owner \in 1..used'.entries
      <3>1. 1..used.entries \subseteq 1..e BY <1>1 DEF e
      <3>2. QED BY <1>1, <2>1, <2>2, <3>1 DEF HomeInv
    <2>11. /\ at' \in {"service", "start"} => current' # 0
           /\ current' # 0 /\ at' \in {"drive", "service", "start"} => held'.owner # 0
      BY <2>2, <2>3, <2>4
    <2>12. DOMAIN suspended' \subseteq DOMAIN parked' /\ IsInjective(parked')
      BY <1>1, <2>2 DEF HomeInv
    <2>13. QED BY <2>6, <2>7, <2>8, <2>9, <2>10, <2>11, <2>12 DEF HomeInv, Live
  <1>5. current # 0 => Live(current) BY <1>1 DEF HomeInv
  <1>6. CASE Idle \/ BeginShutdown \/ ShutdownReturns \/ ShutdownEnds
    <2>1. /\ UNCHANGED <<vm, parked, suspended, current, used, frozen, open, held>>
          /\ at' \in {"end", "shutdown", "ended"}
      BY <1>6 DEF Idle, BeginShutdown, ShutdownReturns, ShutdownEnds, engine, session, resources
    <2>2. QED BY <1>2, <1>5, <2>1 DEF Live
  <1>7. CASE Continue \/ Serve \/ StartResumed
    <2>1. /\ UNCHANGED <<parked, suspended, current, used, open>>
          /\ frozen' \subseteq frozen /\ at \in {"drive", "start"}
          /\ held' \in {held, [held EXCEPT !.pending = FALSE]}
          /\ (at = "drive" => current # 0) /\ (Serve \/ vm' = vm)
      BY <1>7 DEF Continue, Serve, StartResumed, engine, session, resources, Runs, Driving
    <2>2. held'.owner = held.owner
      <3>1. held \in Records BY Types
      <3>2. QED BY <2>1, <3>1 DEF Records
    <2>3. current # 0 /\ held.owner # 0 BY <1>1, <2>1 DEF HomeInv
    <2>4. \A e \in Entries : vm'[e].phase = vm[e].phase
      BY <2>1, AskTypes
    <2>5. current \in Entries BY <2>3, Types DEF Entries
    <2>6. QED BY <1>2, <1>5, <2>1, <2>2, <2>3, <2>4, <2>5 DEF Live
  <1>8. ASSUME NEW id \in Ids, ControlFails(id)
        PROVE  HomeInv'
    <2>1. /\ current \in Entries /\ at = "drive"
          /\ \A e \in Entries \ {current} : vm'[e] = vm[e]
          /\ vm'[current].phase = vm[current].phase
      BY <1>8, AskTypes
    <2>2. /\ used'.entries = used.entries /\ at' = "end"
          /\ frozen' \in {frozen, frozen \cup {held.owner}}
          /\ UNCHANGED <<current, parked, held, suspended, open>>
      BY <1>8, ControlFailsTypes
    <2>3. \A e \in Entries : vm'[e].phase = vm[e].phase BY <2>1
    <2>4. QED BY <1>2, <1>5, <2>1, <2>2, <2>3 DEF Live
  <1>9. CASE Finish
    <2>1. /\ held'.owner = 0 /\ open' = open \ {held.owner} /\ frozen' = frozen \ {held.owner}
          /\ UNCHANGED <<vm, current, parked, suspended, used>> /\ at' \in {"prompt", "retained"}
      BY <1>9, FinishTypes
    <2>2. QED BY <1>2, <1>5, <2>1 DEF Live
  <1>10. CASE UNCHANGED vars
    <2>1. /\ UNCHANGED <<vm, parked, suspended, current, used, frozen, open, held, at>>
      BY <1>10 DEF vars, engine, session, resources, coordinator
    <2>2. QED BY <1>1, <2>1 DEF HomeInv, Live
  <1>11. QED BY <1>3, <1>4, <1>6, <1>7, <1>8, <1>9, <1>10 DEF Plain

LEMMA HomeMoves ==
  ASSUME IInv, Moves
  PROVE  HomeInv'
  <1>1. HomeInv /\ used.entries \in Nat
    <2>1. used \in Bounds BY Types
    <2>2. QED BY <2>1, BoundsNatural DEF Bounds, IInv
  <1>2. \A i \in DOMAIN parked : /\ parked[i] \in Entries /\ parked[i] # current /\ Live(parked[i])
                                 /\ parked[i] # 0
    BY <1>1, Types DEF HomeInv
  <1>3. \A i, j \in DOMAIN parked : parked[i] = parked[j] => i = j
    BY <1>1 DEF HomeInv, IsInjective
  <1>4. \A e \in Entries : Live(e) => e <= used.entries BY <1>1 DEF HomeInv, Live, Entries
  <1>5. \A i \in DOMAIN suspended : suspended[i].owner \in 1..used.entries /\ i \in DOMAIN parked
    BY <1>1 DEF HomeInv
  <1>6. frozen \cup open \cup {held.owner} \subseteq 0..used.entries BY <1>1 DEF HomeInv
  <1>7. ASSUME NEW id \in Ids, Parks(id)
        PROVE  HomeInv'
    <2>1. /\ current \in Entries /\ vm[current].phase = "body" /\ at \in {"drive", "service"}
          /\ frozen' = frozen \cup {held.owner}
          /\ DOMAIN parked' = DOMAIN parked \cup {id} /\ parked'[id] = current
          /\ \A i \in DOMAIN parked \ {id} : parked'[i] = parked[i]
          /\ DOMAIN suspended' = DOMAIN suspended \cup {id}
          /\ suspended'[id].owner = held.owner /\ id \notin DOMAIN suspended
          /\ \A i \in DOMAIN suspended : suspended'[i] = suspended[i]
          /\ current' = 0 /\ held' = Nothing /\ at' = "end"
          /\ used'.entries = used.entries /\ vm' = vm /\ open' = open
      BY <1>7 DEF Parks
    <2>2. current # 0 /\ held.owner # 0 BY <1>1, <2>1, Types DEF HomeInv
    <2>3. \A i \in DOMAIN parked' : Live(parked[i])' /\ parked'[i] # current'
      <3>1. ASSUME NEW i \in DOMAIN parked'
            PROVE  vm[parked'[i]].phase \in {"body", "cleanup"} /\ parked'[i] # 0
        BY <1>2, <2>1, <2>2, <3>1 DEF Live
      <3>2. QED BY <2>1, <3>1 DEF Live
    <2>4. IsInjective(parked')
      <3>1. \A i, j \in DOMAIN parked' : parked'[i] = parked'[j] => i = j
        BY <1>2, <1>3, <2>1
      <3>2. QED BY <3>1 DEF IsInjective
    <2>5. \A e \in Entries : vm'[e].phase = "new" <=> e > used'.entries
      BY <1>1, <2>1 DEF HomeInv
    <2>6. frozen' \cup open' \cup {held'.owner} \subseteq 0..used'.entries
      BY <1>1, <1>6, <2>1 DEF Nothing
    <2>7. \A i \in DOMAIN suspended' : suspended'[i].owner \in 1..used'.entries
      BY <1>1, <1>5, <1>6, <2>1, <2>2
    <2>8. DOMAIN suspended' \subseteq DOMAIN parked' BY <1>5, <2>1
    <2>9. QED BY <2>1, <2>3, <2>4, <2>5, <2>6, <2>7, <2>8 DEF HomeInv
  <1>8. ASSUME NEW id \in Ids, NEW pid \in Ids, NEW cancel \in BOOLEAN,
               Controlled(id, pid, cancel)
        PROVE  HomeInv'
    <2>1. /\ current \in Entries /\ at = "drive" /\ id \in DOMAIN suspended /\ id # pid
          /\ frozen' = frozen \cup {held.owner}
          /\ \A e \in Entries \ {current} : vm'[e] = vm[e]
          /\ vm'[current].phase = vm[current].phase
          /\ DOMAIN parked' = (DOMAIN parked \cup {pid}) \ {id} /\ parked'[pid] = current
          /\ \A i \in DOMAIN parked \ {pid, id} : parked'[i] = parked[i]
          /\ DOMAIN suspended' = (DOMAIN suspended \cup {pid}) \ {id} /\ suspended'[pid] = held
          /\ pid \notin DOMAIN suspended
          /\ \A i \in DOMAIN suspended \ {id} : suspended'[i] = suspended[i]
          /\ current' = parked[id] /\ held' = suspended[id] /\ at' = "start"
          /\ used'.entries = used.entries /\ open' = open
      BY <1>8 DEF Controlled
    <2>2. current # 0 /\ held.owner # 0 /\ Live(current) BY <1>1, <2>1, Types DEF HomeInv
    <2>3. id \in DOMAIN parked BY <1>5, <2>1
    <2>4. \A e \in Entries : vm'[e].phase = vm[e].phase BY <2>1
    <2>5. \A i \in DOMAIN parked' : Live(parked[i])' /\ parked'[i] # current'
      <3>1. ASSUME NEW i \in DOMAIN parked'
            PROVE  vm'[parked'[i]].phase \in {"body", "cleanup"} /\ parked'[i] # parked[id]
        <4>1. CASE i = pid
          <5>1. parked'[i] = current /\ vm'[current].phase \in {"body", "cleanup"}
            BY <2>1, <2>2, <4>1 DEF Live
          <5>2. QED BY <1>2, <2>3, <5>1
        <4>2. CASE i # pid
          <5>1. i \in DOMAIN parked /\ i # id /\ parked'[i] = parked[i] BY <2>1, <3>1, <4>2
          <5>2. QED BY <1>2, <1>3, <2>3, <2>4, <5>1 DEF Live
        <4>3. QED BY <4>1, <4>2
      <3>2. QED BY <2>1, <3>1 DEF Live
    <2>6. IsInjective(parked')
      <3>1. \A i, j \in DOMAIN parked' : parked'[i] = parked'[j] => i = j
        BY <1>2, <1>3, <2>1
      <3>2. QED BY <3>1 DEF IsInjective
    <2>7. \A e \in Entries : vm'[e].phase = "new" <=> e > used'.entries
      BY <1>1, <2>1, <2>4 DEF HomeInv
    <2>8. held'.owner \in 1..used.entries BY <1>5, <2>1
    <2>9. frozen' \cup open' \cup {held'.owner} \subseteq 0..used'.entries
      BY <1>1, <1>6, <2>1, <2>8
    <2>10. \A i \in DOMAIN suspended' : suspended'[i].owner \in 1..used'.entries
      BY <1>1, <1>5, <1>6, <2>1, <2>2
    <2>11. DOMAIN suspended' \subseteq DOMAIN parked' BY <1>5, <2>1
    <2>12. current' # 0 /\ Live(current)' /\ held'.owner # 0
      <3>1. vm'[parked[id]].phase \in {"body", "cleanup"} /\ parked[id] # 0
        BY <1>2, <2>3, <2>4 DEF Live
      <3>2. QED BY <1>1, <2>1, <2>8, <3>1 DEF Live
    <2>13. QED BY <2>1, <2>5, <2>6, <2>7, <2>9, <2>10, <2>11, <2>12 DEF HomeInv
  <1>9. ASSUME NEW id \in Ids, NEW next \in {"start", "drive"}, Returns(id, next),
               id \in DOMAIN suspended, at = "retained",
               held'.owner = suspended[id].owner, DOMAIN suspended' = DOMAIN suspended \ {id},
               \A i \in DOMAIN suspended \ {id} : suspended'[i] = suspended[i],
               frozen' \subseteq frozen, open' = open, used'.entries = used.entries
        PROVE  HomeInv'
    <2>1. id \in DOMAIN parked /\ held'.owner \in 1..used.entries BY <1>5, <1>9
    <2>2. /\ frozen' \cup open' \cup {held'.owner} \subseteq 0..used'.entries
          /\ \A i \in DOMAIN suspended' : suspended'[i].owner \in 1..used'.entries
      BY <1>1, <1>5, <1>6, <1>9, <2>1
    <2>3. CASE current # 0 /\ at' = "end" /\ UNCHANGED <<vm, current, parked>>
      BY <1>1, <1>5, <1>9, <2>2, <2>3 DEF HomeInv, Live
    <2>4. CASE /\ current = 0
               /\ DOMAIN parked' = DOMAIN parked \ {id}
               /\ \A i \in DOMAIN parked \ {id} : parked'[i] = parked[i]
               /\ \/ vm'[parked[id]].phase = "over" /\ current' = 0 /\ at' = "end"
                  \/ /\ vm'[parked[id]].phase \in {"body", "cleanup"}
                     /\ current' = parked[id] /\ at' = next
      <3>1. /\ parked[id] \in Entries /\ \A e \in Entries \ {parked[id]} : vm'[e] = vm[e]
            /\ vm'[parked[id]].phase # "new" /\ vm[parked[id]].phase # "new"
        BY <1>2, <1>9, <2>1, <2>4 DEF Returns, Live
      <3>2. \A e \in Entries : vm'[e].phase = "new" <=> e > used'.entries
        BY <1>1, <1>9, <3>1 DEF HomeInv
      <3>3. \A i \in DOMAIN parked' : Live(parked[i])' /\ parked'[i] # current'
        <4>1. ASSUME NEW i \in DOMAIN parked'
              PROVE  vm'[parked'[i]].phase \in {"body", "cleanup"} /\ parked'[i] # parked[id]
                     /\ parked'[i] # 0
          <5>1. i \in DOMAIN parked /\ i # id /\ parked'[i] = parked[i] BY <2>4, <4>1
          <5>2. parked[i] # parked[id] /\ parked[i] \in Entries BY <1>2, <1>3, <2>1, <5>1
          <5>3. QED BY <1>2, <3>1, <5>1, <5>2 DEF Live
        <4>2. QED BY <2>4, <4>1 DEF Live
      <3>4. IsInjective(parked')
        <4>1. \A i, j \in DOMAIN parked' : parked'[i] = parked'[j] => i = j
          BY <1>3, <2>4
        <4>2. QED BY <4>1 DEF IsInjective
      <3>5. current' # 0 => Live(current)' /\ held'.owner # 0
        BY <1>1, <2>1, <2>4 DEF Live
      <3>6. at' \in {"service", "start"} => current' # 0
        BY <1>2, <1>9, <2>1, <2>4
      <3>7. DOMAIN suspended' \subseteq DOMAIN parked' BY <1>5, <1>9, <2>4
      <3>8. QED BY <2>2, <3>2, <3>3, <3>4, <3>5, <3>6, <3>7 DEF HomeInv
    <2>5. QED BY <1>9, <2>3, <2>4 DEF Returns
  <1>10. ASSUME NEW id \in Ids, Resumes(id)
         PROVE  HomeInv'
    <2>1. /\ id \in DOMAIN suspended /\ at = "retained" /\ Returns(id, "start")
          /\ held'.owner = suspended[id].owner /\ DOMAIN suspended' = DOMAIN suspended \ {id}
          /\ \A i \in DOMAIN suspended \ {id} : suspended'[i] = suspended[i]
          /\ UNCHANGED <<frozen, open, used>>
      BY <1>10 DEF Resumes
    <2>2. QED BY <1>9, <2>1
  <1>11. ASSUME NEW id \in Ids, Returned(id)
         PROVE  HomeInv'
    <2>1. /\ id \in DOMAIN suspended /\ at = "retained" /\ Returns(id, "drive")
          /\ held' = suspended[id] /\ DOMAIN suspended' = DOMAIN suspended \ {id}
          /\ \A i \in DOMAIN suspended \ {id} : suspended'[i] = suspended[i]
          /\ frozen' \subseteq frozen /\ open' = open /\ used'.entries = used.entries
      BY <1>11 DEF Returned
    <2>2. QED BY <1>9, <2>1
  <1>12. ASSUME NEW id \in Ids, Cancels(id)
         PROVE  HomeInv'
    <2>1. /\ id \in DOMAIN suspended /\ current = 0
          /\ DOMAIN parked' = DOMAIN parked \ {id}
          /\ \A i \in DOMAIN parked \ {id} : parked'[i] = parked[i]
          /\ DOMAIN suspended' = DOMAIN suspended \ {id}
          /\ \A i \in DOMAIN suspended \ {id} : suspended'[i] = suspended[i]
          /\ current' = parked[id] /\ held' = suspended[id] /\ at' = "start"
          /\ UNCHANGED <<vm, frozen, open, used>>
      BY <1>12 DEF Cancels
    <2>2. id \in DOMAIN parked /\ held'.owner \in 1..used.entries BY <1>5, <2>1
    <2>3. \A i \in DOMAIN parked' : Live(parked[i])' /\ parked'[i] # current'
      <3>1. ASSUME NEW i \in DOMAIN parked'
            PROVE  i \in DOMAIN parked /\ parked'[i] = parked[i] /\ parked[i] # parked[id]
        BY <1>3, <2>1, <2>2, <3>1
      <3>2. QED BY <1>2, <2>1, <3>1 DEF Live
    <2>4. IsInjective(parked')
      <3>1. \A i, j \in DOMAIN parked' : parked'[i] = parked'[j] => i = j BY <1>3, <2>1
      <3>2. QED BY <3>1 DEF IsInjective
    <2>5. current' # 0 /\ Live(current)' /\ held'.owner # 0
      <3>1. parked[id] # 0 /\ Live(parked[id]) BY <1>2, <2>2
      <3>2. QED BY <1>1, <2>1, <2>2, <3>1 DEF Live
    <2>6. /\ frozen' \cup open' \cup {held'.owner} \subseteq 0..used'.entries
          /\ \A i \in DOMAIN suspended' : suspended'[i].owner \in 1..used'.entries
      BY <1>1, <1>5, <1>6, <2>1, <2>2
    <2>7. \A e \in Entries : vm'[e].phase = "new" <=> e > used'.entries
      BY <1>1, <2>1 DEF HomeInv
    <2>8. DOMAIN suspended' \subseteq DOMAIN parked' BY <1>5, <2>1
    <2>9. QED BY <2>3, <2>4, <2>5, <2>6, <2>7, <2>8 DEF HomeInv
  <1>13. ASSUME NEW job \in Ids, NEW caller \in Ids, Retains(job, caller)
         PROVE  HomeInv'
    <2>1. /\ Len(stack) > 1 /\ job = Top.id /\ job \in DOMAIN suspended
          /\ DOMAIN suspended' = DOMAIN suspended
          /\ suspended'[job].owner = suspended[job].owner
          /\ \A i \in DOMAIN suspended \ {job} : suspended'[i] = suspended[i]
          /\ at' = "drive"
          /\ UNCHANGED <<vm, current, parked, held, frozen, open, used>>
      BY <1>13 DEF Retains
    <2>2. current = 0 BY <2>1 DEF IInv, TopInv
    <2>3. \A i \in DOMAIN suspended' : suspended'[i].owner \in 1..used'.entries
      BY <1>5, <2>1
    <2>4. QED BY <1>1, <2>1, <2>2, <2>3 DEF HomeInv, Live
  <1>14. QED BY <1>7, <1>8, <1>10, <1>11, <1>12, <1>13 DEF Moves

LEMMA TopKept ==
  ASSUME IInv, Plain \/ Moves
  PROVE  TopInv'
  <1>0. TopInv BY DEF IInv
  <1>1. CASE Plain
    <2>1. SameChains BY <1>1, PlainChains
    <2>2. Len(stack) > 1 => current' = current \/ current # 0
      <3>1. ASSUME NEW m \in Machines, Goes(m)
            PROVE  current # 0
        BY <3>1, Types DEF Goes
      <3>2. ASSUME NEW release \in BOOLEAN, Evaluate(release)
            PROVE  stack = <<>>
        BY <3>2 DEF Evaluate, IInv, StackInv
      <3>3. stack = <<>> => ~(Len(stack) > 1) BY EmptyStack
      <3>4. \/ Idle \/ Continue \/ Serve \/ (\E id \in Ids : ControlFails(id))
            \/ StartResumed \/ Finish \/ BeginShutdown \/ ShutdownReturns \/ ShutdownEnds
            \/ UNCHANGED vars
            => current' = current
        BY DEF Idle, Continue, Serve, ControlFails, StartResumed, Finish, BeginShutdown,
               ShutdownReturns, ShutdownEnds, vars, engine
      <3>5. QED BY <1>1, <3>1, <3>2, <3>3, <3>4 DEF Plain
    <2>3. QED BY <1>0, <2>1, <2>2 DEF SameChains, TopInv
  <1>2. ASSUME NEW id \in Ids, Parks(id)
        PROVE  TopInv'
    BY <1>2 DEF Parks, Nothing, TopInv
  <1>3. ASSUME NEW id \in Ids, NEW pid \in Ids, NEW cancel \in BOOLEAN,
               Controlled(id, pid, cancel)
        PROVE  TopInv'
    <2>1. Top'.id = id /\ id \notin DOMAIN suspended' BY <1>3 DEF Controlled, Frame
    <2>2. QED BY <2>1 DEF TopInv
  <1>4. ASSUME NEW id \in Ids, Resumes(id)
        PROVE  TopInv'
    <2>1. /\ held.resumers # <<>> /\ stack' = stack
          /\ DOMAIN suspended' = DOMAIN suspended \ {id}
      BY <1>4 DEF Resumes
    <2>2. QED BY <1>0, <2>1 DEF TopInv, Top
  <1>5. ASSUME NEW id \in Ids, Returned(id)
        PROVE  TopInv'
    <2>1. /\ Len(stack) > 1 /\ Leave /\ DOMAIN suspended' = DOMAIN suspended \ {id}
          /\ at' \in {"end", "drive"}
      BY <1>5 DEF Returned, Returns
    <2>2. Len(stack) > 2 => Top'.id = id BY <1>5, ReturnedChains
    <2>3. Len(stack') = Len(stack) - 1 BY <2>1, LeavePops DEF IInv
    <2>4. PICK n \in Nat : n = Len(stack) BY LenProperties DEF IInv, TypeInv
    <2>5. QED BY <2>1, <2>2, <2>3, <2>4 DEF TopInv
  <1>6. ASSUME NEW id \in Ids, Cancels(id)
        PROVE  TopInv'
    <2>1. Len(stack') = 1 BY <1>6, CancelsChains
    <2>2. QED BY <2>1 DEF TopInv
  <1>7. ASSUME NEW job \in Ids, NEW caller \in Ids, Retains(job, caller)
        PROVE  TopInv'
    <2>1. /\ Len(stack) > 1 /\ job = Top.id /\ job \in DOMAIN suspended
          /\ UNCHANGED <<current, held>>
      BY <1>7 DEF Retains
    <2>2. QED BY <1>0, <2>1 DEF TopInv
  <1>8. QED BY <1>1, <1>2, <1>3, <1>4, <1>5, <1>6, <1>7 DEF Moves

LEMMA NothingHeld ==
  ASSUME NEW r \in Records, r.owner = 0, ~r.pending, r.resumers = <<>>
  PROVE  r = Nothing
  BY DEF Records, Nothing
LEMMA HeldPlain ==
  ASSUME IInv, Plain
  PROVE  HeldInv'
  <1>0. HeldInv BY DEF IInv
  <1>1. SameChains /\ StackInv' BY PlainChains
  <1>2. stack # <<>> => Len(stack) \in Nat /\ Len(stack) >= 1 /\ Top = stack[Len(stack)]
    BY Actives DEF IInv
  <1> DEFINE Last5 == stack # <<>> /\ stack[1].kind = "entry" =>
                        IF Len(stack) = 1 THEN held.resumers = <<>>
                        ELSE suspended[stack[2].caller].resumers = <<>>
  <1>3. ASSUME SameCalls \/ stack' = stack, stack # <<>>
        PROVE  Last5' /\ stack' # <<>>
    <2>1. Len(stack') = Len(stack) /\ stack'[1].kind = stack[1].kind
      BY <1>2, <1>3 DEF SameCalls
    <2>2. Len(stack) # 1 => stack'[2].caller = stack[2].caller
      <3>1. PICK n \in Nat : n = Len(stack) /\ n >= 1 BY <1>2, <1>3
      <3>2. n # 1 => 2 \in 1..n BY <3>1
      <3>3. QED BY <1>3, <3>1, <3>2 DEF SameCalls
    <2>3. stack' # <<>>
      <3>1. Len(stack') # 0 BY <1>2, <1>3, <2>1
      <3>2. QED BY <3>1
    <2>4. QED BY <1>0, <1>1, <1>3, <2>1, <2>2, <2>3 DEF HeldInv, SameChains
  <1>4. ASSUME NEW m \in Machines, Goes(m)
        PROVE  HeldInv'
    <2>1. /\ stack # <<>> /\ SameCalls /\ ~held'.pending /\ at' \in {"end", "drive"}
      BY <1>4 DEF Goes, Becomes
    <2>2. QED BY <1>3, <2>1 DEF HeldInv
  <1>5. ASSUME NEW release \in BOOLEAN, Evaluate(release)
        PROVE  HeldInv'
    <2>1. at = "prompt" BY <1>5 DEF Evaluate
    <2>2. stack = <<>> /\ held = Nothing BY <1>0, <2>1 DEF IInv, StackInv, HeldInv
    <2>3. CASE current = 0
      <3>1. /\ stack' = <<Frame("entry", 0, 0, FALSE)>> /\ at' = "drive"
            /\ current' = used.entries + 1 /\ used.entries + 1 \in Entries
        BY <1>5, <2>3, EvaluateTypes DEF Evaluate
      <3>2. stack' # <<>> /\ Len(stack') = 1 BY <3>1
      <3>3. held'.resumers = <<>> BY <1>1, <2>2 DEF SameChains, Nothing
      <3>4. current' # 0 BY <3>1, Types
      <3>5. QED BY <3>1, <3>2, <3>3, <3>4 DEF HeldInv
    <2>4. CASE current # 0
      <3>1. UNCHANGED <<held, stack, at>> BY <1>5, <2>4 DEF Evaluate
      <3>2. QED BY <2>1, <2>2, <3>1 DEF HeldInv
    <2>5. QED BY <2>3, <2>4
  <1>6. CASE Idle \/ Continue \/ Serve \/ StartResumed
    <2>1. /\ at \in {"drive", "start"} /\ stack # <<>>
      BY <1>6 DEF Idle, Continue, Serve, StartResumed, Runs, Driving, IInv, StackInv
    <2>2. SameCalls \/ stack' = stack
      <3>1. CASE StartResumed
        <4>1. stack' = WithTop([Top EXCEPT !.stopping = FALSE])
          BY <3>1 DEF StartResumed, NewSegment
        <4>2. stack \in Seq(Frames) /\ Top \in Frames
          BY <2>1, Actives DEF IInv, StackInv, TypeInv
        <4>3. QED BY <2>1, <4>1, <4>2, ReplacedTop DEF Frames
      <3>2. QED BY <1>6, <3>1 DEF Idle, Continue, Serve
    <2>3. \/ at' \in {"end", "service"} /\ ~held'.pending
          \/ at' = "drive" /\ current' # 0
      <3>1. CASE Idle BY <1>0, <3>1 DEF Idle, session, HeldInv
      <3>2. CASE Continue
        <4>1. held \in Records BY Types
        <4>2. QED BY <3>2, <4>1 DEF Continue, Records
      <3>3. CASE Serve BY <3>3 DEF Serve, Runs, Driving, session
      <3>4. CASE StartResumed BY <3>4 DEF StartResumed, engine, IInv, HomeInv
      <3>5. QED BY <1>6, <3>1, <3>2, <3>3, <3>4
    <2>4. QED BY <1>3, <2>1, <2>2, <2>3 DEF HeldInv
  <1>7. ASSUME NEW id \in Ids, ControlFails(id)
        PROVE  HeldInv'
    <2>1. ~held.pending /\ stack # <<>> BY <1>7, AskTypes
    <2>2. at' = "end" /\ held' = held /\ stack' = stack BY <1>7, ControlFailsTypes
    <2>3. QED BY <1>3, <2>1, <2>2 DEF HeldInv
  <1>8. CASE Finish
    <2>1. /\ at = "end" /\ stack # <<>> /\ held' \in Records /\ held'.owner = 0 /\ ~held'.pending
          /\ held'.resumers = held.resumers
          /\ \/ Top.kind = "entry" /\ Len(stack) = 1 /\ stack' = <<>> /\ at' = "prompt"
             \/ Top.kind # "entry" /\ SameCalls /\ stack' # <<>> /\ at' = "retained"
      BY <1>8, FinishTypes
    <2>2. CASE at' = "prompt"
      <3>1. held.resumers = <<>> BY <1>0, <1>2, <2>1, <2>2 DEF HeldInv
      <3>2. held' = Nothing BY <2>1, <3>1, NothingHeld
      <3>3. QED BY <2>1, <2>2, <3>2 DEF HeldInv
    <2>3. CASE at' = "retained" BY <1>3, <2>1, <2>3 DEF HeldInv
    <2>4. QED BY <2>1, <2>2, <2>3
  <1>9. CASE BeginShutdown \/ ShutdownReturns \/ ShutdownEnds
    <2>1. held' = held /\ at' \in {"shutdown", "ended"}
      BY <1>9 DEF BeginShutdown, ShutdownReturns, ShutdownEnds, session
    <2>2. stack' = <<>> BY <1>1, <2>1 DEF StackInv
    <2>3. held = Nothing
      <3>1. CASE ShutdownReturns
        <4>1. at = "retained" /\ held.resumers = <<>> BY <3>1 DEF ShutdownReturns, ChainOver
        <4>2. held.owner = 0 /\ ~held.pending /\ held \in Records BY <1>0, <4>1, Types DEF HeldInv
        <4>3. QED BY <4>1, <4>2, NothingHeld
      <3>2. CASE BeginShutdown \/ ShutdownEnds
        <4>1. at \in {"prompt", "shutdown"} BY <3>2 DEF BeginShutdown, ShutdownEnds
        <4>2. QED BY <1>0, <4>1 DEF IInv, StackInv, HeldInv
      <3>3. QED BY <1>9, <3>1, <3>2
    <2>4. QED BY <2>1, <2>2, <2>3 DEF HeldInv
  <1>10. CASE UNCHANGED vars
    <2>1. UNCHANGED <<held, stack, at, current, suspended>>
      BY <1>10 DEF vars, engine, session, coordinator
    <2>2. QED BY <1>0, <2>1 DEF HeldInv
  <1>11. QED BY <1>4, <1>5, <1>6, <1>7, <1>8, <1>9, <1>10 DEF Plain

LEMMA HeldMoves ==
  ASSUME IInv, Moves
  PROVE  HeldInv'
  <1>0. HeldInv BY DEF IInv
  <1>1. /\ Callers \subseteq DOMAIN suspended /\ stack \in Seq(Frames)
        /\ \A i \in Calls : stack[i].caller \in Callers
    BY DEF IInv, ChainInv, TypeInv, Callers
  <1>2. stack # <<>> => Len(stack) \in Nat /\ Len(stack) >= 1 BY Actives DEF IInv
  <1>3. stack # <<>> /\ Len(stack) # 1 => stack[2].caller \in Callers /\ 2 \in Calls
    <2>1. SUFFICES ASSUME stack # <<>>, Len(stack) # 1
                   PROVE  stack[2].caller \in Callers /\ 2 \in Calls
      OBVIOUS
    <2>2. PICK n \in Nat : n = Len(stack) /\ n > 1 BY <1>2, <2>1
    <2>3. 2 \in Calls BY <2>2 DEF Calls
    <2>4. QED BY <1>1, <2>3
  <1>4. ASSUME NEW id \in Ids, Parks(id)
        PROVE  HeldInv'
    <2>1. /\ stack # <<>> /\ stack' = stack /\ held' = Nothing /\ at' = "end"
          /\ \A i \in DOMAIN suspended : suspended'[i] = suspended[i]
      BY <1>4 DEF Parks
    <2>2. Len(stack) # 1 => suspended'[stack[2].caller] = suspended[stack[2].caller]
      BY <1>1, <1>3, <2>1
    <2>3. ~held'.pending /\ held'.resumers = <<>> BY <2>1 DEF Nothing
    <2>4. QED BY <1>0, <2>1, <2>2, <2>3 DEF HeldInv
  <1>5. ASSUME NEW id \in Ids, NEW pid \in Ids, NEW cancel \in BOOLEAN,
               Controlled(id, pid, cancel)
        PROVE  HeldInv'
    <2>1. /\ stack # <<>> /\ at' = "start" /\ id \notin Callers /\ pid \notin Callers
          /\ suspended'[pid] = held
          /\ \A i \in DOMAIN suspended \ {id} : suspended'[i] = suspended[i]
          /\ stack' # <<>> /\ Len(stack') = Len(stack) + 1
          /\ \A i \in 1..Len(stack) : stack'[i] = stack[i]
          /\ stack'[Len(stack) + 1] = Frame("control", pid, id, cancel)
      BY <1>5 DEF Controlled
    <2>2. stack'[1] = stack[1] /\ Len(stack') # 1 BY <1>2, <2>1
    <2>3. stack[1].kind = "entry" => suspended'[stack'[2].caller].resumers = <<>>
      <3>1. CASE Len(stack) = 1
        <4>1. stack'[2].caller = pid BY <2>1, <3>1 DEF Frame
        <4>2. QED BY <1>0, <2>1, <3>1, <4>1 DEF HeldInv
      <3>2. CASE Len(stack) # 1
        <4>1. stack'[2] = stack[2]
          <5>0. Len(stack) \in Nat /\ Len(stack) >= 1 BY <1>2, <2>1
          <5>1. PICK n \in Nat : n = Len(stack) /\ n >= 1 BY <5>0
          <5>2. n # 1 => 2 \in 1..n BY <5>1
          <5>3. QED BY <2>1, <3>2, <5>1, <5>2
        <4>2. suspended'[stack[2].caller] = suspended[stack[2].caller]
          BY <1>1, <1>3, <2>1, <3>2
        <4>3. QED BY <1>0, <2>1, <3>2, <4>1, <4>2 DEF HeldInv
      <3>3. QED BY <3>1, <3>2
    <2>4. QED BY <2>1, <2>2, <2>3 DEF HeldInv
  <1>6. ASSUME NEW id \in Ids, Resumes(id)
        PROVE  HeldInv'
    <2>1. /\ stack # <<>> /\ stack' = stack /\ ~held'.pending /\ at' \in {"start", "end"}
          /\ held.resumers # <<>>
          /\ \A i \in DOMAIN suspended \ {id} : suspended'[i] = suspended[i]
      BY <1>6 DEF Resumes, Returns
    <2>2. id \notin Callers BY <1>6, ResumesChains
    <2>3. Len(stack) # 1 => suspended'[stack[2].caller] = suspended[stack[2].caller]
      BY <1>1, <1>3, <2>1, <2>2
    <2>4. QED BY <1>0, <2>1, <2>3 DEF HeldInv
  <1>7. ASSUME Len(stack) > 1, Leave, at' \in {"drive", "end"}
        PROVE  /\ stack' # <<>> /\ Len(stack') = Len(stack) - 1 /\ stack'[1] = stack[1]
               /\ Len(stack') # 1 => /\ stack'[2] = stack[2] /\ stack[2].caller # Top.caller
                                     /\ stack[2].caller \in Callers
               /\ Len(stack') = 1 => Top = stack[2]
               /\ Len(stack) # 1 /\ stack # <<>>
    <2>1. /\ stack' # <<>> /\ Len(stack') = Len(stack) - 1
          /\ \A i \in 1..(Len(stack) - 1) : stack'[i] = stack[i]
          /\ Top = stack[Len(stack)]
      BY <1>7, LeavePops DEF IInv
    <2>2. stack # <<>> BY <1>7, EmptyStack
    <2>3. PICK n \in Nat : n = Len(stack) /\ n > 1 BY <1>2, <1>7, <2>2
    <2>4. 1 \in 1..(n - 1) /\ (n - 1 # 1 => 2 \in 1..(n - 1) /\ 2 # n) /\ (n - 1 = 1 => n = 2)
      BY <2>3
    <2>5. n - 1 # 1 => stack[2].caller # Top.caller
      BY <1>3, <1>7, <2>2, <2>3, <2>4, TheCaller
    <2>6. stack[2].caller \in Callers BY <1>3, <1>7, <2>2, <2>3
    <2>7. QED BY <2>1, <2>2, <2>3, <2>4, <2>5, <2>6
  <1>8. ASSUME NEW id \in Ids, Returned(id)
        PROVE  HeldInv'
    <2>1. /\ Len(stack) > 1 /\ Leave /\ id = Top.caller /\ held' = suspended[id]
          /\ \A i \in DOMAIN suspended \ {id} : suspended'[i] = suspended[i]
          /\ at' \in {"drive", "end"}
      BY <1>8 DEF Returned, Returns
    <2>2. ~held'.pending BY <2>1, TheCaller
    <2>3. CASE Len(stack') = 1 BY <1>0, <1>7, <2>1, <2>2, <2>3 DEF HeldInv
    <2>4. CASE Len(stack') # 1
      <3>1. suspended'[stack[2].caller] = suspended[stack[2].caller]
        BY <1>1, <1>7, <2>1, <2>4
      <3>2. QED BY <1>0, <1>7, <2>1, <2>2, <2>4, <3>1 DEF HeldInv
    <2>5. QED BY <2>3, <2>4
  <1>9. ASSUME NEW id \in Ids, Cancels(id)
        PROVE  HeldInv'
    <2>1. stack' # <<>> /\ stack'[1].kind = "shutdown" BY <1>9, CancelsChains
    <2>2. at' = "start" BY <1>9 DEF Cancels
    <2>3. QED BY <2>1, <2>2 DEF HeldInv
  <1>10. ASSUME NEW job \in Ids, NEW caller \in Ids, Retains(job, caller)
         PROVE  HeldInv'
    <2>1. /\ Len(stack) > 1 /\ Leave /\ at = "retained" /\ held.resumers = <<>>
          /\ job = Top.id /\ at' = "drive" /\ held' = held
          /\ \A i \in DOMAIN suspended \ {job} : suspended'[i] = suspended[i]
      BY <1>10 DEF Retains
    <2>2. ~held'.pending BY <1>0, <2>1 DEF HeldInv
    <2>3. CASE Len(stack') = 1 BY <1>7, <2>1, <2>2, <2>3 DEF HeldInv
    <2>4. CASE Len(stack') # 1
      <3>1. suspended'[stack[2].caller] = suspended[stack[2].caller]
        BY <1>1, <1>7, <2>1, <2>4, TheCaller
      <3>2. QED BY <1>0, <1>7, <2>1, <2>2, <2>4, <3>1 DEF HeldInv
    <2>5. QED BY <2>3, <2>4
  <1>11. QED BY <1>4, <1>5, <1>6, <1>8, <1>9, <1>10 DEF Moves

\* The plain steps leave the parked machines, and do not undo a failure.
LEMMA PlainParked ==
  ASSUME IInv, Plain
  PROVE  /\ parked' = parked /\ (Sound' => Sound)
         /\ \A id \in DOMAIN parked : vm'[parked[id]] = vm[parked[id]]
         /\ SameCalls \/ stack' = stack \/ Len(stack') <= 1
  <1>1. \A id \in DOMAIN parked : parked[id] \in Entries /\ parked[id] # current /\ Live(parked[id])
    BY Types DEF IInv, HomeInv
  <1>2. used.failures \in Nat
    <2>1. used \in Bounds BY Types
    <2>2. QED BY <2>1 DEF Bounds
  <1>3. ASSUME NEW m \in Machines, Goes(m)
        PROVE  /\ parked' = parked /\ (Sound' => Sound) /\ SameCalls
               /\ \A d \in Entries \ {current} : vm'[d] = vm[d]
    <2>1. current \in Entries /\ Becomes(current, m, "drive") BY <1>3 DEF Goes
    <2>2. TypeOK BY DEF IInv, TypeInv
    <2>3. \A d \in Entries \ {current} : vm'[d] = vm[d] BY <2>1, <2>2, BecomesTypes
    <2>4. QED BY <1>3, <2>3 DEF Goes
  <1>4. ASSUME NEW release \in BOOLEAN, Evaluate(release)
        PROVE  /\ parked' = parked /\ (Sound' => Sound) /\ Len(stack') <= 1
               /\ \A id \in DOMAIN parked : vm'[parked[id]] = vm[parked[id]]
    <2>1. /\ \A d \in Entries \ {used.entries + 1} : vm'[d] = vm[d]
          /\ used'.failures = used.failures /\ used.entries + 1 \in Entries
      BY <1>4, EvaluateTypes
    <2>2. used.entries \in Nat
      <3>1. used \in Bounds BY Types
      <3>2. QED BY <3>1, BoundsNatural DEF Bounds
    <2>3. vm[used.entries + 1].phase = "new" BY <2>1, <2>2 DEF IInv, HomeInv
    <2>4. parked' = parked /\ (stack' = <<Frame("entry", 0, 0, FALSE)>> \/ stack' = stack)
          /\ at = "prompt"
      BY <1>4 DEF Evaluate
    <2>5. stack = <<>> BY <2>4 DEF IInv, StackInv
    <2>6. Len(stack') <= 1
      <3>1. CASE stack' = <<Frame("entry", 0, 0, FALSE)>>
        <4>1. Len(stack') = 1 BY <3>1
        <4>2. QED BY <4>1
      <3>2. CASE stack' = stack
        <4>1. Len(stack') = 0 BY <2>5, <3>2
        <4>2. QED BY <4>1
      <3>3. QED BY <2>4, <3>1, <3>2
    <2>7. QED BY <1>1, <2>1, <2>3, <2>4, <2>6 DEF Live, Sound
  <1>5. CASE Serve \/ \E id \in Ids : ControlFails(id)
    <2>1. /\ parked' = parked /\ stack' = stack
      BY <1>5 DEF Serve, ControlFails
    <2>2. \A e \in Entries \ {current} : vm'[e] = vm[e] BY <1>5, AskTypes
    <2>3. Sound' => Sound
      BY <1>5, ControlFailsTypes DEF Serve, Sound
    <2>4. QED BY <1>1, <2>1, <2>2, <2>3
  <1>6. CASE Idle \/ Continue \/ BeginShutdown \/ ShutdownReturns \/ ShutdownEnds \/ UNCHANGED vars
    BY <1>6 DEF Idle, Continue, BeginShutdown, ShutdownReturns, ShutdownEnds, vars, engine,
                coordinator, Sound
  <1>7. CASE Finish
    <2>1. /\ UNCHANGED <<vm, parked, used>> /\ (stack' = <<>> \/ SameCalls)
      BY <1>7, FinishTypes
    <2>2. QED BY <2>1 DEF Sound
  <1>8. CASE StartResumed
    <2>1. UNCHANGED <<vm, parked, used>> /\ at = "start"
          /\ stack' = WithTop([Top EXCEPT !.stopping = FALSE])
      BY <1>8 DEF StartResumed, NewSegment, engine
    <2>2. stack # <<>> /\ stack \in Seq(Frames) /\ Top \in Frames
      BY <2>1, Actives DEF IInv, StackInv, TypeInv
    <2>3. SameCalls BY <2>1, <2>2, ReplacedTop DEF Frames
    <2>4. QED BY <2>1, <2>3 DEF Sound
  <1>9. QED BY <1>1, <1>3, <1>4, <1>5, <1>6, <1>7, <1>8 DEF Plain

\* Who waits is parked.
LEMMA WaitsParked ==
  ASSUME IInv, NEW x, Waiting(x)
  PROVE  x \in DOMAIN suspended
  BY ChainFacts DEF Waiting

LEMMA AskPlain ==
  ASSUME IInv, Plain
  PROVE  AskInv'
  <1>0. AskInv BY DEF IInv
  <1>1. /\ suspended' = suspended /\ \A id : Waiting(id)' <=> Waiting(id)
    BY PlainChains, ChainsKept DEF SameChains
  <1>2. /\ parked' = parked /\ (Sound' => Sound)
        /\ \A id \in DOMAIN suspended : vm'[parked[id]] = vm[parked[id]]
    BY PlainParked, Types
  <1>3. ASSUME Sound' /\ current' # 0 /\ vm[current].ask' /\ ~held'.pending =>
                 /\ at' = "drive" => Top'.cancel /\ vm[current].phase' = "cleanup"
                 /\ at' = "start" => Top'.cancel
        PROVE  AskInv'
    BY <1>0, <1>1, <1>2, <1>3 DEF AskInv
  <1>4. ASSUME NEW m \in Machines, Goes(m)
        PROVE  AskInv'
    <2>1. /\ current \in Entries /\ stack # <<>> /\ Becomes(current, m, "drive")
          /\ Sound' /\ m.ask => Top.cancel /\ m.phase = "cleanup"
          /\ stack' \in Seq(Frames) /\ SameCalls
      BY <1>4 DEF Goes
    <2>2. TypeOK BY DEF IInv, TypeInv
    <2>3. IF m.phase = "over"
          THEN current' = 0
          ELSE vm'[current] = m /\ current' = current /\ at' = "drive"
      BY <2>1, <2>2, BecomesTypes
    <2>4. Top'.cancel = Top.cancel
      <3>1. stack \in Seq(Frames) BY DEF IInv, TypeInv
      <3>2. Len(stack') = Len(stack) /\ stack'[Len(stack)].cancel = stack[Len(stack)].cancel
        <4>1. Len(stack) \in 1..Len(stack) BY <2>1, Actives DEF IInv
        <4>2. QED BY <2>1, <4>1 DEF SameCalls
      <3>3. Top = stack[Len(stack)] /\ Len(stack) >= 1 /\ Len(stack) \in Nat
        BY <2>1, Actives DEF IInv
      <3>4. stack' # <<>>
        <4>1. Len(stack') # 0 BY <3>2, <3>3
        <4>2. QED BY <4>1
      <3>5. Top' = stack'[Len(stack')] BY <2>1, <3>4, FrontLast DEF Top
      <3>6. QED BY <3>2, <3>3, <3>5
    <2>5. QED BY <1>3, <2>1, <2>3, <2>4
  <1>5. ASSUME NEW release \in BOOLEAN, Evaluate(release)
        PROVE  AskInv'
    <2>1. vm'[used.entries + 1].ask = FALSE BY <1>5, EvaluateTypes
    <2>2. current' = used.entries + 1 \/ at' = "prompt" BY <1>5 DEF Evaluate
    <2>3. QED BY <1>3, <2>1, <2>2
  <1>6. CASE \/ Idle \/ Continue \/ Serve \/ (\E id \in Ids : ControlFails(id)) \/ Finish
             \/ BeginShutdown \/ ShutdownReturns \/ ShutdownEnds
    <2>1. at' \notin {"drive", "start"}
      BY <1>6, FinishTypes DEF Idle, Continue, Serve, ControlFails, BeginShutdown, ShutdownReturns,
                               ShutdownEnds
    <2>2. QED BY <1>3, <2>1
  <1>7. CASE StartResumed
    <2>1. at = "start" /\ ~Top.cancel /\ UNCHANGED <<vm, current, held>> /\ at' = "drive"
      BY <1>7 DEF StartResumed, engine, session
    <2>2. ~(Sound' /\ current' # 0 /\ vm'[current'].ask /\ ~held'.pending)
      BY <1>0, <1>2, <2>1 DEF AskInv
    <2>3. QED BY <1>3, <2>2
  <1>8. CASE UNCHANGED vars
    <2>1. UNCHANGED <<vm, current, held, at, stack, used>>
      BY <1>8 DEF vars, engine, session, coordinator
    <2>2. QED BY <1>0, <1>3, <2>1 DEF AskInv, Sound, Top
  <1>9. QED BY <1>4, <1>5, <1>6, <1>7, <1>8 DEF Plain

LEMMA AskMoves ==
  ASSUME IInv, Moves
  PROVE  AskInv'
  <1>0. AskInv BY DEF IInv
  <1>1. \A i \in DOMAIN suspended : /\ i \in DOMAIN parked /\ parked[i] \in Entries
                                    /\ parked[i] # current
    BY Types DEF IInv, HomeInv
  <1>2. \A i, j \in DOMAIN suspended : parked[i] = parked[j] => i = j
    BY <1>1 DEF IInv, HomeInv, IsInjective
  <1>3. ASSUME NEW id \in Ids, Parks(id)
        PROVE  AskInv'
    <2>1. /\ at \in {"drive", "service"} /\ ~held.pending /\ ~Top.cancel /\ current \in Entries
          /\ DOMAIN parked' = DOMAIN parked \cup {id} /\ parked'[id] = current
          /\ \A i \in DOMAIN parked \ {id} : parked'[i] = parked[i]
          /\ DOMAIN suspended' = DOMAIN suspended \cup {id} /\ id \notin DOMAIN suspended
          /\ suspended'[id].pending = (at = "service")
          /\ \A i \in DOMAIN suspended : suspended'[i] = suspended[i]
          /\ current' = 0 /\ vm' = vm /\ used'.failures = used.failures
      BY <1>3 DEF Parks
    <2>2. \A x : Waiting(x)' <=> Waiting(x) BY <1>3, ParksChains
    <2>3. ~Waiting(id) BY <2>1, WaitsParked
    <2>4. Sound' => ~(vm'[parked'[id]].ask /\ ~suspended'[id].pending)
      <3>1. current # 0 BY <2>1, Types
      <3>2. QED BY <1>0, <2>1, <3>1 DEF AskInv, Sound
    <2>5. \A i \in DOMAIN suspended : parked'[i] = parked[i] BY <1>1, <2>1
    <2>6. QED BY <1>0, <2>1, <2>2, <2>3, <2>4, <2>5 DEF AskInv, Sound
  <1>4. ASSUME NEW id \in Ids, NEW pid \in Ids, NEW cancel \in BOOLEAN,
               Controlled(id, pid, cancel)
        PROVE  AskInv'
    <2>1. /\ at = "drive" /\ ~held.pending /\ current \in Entries
          /\ id \in DOMAIN suspended /\ id # pid /\ id \notin Callers
          /\ \A p \in Jobs : id \notin ToSet(Resumers(p))
          /\ pid \notin DOMAIN suspended
          /\ \A e \in Entries \ {current} : vm'[e] = vm[e]
          /\ vm'[current].ask
          /\ DOMAIN parked' = (DOMAIN parked \cup {pid}) \ {id} /\ parked'[pid] = current
          /\ \A i \in DOMAIN parked \ {pid, id} : parked'[i] = parked[i]
          /\ DOMAIN suspended' = (DOMAIN suspended \cup {pid}) \ {id} /\ suspended'[pid] = held
          /\ \A i \in DOMAIN suspended \ {id} : suspended'[i] = suspended[i]
          /\ current' = parked[id] /\ held' = suspended[id] /\ at' = "start"
          /\ used'.failures = used.failures
      BY <1>4 DEF Controlled
    <2>2. \A x : Waiting(x)' <=> Waiting(x) \/ x = pid BY <1>4, ControlledChains
    <2>3. ~Waiting(id) BY <2>1 DEF Waiting
    <2>4. \A i \in DOMAIN suspended \ {id} :
            parked'[i] = parked[i] /\ vm'[parked[i]] = vm[parked[i]]
      BY <1>1, <2>1
    <2>5. vm'[parked[id]] = vm[parked[id]] BY <1>1, <2>1
    <2>6. ~(Sound' /\ vm'[current'].ask /\ ~held'.pending)
      BY <1>0, <2>1, <2>3, <2>5 DEF AskInv, Sound
    <2>7. ASSUME NEW i \in DOMAIN suspended'
          PROVE  /\ Waiting(i)' => vm'[parked'[i]].ask /\ ~suspended'[i].pending
                 /\ Sound' /\ vm'[parked'[i]].ask /\ ~suspended'[i].pending => Waiting(i)'
      <3>1. CASE i = pid BY <2>1, <2>2, <3>1
      <3>2. CASE i # pid
        <4>1. i \in DOMAIN suspended \ {id} BY <2>1, <2>7, <3>2
        <4>2. QED BY <1>0, <2>1, <2>2, <2>4, <3>2, <4>1 DEF AskInv, Sound
      <3>3. QED BY <3>1, <3>2
    <2>8. QED BY <2>6, <2>7 DEF AskInv
  <1>5. ASSUME NEW id \in Ids, NEW next \in {"start", "drive"}, Returns(id, next),
               id \in DOMAIN suspended, DOMAIN suspended' = DOMAIN suspended \ {id},
               \A i \in DOMAIN suspended \ {id} : suspended'[i] = suspended[i],
               \A x : Waiting(x)' <=> Waiting(x) /\ x # id, Sound' => Sound,
               next = "start" => Top'.cancel = Top.cancel
        PROVE  AskInv'
    <2>1. \A i \in DOMAIN suspended \ {id} :
            parked'[i] = parked[i] /\ vm'[parked[i]] = vm[parked[i]]
      BY <1>1, <1>2, <1>5 DEF Returns
    <2>2. current' # 0 /\ vm'[current'].ask /\ at' \in {"drive", "start"} =>
            next = "start" /\ at' = next /\ Top'.cancel
      BY <1>1, <1>5 DEF Returns
    <2>3. QED BY <1>0, <1>5, <2>1, <2>2 DEF AskInv
  <1>6. ASSUME NEW id \in Ids, Resumes(id)
        PROVE  AskInv'
    <2>1. /\ id \in DOMAIN suspended /\ Returns(id, "start")
          /\ DOMAIN suspended' = DOMAIN suspended \ {id}
          /\ \A i \in DOMAIN suspended \ {id} : suspended'[i] = suspended[i]
          /\ UNCHANGED <<stack, used>>
      BY <1>6 DEF Resumes
    <2>2. \A x : Waiting(x)' <=> Waiting(x) /\ x # id BY <1>6, ResumesChains
    <2>3. Top' = Top /\ (Sound' => Sound) BY <2>1 DEF Top, Sound
    <2>4. QED BY <1>5, <2>1, <2>2, <2>3
  <1>7. ASSUME NEW id \in Ids, Returned(id)
        PROVE  AskInv'
    <2>1. /\ id \in DOMAIN suspended /\ Returns(id, "drive")
          /\ DOMAIN suspended' = DOMAIN suspended \ {id}
          /\ \A i \in DOMAIN suspended \ {id} : suspended'[i] = suspended[i]
          /\ Sound' => Sound
      BY <1>7 DEF Returned
    <2>2. \A x : Waiting(x)' <=> Waiting(x) /\ x # id BY <1>7, ReturnedChains
    <2>3. QED BY <1>5, <2>1, <2>2
  <1>8. ASSUME NEW id \in Ids, Cancels(id)
        PROVE  AskInv'
    <2>1. /\ id \in DOMAIN suspended
          /\ DOMAIN parked' = DOMAIN parked \ {id}
          /\ \A i \in DOMAIN parked \ {id} : parked'[i] = parked[i]
          /\ DOMAIN suspended' = DOMAIN suspended \ {id}
          /\ \A i \in DOMAIN suspended \ {id} : suspended'[i] = suspended[i]
          /\ at' = "start" /\ vm' = vm /\ used' = used
      BY <1>8 DEF Cancels
    <2>2. (\A x : Waiting(x)' <=> Waiting(x)) /\ Top'.cancel BY <1>8, CancelsChains
    <2>3. \A i \in DOMAIN suspended \ {id} : parked'[i] = parked[i] BY <1>1, <2>1
    <2>4. QED BY <1>0, <2>1, <2>2, <2>3 DEF AskInv, Sound
  <1>9. ASSUME NEW job \in Ids, NEW caller \in Ids, Retains(job, caller)
        PROVE  AskInv'
    <2>1. /\ Len(stack) > 1 /\ job = Top.id /\ job \in DOMAIN suspended
          /\ DOMAIN suspended' = DOMAIN suspended
          /\ suspended'[job].pending = suspended[job].pending
          /\ \A i \in DOMAIN suspended \ {job} : suspended'[i] = suspended[i]
          /\ UNCHANGED <<vm, current, parked, used>>
      BY <1>9 DEF Retains
    <2>2. current = 0 BY <2>1 DEF IInv, TopInv
    <2>3. \A x : Waiting(x)' <=> Waiting(x) BY <1>9, RetainsChains
    <2>4. \A i \in DOMAIN suspended : suspended'[i].pending = suspended[i].pending BY <2>1
    <2>5. QED BY <1>0, <2>1, <2>2, <2>3, <2>4 DEF AskInv, Sound
  <1>10. QED BY <1>3, <1>4, <1>6, <1>7, <1>8, <1>9 DEF Moves

\* The cancelling calls below the innermost one, with what they have parked.
LEMMA CancelPlain ==
  ASSUME IInv, Plain
  PROVE  CancelInv'
  <1>0. CancelInv BY DEF IInv
  <1>1. /\ parked' = parked
        /\ \A id \in DOMAIN parked : vm'[parked[id]] = vm[parked[id]]
        /\ SameCalls \/ stack' = stack \/ Len(stack') <= 1
    BY PlainParked
  <1>2. SameChains /\ stack' \in Seq(Frames) BY PlainChains
  <1>3. PICK n \in Nat : n = Len(stack') BY <1>2, LenProperties
  <1>4. \A i \in 1..(Len(stack') - 1) : stack'[i].cancel =>
          Cancelled(vm'[parked'[stack'[i + 1].caller]])
    <2>1. CASE n <= 1 BY <1>3, <2>1
    <2>2. CASE ~(n <= 1)
      <3>1. SameCalls \/ stack' = stack BY <1>1, <1>3, <2>2
      <3>2. ASSUME NEW i \in 1..(n - 1), stack'[i].cancel
            PROVE  Cancelled(vm'[parked'[stack'[i + 1].caller]])
        <4>1. i \in 1..n /\ i + 1 \in 1..n /\ i + 1 \in 2..n BY <3>2
        <4>2. Len(stack) = n BY <1>3, <3>1 DEF SameCalls
        <4>3. stack[i].cancel /\ stack'[i + 1].caller = stack[i + 1].caller
          BY <3>1, <3>2, <4>1, <4>2 DEF SameCalls
        <4>4. Cancelled(vm[parked[stack[i + 1].caller]])
          BY <1>0, <3>2, <4>2, <4>3 DEF CancelInv
        <4>5. stack[i + 1].caller \in DOMAIN parked
          <5>1. i + 1 \in Calls BY <4>1, <4>2 DEF Calls
          <5>2. QED BY <5>1, Types DEF IInv, ChainInv, Callers
        <4>6. QED BY <1>1, <4>3, <4>4, <4>5
      <3>3. QED BY <1>3, <3>2
    <2>3. QED BY <2>1, <2>2
  <1>5. ASSUME stack' # <<>> /\ Top'.cancel /\ current' # 0 /\ at' \in {"drive", "service"} =>
                 Cancelled(vm'[current'])
        PROVE  CancelInv'
    BY <1>4, <1>5 DEF CancelInv
  <1>6. ASSUME SameCalls, stack # <<>>
        PROVE  Top'.cancel = Top.cancel
    <2>1. Len(stack') = Len(stack) /\ stack'[Len(stack)].cancel = stack[Len(stack)].cancel
      <3>1. Len(stack) \in 1..Len(stack) BY <1>6, Actives DEF IInv
      <3>2. QED BY <1>6, <3>1 DEF SameCalls
    <2>2. Top = stack[Len(stack)] /\ Len(stack) >= 1 /\ Len(stack) \in Nat
      BY <1>6, Actives DEF IInv
    <2>3. stack' # <<>>
      <3>1. Len(stack') # 0 BY <2>1, <2>2
      <3>2. QED BY <3>1
    <2>4. Top' = stack'[Len(stack')] BY <1>2, <2>3, FrontLast DEF Top
    <2>5. QED BY <2>1, <2>2, <2>4
  <1>7. ASSUME NEW m \in Machines, Goes(m)
        PROVE  CancelInv'
    <2>1. /\ current \in Entries /\ stack # <<>> /\ Becomes(current, m, "drive")
          /\ Top.cancel => m.phase = "over" \/ Cancelled(m)
          /\ SameCalls
      BY <1>7 DEF Goes
    <2>2. TypeOK BY DEF IInv, TypeInv
    <2>3. IF m.phase = "over"
          THEN current' = 0
          ELSE vm'[current] = m /\ current' = current
      BY <2>1, <2>2, BecomesTypes
    <2>4. QED BY <1>5, <1>6, <2>1, <2>3
  <1>8. ASSUME NEW release \in BOOLEAN, Evaluate(release)
        PROVE  CancelInv'
    <2>1. CASE current = 0
      <3>1. stack' = <<Frame("entry", 0, 0, FALSE)>> BY <1>8, <2>1 DEF Evaluate
      <3>2. Top' = Frame("entry", 0, 0, FALSE)
        <4>1. stack' # <<>> /\ Len(stack') = 1 BY <3>1
        <4>2. Top' = stack'[1] BY <1>2, <4>1, FrontLast DEF Top
        <4>3. QED BY <3>1, <4>2
      <3>3. ~Top'.cancel BY <3>2 DEF Frame
      <3>4. QED BY <1>5, <3>3
    <2>2. CASE current # 0
      <3>1. at' = "prompt" BY <1>8, <2>2 DEF Evaluate
      <3>2. QED BY <1>5, <3>1
    <2>3. QED BY <2>1, <2>2
  <1>9. CASE \/ Idle \/ (\E id \in Ids : ControlFails(id)) \/ Finish
             \/ BeginShutdown \/ ShutdownReturns \/ ShutdownEnds
    <2>1. at' \notin {"drive", "service"}
      BY <1>9, FinishTypes DEF Idle, ControlFails, BeginShutdown, ShutdownReturns, ShutdownEnds
    <2>2. QED BY <1>5, <2>1
  <1>10. CASE Continue \/ UNCHANGED vars
    <2>1. /\ UNCHANGED <<vm, current, stack>> /\ (Continue \/ at' = at) /\ (Continue => at = "drive")
      BY <1>10 DEF Continue, vars, engine, coordinator
    <2>2. QED BY <1>0, <1>5, <2>1 DEF CancelInv, Top
  <1>11. CASE Serve
    <2>1. at = "drive" /\ current' = current /\ stack' = stack
      BY <1>11 DEF Serve, Runs, Driving
    <2>2. vm'[current].phase = vm[current].phase /\ vm'[current].reason = vm[current].reason
      BY <1>11, AskTypes
    <2>3. QED BY <1>0, <1>5, <2>1, <2>2 DEF CancelInv, Top, Cancelled
  <1>12. CASE StartResumed
    <2>1. at = "start" /\ ~Top.cancel /\ stack' = WithTop([Top EXCEPT !.stopping = FALSE])
      BY <1>12 DEF StartResumed, NewSegment
    <2>2. stack # <<>> /\ stack \in Seq(Frames) /\ Top \in Frames
      BY <2>1, Actives DEF IInv, StackInv, TypeInv
    <2>3. SameCalls BY <2>1, <2>2, ReplacedTop DEF Frames
    <2>4. QED BY <1>5, <1>6, <2>1, <2>2, <2>3
  <1>13. QED BY <1>7, <1>8, <1>9, <1>10, <1>11, <1>12 DEF Plain

LEMMA CancelMoves ==
  ASSUME IInv, Moves
  PROVE  CancelInv'
  <1>0. CancelInv BY DEF IInv
  <1>1. \A i \in DOMAIN suspended : /\ i \in DOMAIN parked /\ parked[i] \in Entries
                                    /\ parked[i] # current
    BY Types DEF IInv, HomeInv
  <1>2. \A i, j \in DOMAIN suspended : parked[i] = parked[j] => i = j
    BY <1>1 DEF IInv, HomeInv, IsInjective
  <1>3. Len(stack) \in Nat /\ (stack # <<>> => Len(stack) >= 1 /\ Top = stack[Len(stack)])
    BY LenProperties, Actives DEF IInv, TypeInv
  <1>4. ASSUME NEW i \in 1..(Len(stack) - 1)
        PROVE  /\ i + 1 \in Calls /\ stack[i + 1].caller \in Callers
               /\ stack[i + 1].caller \in DOMAIN suspended /\ i \in 1..Len(stack)
               /\ i + 1 \in 1..Len(stack)
    <2>1. PICK n \in Nat : n = Len(stack) BY <1>3
    <2>2. i + 1 \in 2..n /\ i \in 1..n /\ i + 1 \in 1..n BY <1>4, <2>1
    <2>3. i + 1 \in Calls BY <2>1, <2>2 DEF Calls
    <2>4. QED BY <2>1, <2>2, <2>3 DEF IInv, ChainInv, Callers
  \* A frame is kept if its caller's machine is.
  <1>5. ASSUME NEW n \in Nat, n <= Len(stack), \A i \in 1..n : stack'[i] = stack[i],
               \A i \in 1..(n - 1) : LET caller == stack[i + 1].caller
                                     IN  /\ parked'[caller] = parked[caller]
                                         /\ vm'[parked[caller]] = vm[parked[caller]]
        PROVE  \A i \in 1..(n - 1) : stack'[i].cancel =>
                 Cancelled(vm'[parked'[stack'[i + 1].caller]])
    <2>1. SUFFICES ASSUME NEW i \in 1..(n - 1), stack'[i].cancel
                   PROVE  Cancelled(vm'[parked'[stack'[i + 1].caller]])
      OBVIOUS
    <2>2. i \in 1..n /\ i + 1 \in 1..n /\ i \in 1..(Len(stack) - 1) BY <1>3, <1>5, <2>1
    <2>3. stack[i].cancel /\ stack'[i + 1] = stack[i + 1] BY <1>5, <2>1, <2>2
    <2>4. Cancelled(vm[parked[stack[i + 1].caller]]) BY <1>0, <2>2, <2>3 DEF CancelInv
    <2>5. QED BY <1>5, <2>1, <2>3, <2>4
  <1>6. ASSUME NEW id \in Ids, Parks(id)
        PROVE  CancelInv'
    <2>1. /\ id \notin DOMAIN suspended /\ at' = "end" /\ stack' = stack /\ vm' = vm
          /\ \A i \in DOMAIN parked \ {id} : parked'[i] = parked[i]
      BY <1>6 DEF Parks
    <2>2. \A i \in 1..(Len(stack) - 1) : parked'[stack[i + 1].caller] = parked[stack[i + 1].caller]
      BY <1>1, <1>4, <2>1
    <2>3. \A i \in 1..(Len(stack) - 1) : stack'[i].cancel =>
            Cancelled(vm'[parked'[stack'[i + 1].caller]])
      <3>1. PICK n \in Nat : n = Len(stack) BY <1>3
      <3>2. \A i \in 1..n : stack'[i] = stack[i] BY <2>1
      <3>3. \A i \in 1..(n - 1) : /\ parked'[stack[i + 1].caller] = parked[stack[i + 1].caller]
                                  /\ vm'[parked[stack[i + 1].caller]] = vm[parked[stack[i + 1].caller]]
        BY <2>1, <2>2, <3>1
      <3>4. n <= Len(stack) BY <3>1
      <3>5. QED BY <1>5, <3>1, <3>2, <3>3, <3>4
    <2>4. QED BY <2>1, <2>3 DEF CancelInv
  <1>7. ASSUME NEW id \in Ids, NEW pid \in Ids, NEW cancel \in BOOLEAN,
               Controlled(id, pid, cancel)
        PROVE  CancelInv'
    <2>1. /\ current \in Entries /\ stack # <<>> /\ at = "drive" /\ at' = "start"
          /\ id \notin Callers /\ pid \notin DOMAIN suspended
          /\ \A e \in Entries \ {current} : vm'[e] = vm[e]
          /\ vm'[current].phase = vm[current].phase /\ vm'[current].reason = vm[current].reason
          /\ parked'[pid] = current
          /\ \A i \in DOMAIN parked \ {pid, id} : parked'[i] = parked[i]
          /\ Len(stack') = Len(stack) + 1
          /\ \A i \in 1..Len(stack) : stack'[i] = stack[i]
          /\ stack'[Len(stack) + 1] = Frame("control", pid, id, cancel)
      BY <1>7 DEF Controlled
    <2>2. PICK n \in Nat : n = Len(stack) /\ n >= 1 BY <1>3, <2>1
    <2>3. \A i \in 1..(n - 1) : /\ parked'[stack[i + 1].caller] = parked[stack[i + 1].caller]
                                /\ vm'[parked[stack[i + 1].caller]] = vm[parked[stack[i + 1].caller]]
      BY <1>1, <1>4, <2>1, <2>2
    <2>4. \A i \in 1..(n - 1) : stack'[i].cancel => Cancelled(vm'[parked'[stack'[i + 1].caller]])
      BY <1>5, <2>1, <2>2, <2>3
    <2>5. stack'[n].cancel => Cancelled(vm'[parked'[stack'[n + 1].caller]])
      <3>1. stack'[n] = Top /\ stack'[n + 1].caller = pid BY <1>3, <2>1, <2>2 DEF Frame
      <3>2. Top.cancel => Cancelled(vm[current]) BY <1>0, <2>1, Types DEF CancelInv
      <3>3. QED BY <2>1, <3>1, <3>2 DEF Cancelled
    <2>6. \A i \in 1..n : stack'[i].cancel => Cancelled(vm'[parked'[stack'[i + 1].caller]])
      <3>1. \A i \in 1..n : i \in 1..(n - 1) \/ i = n OBVIOUS
      <3>2. QED BY <2>4, <2>5, <3>1
    <2>7. Len(stack') - 1 = n BY <2>1, <2>2
    <2>8. QED BY <2>1, <2>6, <2>7 DEF CancelInv
  <1>8. ASSUME NEW id \in Ids, NEW next, Returns(id, next), id \in DOMAIN suspended
        PROVE  /\ \A i \in DOMAIN suspended \ {id} :
                    parked'[i] = parked[i] /\ vm'[parked[i]] = vm[parked[i]]
               /\ \/ current' = 0 \/ at' = "end"
                  \/ /\ current' = parked[id] /\ at' = next
                     /\ Cancelled(vm[parked[id]]) => Cancelled(vm'[parked[id]])
    BY <1>1, <1>2, <1>8 DEF Returns
  <1>9. ASSUME NEW id \in Ids, Resumes(id)
        PROVE  CancelInv'
    <2>1. id \in DOMAIN suspended /\ Returns(id, "start") /\ stack' = stack
      BY <1>9 DEF Resumes
    <2>2. id \notin Callers BY <1>9, ResumesChains
    <2>3. \A i \in DOMAIN suspended \ {id} : parked'[i] = parked[i] /\ vm'[parked[i]] = vm[parked[i]]
      BY <1>8, <2>1
    <2>4. \A i \in 1..(Len(stack) - 1) : /\ parked'[stack[i + 1].caller] = parked[stack[i + 1].caller]
                              /\ vm'[parked[stack[i + 1].caller]] = vm[parked[stack[i + 1].caller]]
      BY <1>4, <2>2, <2>3
    <2>5. \A i \in 1..(Len(stack) - 1) : stack'[i].cancel =>
            Cancelled(vm'[parked'[stack'[i + 1].caller]])
      BY <1>3, <1>5, <2>1, <2>4
    <2>6. current' = 0 \/ at' \notin {"drive", "service"} BY <1>8, <2>1
    <2>7. QED BY <2>1, <2>5, <2>6 DEF CancelInv
  <1>10. ASSUME Len(stack) > 1, Leave, at' \in {"drive", "end"},
                \A i \in DOMAIN suspended \ {Top.caller} :
                  parked'[i] = parked[i] /\ vm'[parked[i]] = vm[parked[i]],
                current' # 0 /\ at' = "drive" =>
                  /\ current' = parked[Top.caller]
                  /\ Cancelled(vm[parked[Top.caller]]) => Cancelled(vm'[parked[Top.caller]])
         PROVE  CancelInv'
    <2>1. /\ stack' \in Seq(Frames) /\ stack' # <<>> /\ Len(stack') = Len(stack) - 1
          /\ \A i \in 1..(Len(stack) - 1) : stack'[i] = stack[i]
          /\ Top = stack[Len(stack)]
      BY <1>10, LeavePops DEF IInv
    <2>2. PICK n \in Nat : n = Len(stack) /\ n > 1 BY <1>3, <1>10
    <2>3. \A i \in 1..(n - 2) : stack[i + 1].caller \in DOMAIN suspended \ {Top.caller}
      <3>1. ASSUME NEW i \in 1..(n - 2)
            PROVE  stack[i + 1].caller \in DOMAIN suspended \ {Top.caller}
        <4>1. i \in 1..(Len(stack) - 1) /\ i + 1 # Len(stack) BY <2>2, <3>1
        <4>2. i + 1 \in Calls /\ stack[i + 1].caller \in DOMAIN suspended BY <1>4, <4>1
        <4>3. QED BY <1>10, <4>1, <4>2, TheCaller
      <3>2. QED BY <3>1
    <2>4. PICK k \in Nat : k = n - 1 BY <2>2
    <2>5. \A i \in 1..(k - 1) : /\ parked'[stack[i + 1].caller] = parked[stack[i + 1].caller]
                                /\ vm'[parked[stack[i + 1].caller]] = vm[parked[stack[i + 1].caller]]
      <3>1. k - 1 = n - 2 BY <2>2, <2>4
      <3>2. QED BY <1>10, <2>3, <3>1
    <2>6. \A i \in 1..(Len(stack') - 1) : stack'[i].cancel =>
            Cancelled(vm'[parked'[stack'[i + 1].caller]])
      <3>1. \A i \in 1..k : stack'[i] = stack[i] BY <2>1, <2>2, <2>4
      <3>2. k <= Len(stack) BY <2>2, <2>4
      <3>3. Len(stack') = k BY <2>1, <2>2, <2>4
      <3>4. QED BY <1>5, <2>5, <3>1, <3>2, <3>3
    <2>7. current' # 0 /\ at' = "drive" /\ Top'.cancel => Cancelled(vm'[current'])
      <3>1. Top' = stack'[Len(stack')] BY <2>1, FrontLast DEF Top
      <3>2. Top' = stack[n - 1] BY <2>1, <2>2, <3>1
      <3>3. stack[n - 1].cancel => Cancelled(vm[parked[stack[n].caller]])
        <4>1. n - 1 \in 1..(Len(stack) - 1) /\ (n - 1) + 1 = n BY <2>2
        <4>2. QED BY <1>0, <4>1 DEF CancelInv
      <3>4. QED BY <1>10, <2>1, <2>2, <3>2, <3>3
    <2>8. QED BY <1>10, <2>6, <2>7 DEF CancelInv
  <1>11. ASSUME NEW id \in Ids, Returned(id)
         PROVE  CancelInv'
    <2>1. /\ Len(stack) > 1 /\ Leave /\ id = Top.caller /\ id \in DOMAIN suspended
          /\ Returns(id, "drive") /\ at' \in {"drive", "end"}
      BY <1>11 DEF Returned, Returns
    <2>2. /\ \A i \in DOMAIN suspended \ {id} :
               parked'[i] = parked[i] /\ vm'[parked[i]] = vm[parked[i]]
          /\ current' # 0 /\ at' = "drive" =>
               /\ current' = parked[id]
               /\ Cancelled(vm[parked[id]]) => Cancelled(vm'[parked[id]])
      BY <1>8, <2>1
    <2>3. QED BY <1>10, <2>1, <2>2
  <1>12. ASSUME NEW id \in Ids, Cancels(id)
         PROVE  CancelInv'
    <2>1. Len(stack') = 1 BY <1>12, CancelsChains
    <2>2. at' = "start" BY <1>12 DEF Cancels
    <2>3. QED BY <2>1, <2>2 DEF CancelInv
  <1>13. ASSUME NEW job \in Ids, NEW caller \in Ids, Retains(job, caller)
         PROVE  CancelInv'
    <2>1. /\ Len(stack) > 1 /\ Leave /\ job = Top.id /\ job \in DOMAIN suspended
          /\ at' = "drive" /\ UNCHANGED <<vm, current, parked>>
      BY <1>13 DEF Retains
    <2>2. current = 0 BY <2>1 DEF IInv, TopInv
    <2>3. QED BY <1>10, <2>1, <2>2
  <1>14. QED BY <1>6, <1>7, <1>9, <1>11, <1>12, <1>13 DEF Moves

\* What OwnerInv says, where nothing has failed.
LEMMA OwnerFacts ==
  ASSUME IInv, Sound
  PROVE  /\ at \notin {"drive", "service", "start"} => current = 0
         /\ \A e \in Entries : Live(e) => e = current \/ \E id \in DOMAIN parked : parked[id] = e
         /\ DOMAIN parked = DOMAIN suspended
         /\ \A id \in DOMAIN suspended :
              /\ suspended[id].owner = parked[id] /\ suspended[id].owner \in frozen
              /\ parked[id] \in Entries /\ parked[id] # current /\ parked[id] # 0
              /\ Live(parked[id])
         /\ \A i, j \in DOMAIN suspended : parked[i] = parked[j] => i = j
         /\ current # 0 => held.owner = current
         /\ current # 0 /\ at \in {"drive", "service"} /\ current \in frozen => Top.cancel
         /\ held.owner # 0 => \A id \in DOMAIN suspended : parked[id] # held.owner
         /\ \A e \in open : /\ e \in Entries /\ e # 0
                            /\ e = held.owner \/ \E id \in DOMAIN suspended : suspended[id].owner = e
  <1>1. OwnerInv /\ HomeInv BY DEF IInv
  <1>2. DOMAIN parked = DOMAIN suspended BY <1>1 DEF OwnerInv
  <1>3. \A id \in DOMAIN suspended :
          parked[id] \in Entries /\ parked[id] # current /\ parked[id] # 0 /\ Live(parked[id])
    BY <1>1, <1>2, Types DEF HomeInv
  <1>4. \A i, j \in DOMAIN suspended : parked[i] = parked[j] => i = j
    BY <1>1, <1>2 DEF HomeInv, IsInjective
  <1>5. \A e \in open : e \in Entries /\ e # 0 BY Types
  <1>6. QED BY <1>1, <1>2, <1>3, <1>4, <1>5 DEF OwnerInv

LEMMA OwnerFrom ==
  ASSUME at' \notin {"drive", "service", "start"} => current' = 0,
         \A e \in Entries : Live(e)' => e = current' \/ \E id \in DOMAIN parked' : parked'[id] = e,
         DOMAIN parked' = DOMAIN suspended',
         \A id \in DOMAIN suspended' :
           /\ suspended'[id].owner = parked'[id] /\ suspended'[id].owner \in frozen',
         current' # 0 => held'.owner = current',
         current' # 0 /\ at' \in {"drive", "service"} /\ current' \in frozen' => Top'.cancel,
         held'.owner # 0 => \A id \in DOMAIN suspended' : parked'[id] # held'.owner,
         \A e \in open' : e = held'.owner \/ \E id \in DOMAIN suspended' : suspended'[id].owner = e
  PROVE  OwnerInv'
  BY DEF OwnerInv

LEMMA OwnerPlain ==
  ASSUME IInv, Plain
  PROVE  OwnerInv'
  <1>1. CASE ~Sound' BY <1>1 DEF OwnerInv
  <1>2. CASE Sound'
    <2>0. /\ Sound /\ parked' = parked
      BY <1>2, PlainParked
    <2>1. suspended' = suspended BY PlainChains DEF SameChains
    <2>2. ASSUME UNCHANGED <<current, frozen, open>>, held'.owner = held.owner,
                 \A e \in Entries : vm'[e].phase = vm[e].phase,
                 at' \notin {"drive", "service", "start"} => current = 0,
                 current # 0 /\ at' \in {"drive", "service"} /\ current \in frozen => Top'.cancel
          PROVE  OwnerInv'
      <3>1. \A e \in Entries : Live(e)' => Live(e) BY <2>2 DEF Live
      <3>2. QED BY <2>0, <2>1, <2>2, <3>1, OwnerFacts, OwnerFrom
    <2>3. ASSUME NEW m \in Machines, Goes(m)
          PROVE  OwnerInv'
      <3>1. /\ current \in Entries /\ stack # <<>> /\ at \in {"drive", "service", "start"}
            /\ Becomes(current, m, "drive")
            /\ frozen' = frozen /\ (at = "start" => Top.cancel)
            /\ held' \in {held, [held EXCEPT !.pending = FALSE]}
            /\ SameCalls /\ stack' \in Seq(Frames) /\ open' = open
        BY <1>2, <2>3 DEF Goes
      <3>2. TypeOK BY DEF IInv, TypeInv
      <3>3. /\ \A d \in Entries \ {current} : vm'[d] = vm[d]
            /\ \/ vm'[current].phase = "over" /\ current' = 0 /\ at' = "end"
               \/ current' = current /\ at' = "drive"
        BY <3>1, <3>2, BecomesTypes
      <3>4. held'.owner = held.owner
        <4>1. held \in Records BY Types
        <4>2. QED BY <3>1, <4>1 DEF Records
      <3>5. Top'.cancel = Top.cancel
        <4>1. at \in {"prompt", "shutdown", "ended"} <=> at' \in {"prompt", "shutdown", "ended"}
          BY <3>1, <3>3
        <4>2. active' = active BY <2>3 DEF Goes
        <4>3. TypeInv /\ StackInv BY DEF IInv
        <4>4. QED BY <3>1, <4>1, <4>2, <4>3, QuietStack
      <3>6. current # 0 BY <3>1, Types
      <3>7. held'.owner = current BY <2>0, <3>4, <3>6, OwnerFacts
      <3>8. \A e \in Entries : Live(e)' => e = current' \/ \E id \in DOMAIN parked' : parked'[id] = e
        <4>1. ASSUME NEW e \in Entries, Live(e)', e # current
              PROVE  \E id \in DOMAIN parked' : parked'[id] = e
          <5>1. Live(e) BY <3>3, <4>1 DEF Live
          <5>2. QED BY <2>0, <4>1, <5>1, OwnerFacts
        <4>2. vm'[current].phase \in {"body", "cleanup"} => current' = current BY <3>3
        <4>3. QED BY <4>1, <4>2 DEF Live
      <3>9. current' # 0 /\ at' \in {"drive", "service"} /\ current' \in frozen' => Top'.cancel
        BY <2>0, <3>1, <3>3, <3>5, <3>6, OwnerFacts
      <3>10. /\ at' \notin {"drive", "service", "start"} => current' = 0
             /\ current' # 0 => held'.owner = current'
        BY <3>3, <3>7
      <3>11. \A id \in DOMAIN suspended' :
               /\ suspended'[id].owner = parked'[id] /\ suspended'[id].owner \in frozen'
               /\ parked'[id] # held'.owner
        BY <2>0, <2>1, <3>1, <3>7, OwnerFacts
      <3>12. \A e \in open' : e = held'.owner \/ \E id \in DOMAIN suspended' : suspended'[id].owner = e
        BY <2>0, <2>1, <3>1, <3>4, OwnerFacts
      <3>13. DOMAIN parked' = DOMAIN suspended' BY <2>0, <2>1, OwnerFacts
      <3>14. QED BY <3>8, <3>9, <3>10, <3>11, <3>12, <3>13, OwnerFrom
    <2>4. ASSUME NEW release \in BOOLEAN, Evaluate(release)
          PROVE  OwnerInv'
      <3> DEFINE e == used.entries + 1
      <3>1. at = "prompt" BY <2>4 DEF Evaluate
      <3>2. current = 0 BY <2>0, <3>1, OwnerFacts
      <3>3. stack = <<>> /\ held = Nothing BY <3>1 DEF IInv, StackInv, HeldInv
      <3>4. /\ current' = e /\ held' = [held EXCEPT !.owner = e] /\ open' = open \cup {e}
            /\ at' = "drive" /\ frozen' = frozen
        BY <2>4, <3>2 DEF Evaluate
      <3>5. e \in Entries /\ \A d \in Entries \ {e} : vm'[d] = vm[d]
        BY <2>4, EvaluateTypes
      <3>6. vm[e].phase = "new" /\ e \notin frozen
        <4>1. used.entries \in Nat
          <5>1. used \in Bounds BY Types
          <5>2. QED BY <5>1, BoundsNatural DEF Bounds
        <4>2. e \notin 0..used.entries /\ e > used.entries BY <4>1
        <4>3. QED BY <3>5, <4>2 DEF IInv, HomeInv
      <3> HIDE DEF e
      <3>7. held'.owner = e /\ held.owner = 0
        <4>1. held \in Records /\ e \in 0..MaxEntries BY <3>5, Types
        <4>2. QED BY <3>3, <3>4, <4>1 DEF Records, Nothing
      <3>8. \A d \in Entries : Live(d)' => d = e \/ \E id \in DOMAIN parked' : parked'[id] = d
        <4>1. ASSUME NEW d \in Entries, Live(d)', d # e
              PROVE  \E id \in DOMAIN parked' : parked'[id] = d
          <5>1. Live(d) BY <3>5, <4>1 DEF Live
          <5>2. d # 0 BY Types
          <5>3. QED BY <2>0, <3>2, <4>1, <5>1, <5>2, OwnerFacts
        <4>2. QED BY <4>1
      <3>9. \A id \in DOMAIN suspended' :
              /\ suspended'[id].owner = parked'[id] /\ suspended'[id].owner \in frozen'
              /\ parked'[id] # held'.owner
        <4>1. \A id \in DOMAIN suspended : parked[id] # e BY <2>0, <3>6, OwnerFacts DEF Live
        <4>2. QED BY <2>0, <2>1, <3>4, <3>7, <4>1, OwnerFacts
      <3>10. \A d \in open' : d = held'.owner \/ \E id \in DOMAIN suspended' : suspended'[id].owner = d
        BY <2>0, <2>1, <3>4, <3>7, OwnerFacts
      <3>11. DOMAIN parked' = DOMAIN suspended' BY <2>0, <2>1, OwnerFacts
      <3>12. QED BY <3>4, <3>6, <3>7, <3>8, <3>9, <3>10, <3>11, OwnerFrom
    <2>5. ASSUME NEW id \in Ids, ControlFails(id)
          PROVE  OwnerInv'
      BY <1>2, <2>5, ControlFailsTypes
    <2>6. CASE Idle \/ BeginShutdown \/ ShutdownReturns \/ ShutdownEnds
      <3>1. /\ UNCHANGED <<vm, current, held, frozen, open>>
            /\ at' \in {"end", "shutdown", "ended"} /\ (Idle => current = 0)
            /\ (Idle \/ at \notin {"drive", "service", "start"})
        BY <2>6 DEF Idle, BeginShutdown, ShutdownReturns, ShutdownEnds, ChainOver, engine, session,
                    resources
      <3>2. current = 0 BY <2>0, <3>1, OwnerFacts
      <3>3. QED BY <2>2, <3>1, <3>2
    <2>7. CASE Continue \/ Serve
      <3>1. /\ UNCHANGED <<current, frozen, open, stack>> /\ at = "drive" /\ at' = "service"
            /\ held' \in {held, [held EXCEPT !.pending = FALSE]} /\ (Serve \/ vm' = vm)
        BY <2>7 DEF Continue, Serve, Runs, Driving, engine, session, resources
      <3>2. held'.owner = held.owner
        <4>1. held \in Records BY Types
        <4>2. QED BY <3>1, <4>1 DEF Records
      <3>3. \A e \in Entries : vm'[e].phase = vm[e].phase BY <3>1, AskTypes
      <3>4. Top' = Top BY <3>1 DEF Top
      <3>5. QED BY <2>0, <2>2, <3>1, <3>2, <3>3, <3>4, OwnerFacts
    <2>8. CASE StartResumed
      <3>1. /\ UNCHANGED <<vm, current, held, open>> /\ at = "start" /\ at' = "drive"
            /\ frozen' = frozen \ {held.owner}
        BY <2>8 DEF StartResumed, engine, session
      <3>2. current # 0 BY <3>1 DEF IInv, HomeInv
      <3>3. held.owner = current BY <2>0, <3>2, OwnerFacts
      <3>4. \A id \in DOMAIN suspended' :
              suspended'[id].owner = parked'[id] /\ suspended'[id].owner \in frozen'
        BY <2>0, <2>1, <3>1, <3>2, <3>3, OwnerFacts
      <3>5. \A e \in Entries : Live(e)' => e = current' \/ \E id \in DOMAIN parked' : parked'[id] = e
        BY <2>0, <3>1, OwnerFacts DEF Live
      <3>6. QED BY <2>0, <2>1, <3>1, <3>2, <3>3, <3>4, <3>5, OwnerFacts, OwnerFrom
    <2>9. CASE Finish
      <3>1. /\ at = "end" /\ held'.owner = 0 /\ open' = open \ {held.owner}
            /\ frozen' = frozen \ {held.owner} /\ at' \in {"prompt", "retained"}
            /\ UNCHANGED <<vm, current>>
        BY <2>9, FinishTypes
      <3>2. current = 0 BY <2>0, <3>1, OwnerFacts
      <3>3. \A id \in DOMAIN suspended' :
              suspended'[id].owner = parked'[id] /\ suspended'[id].owner \in frozen'
        BY <2>0, <2>1, <3>1, OwnerFacts
      <3>4. \A e \in Entries : Live(e)' => e = current' \/ \E id \in DOMAIN parked' : parked'[id] = e
        BY <2>0, <3>1, OwnerFacts DEF Live
      <3>5. \A e \in open' : e = held'.owner \/ \E id \in DOMAIN suspended' : suspended'[id].owner = e
        BY <2>0, <2>1, <3>1, OwnerFacts
      <3>6. DOMAIN parked' = DOMAIN suspended' BY <2>0, <2>1, OwnerFacts
      <3>7. QED BY <3>1, <3>2, <3>3, <3>4, <3>5, <3>6, OwnerFrom
    <2>10. CASE UNCHANGED vars
      <3>1. UNCHANGED <<vm, current, held, frozen, open, at, stack>>
        BY <2>10 DEF vars, engine, session, resources, coordinator
      <3>2. Top' = Top BY <3>1 DEF Top
      <3>3. QED BY <2>0, <2>2, <3>1, <3>2, OwnerFacts
    <2>11. QED BY <2>3, <2>4, <2>5, <2>6, <2>7, <2>8, <2>9, <2>10 DEF Plain
  <1>3. QED BY <1>1, <1>2

LEMMA OwnerMoves ==
  ASSUME IInv, Moves
  PROVE  OwnerInv'
  <1>1. ASSUME NEW id \in Ids, Parks(id), Sound
        PROVE  OwnerInv'
    <2>1. /\ current \in Entries /\ at \in {"drive", "service"} /\ id \notin DOMAIN suspended
          /\ frozen' = frozen \cup {held.owner}
          /\ DOMAIN parked' = DOMAIN parked \cup {id} /\ parked'[id] = current
          /\ \A i \in DOMAIN parked \ {id} : parked'[i] = parked[i]
          /\ DOMAIN suspended' = DOMAIN suspended \cup {id}
          /\ suspended'[id].owner = held.owner
          /\ \A i \in DOMAIN suspended : suspended'[i] = suspended[i]
          /\ current' = 0 /\ held' = Nothing /\ at' = "end" /\ vm' = vm /\ open' = open
      BY <1>1 DEF Parks
    <2>2. current # 0 /\ held.owner = current BY <1>1, <2>1, Types, OwnerFacts
    <2>3. \A i \in DOMAIN suspended : parked'[i] = parked[i] /\ i # id
      BY <1>1, <2>1, OwnerFacts
    <2>4. \A e \in Entries : Live(e)' => e = current' \/ \E i \in DOMAIN parked' : parked'[i] = e
      BY <1>1, <2>1, <2>3, OwnerFacts DEF Live
    <2>5. \A i \in DOMAIN suspended' :
            suspended'[i].owner = parked'[i] /\ suspended'[i].owner \in frozen'
      BY <1>1, <2>1, <2>2, <2>3, OwnerFacts
    <2>6. \A e \in open' : e = held'.owner \/ \E i \in DOMAIN suspended' : suspended'[i].owner = e
      BY <1>1, <2>1, <2>3, OwnerFacts
    <2>7. DOMAIN parked' = DOMAIN suspended' BY <1>1, <2>1, OwnerFacts
    <2>8. held'.owner = 0 BY <2>1 DEF Nothing
    <2>9. QED BY <2>1, <2>4, <2>5, <2>6, <2>7, <2>8, OwnerFrom
  <1>2. ASSUME NEW id \in Ids, NEW pid \in Ids, NEW cancel \in BOOLEAN,
               Controlled(id, pid, cancel), Sound
        PROVE  OwnerInv'
    <2>1. /\ current \in Entries /\ at = "drive" /\ id \in DOMAIN suspended /\ id # pid
          /\ pid \notin DOMAIN suspended
          /\ frozen' = frozen \cup {held.owner}
          /\ \A e \in Entries \ {current} : vm'[e] = vm[e]
          /\ vm'[current].phase = vm[current].phase
          /\ DOMAIN parked' = (DOMAIN parked \cup {pid}) \ {id} /\ parked'[pid] = current
          /\ \A i \in DOMAIN parked \ {pid, id} : parked'[i] = parked[i]
          /\ DOMAIN suspended' = (DOMAIN suspended \cup {pid}) \ {id} /\ suspended'[pid] = held
          /\ \A i \in DOMAIN suspended \ {id} : suspended'[i] = suspended[i]
          /\ current' = parked[id] /\ held' = suspended[id] /\ at' = "start" /\ open' = open
      BY <1>2 DEF Controlled
    <2>2. current # 0 /\ held.owner = current /\ DOMAIN parked = DOMAIN suspended
      BY <1>2, <2>1, Types, OwnerFacts
    <2>3. \A i \in DOMAIN suspended \ {id} : parked'[i] = parked[i] /\ i # pid
      BY <2>1, <2>2
    <2>4. \A e \in Entries : Live(e)' => e = current' \/ \E i \in DOMAIN parked' : parked'[i] = e
      <3>1. SUFFICES ASSUME NEW e \in Entries, Live(e)', e # parked[id], e # current
                     PROVE  \E i \in DOMAIN parked' : parked'[i] = e
        BY <2>1
      <3>2. Live(e) BY <2>1, <3>1 DEF Live
      <3>3. PICK i \in DOMAIN suspended : parked[i] = e BY <1>2, <3>1, <3>2, OwnerFacts
      <3>4. i \in DOMAIN parked' /\ parked'[i] = e BY <2>1, <2>2, <2>3, <3>1, <3>3
      <3>5. QED BY <3>4
    <2>5. \A i \in DOMAIN suspended' :
            suspended'[i].owner = parked'[i] /\ suspended'[i].owner \in frozen'
      BY <1>2, <2>1, <2>2, <2>3, OwnerFacts
    <2>6. held'.owner = parked[id] BY <1>2, <2>1, OwnerFacts
    <2>7. \A i \in DOMAIN suspended' : parked'[i] # held'.owner
      BY <1>2, <2>1, <2>3, <2>6, OwnerFacts
    <2>8. \A e \in open' : e = held'.owner \/ \E i \in DOMAIN suspended' : suspended'[i].owner = e
      <3>1. ASSUME NEW e \in open, e # suspended[id].owner, e # held.owner
            PROVE  \E i \in DOMAIN suspended' : suspended'[i].owner = e
        <4>1. PICK i \in DOMAIN suspended : suspended[i].owner = e
          BY <1>2, <3>1, OwnerFacts
        <4>2. i \in DOMAIN suspended' /\ suspended'[i] = suspended[i] BY <2>1, <3>1, <4>1
        <4>3. QED BY <4>1, <4>2
      <3>2. pid \in DOMAIN suspended' /\ suspended'[pid].owner = held.owner BY <2>1
      <3>3. QED BY <2>1, <3>1, <3>2
    <2>9. DOMAIN parked' = DOMAIN suspended' BY <2>1, <2>2
    <2>10. QED BY <2>1, <2>4, <2>5, <2>6, <2>7, <2>8, <2>9, OwnerFrom
  \* A parked evaluation becomes the running one, or is over.
  <1>3. ASSUME NEW id \in DOMAIN suspended, Sound, current = 0, held.owner = 0,
               held'.owner = suspended[id].owner,
               DOMAIN suspended' = DOMAIN suspended \ {id},
               \A i \in DOMAIN suspended \ {id} : suspended'[i] = suspended[i],
               DOMAIN parked' = DOMAIN parked \ {id},
               \A i \in DOMAIN parked \ {id} : parked'[i] = parked[i],
               \A e \in Entries \ {parked[id]} : vm'[e] = vm[e],
               \/ vm'[parked[id]].phase = "over" /\ current' = 0
               \/ current' = parked[id] /\ at' \in {"drive", "start"},
               open' = open,
               \/ frozen' = frozen \ {held'.owner}
               \/ frozen' = frozen /\ at' \in {"start", "end"}
        PROVE  OwnerInv'
    <2>1. held'.owner = parked[id] /\ DOMAIN parked' = DOMAIN suspended'
      BY <1>3, OwnerFacts
    <2>2. \A i \in DOMAIN suspended' : /\ i \in DOMAIN suspended /\ parked'[i] = parked[i]
                                       /\ parked[i] # parked[id] /\ suspended'[i] = suspended[i]
      BY <1>3, OwnerFacts
    <2>3. \A i \in DOMAIN suspended' :
            /\ suspended'[i].owner = parked'[i] /\ suspended'[i].owner \in frozen'
            /\ parked'[i] # held'.owner
      BY <1>3, <2>1, <2>2, OwnerFacts
    <2>4. \A e \in Entries : Live(e)' => e = current' \/ \E i \in DOMAIN parked' : parked'[i] = e
      <3>1. ASSUME NEW e \in Entries, Live(e)', e # parked[id]
            PROVE  \E i \in DOMAIN parked' : parked'[i] = e
        <4>1. Live(e) /\ e # 0 BY <1>3, <3>1, Types DEF Live
        <4>2. PICK i \in DOMAIN suspended : parked[i] = e BY <1>3, <4>1, OwnerFacts
        <4>3. i \in DOMAIN parked' /\ parked'[i] = e BY <1>3, <2>1, <2>2, <3>1, <4>2
        <4>4. QED BY <4>3
      <3>2. vm'[parked[id]].phase \in {"body", "cleanup"} => current' = parked[id] BY <1>3
      <3>3. QED BY <3>1, <3>2 DEF Live
    <2>5. \A e \in open' : e = held'.owner \/ \E i \in DOMAIN suspended' : suspended'[i].owner = e
      <3>1. ASSUME NEW e \in open, e # held'.owner
            PROVE  \E i \in DOMAIN suspended' : suspended'[i].owner = e
        <4>1. PICK i \in DOMAIN suspended : suspended[i].owner = e
          BY <1>3, <3>1, OwnerFacts
        <4>2. i \in DOMAIN suspended' /\ suspended'[i] = suspended[i] BY <1>3, <3>1, <4>1
        <4>3. QED BY <4>1, <4>2
      <3>2. QED BY <1>3, <3>1
    <2>6. current' # 0 /\ at' \in {"drive", "service"} => current' \notin frozen'
      BY <1>3, <2>1
    <2>7. /\ at' \notin {"drive", "service", "start"} => current' = 0
          /\ current' # 0 => held'.owner = current'
      BY <1>3, <2>1
    <2>8. QED BY <2>1, <2>3, <2>4, <2>5, <2>6, <2>7, OwnerFrom
  <1>4. ASSUME NEW id \in Ids, Resumes(id), Sound
        PROVE  OwnerInv'
    <2>1. /\ at = "retained" /\ id \in DOMAIN suspended
          /\ held'.owner = suspended[id].owner
          /\ DOMAIN suspended' = DOMAIN suspended \ {id}
          /\ \A i \in DOMAIN suspended \ {id} : suspended'[i] = suspended[i]
          /\ Returns(id, "start") /\ UNCHANGED <<frozen, open>>
      BY <1>4 DEF Resumes
    <2>2. current = 0 /\ held.owner = 0 BY <1>4, <2>1, OwnerFacts DEF IInv, HeldInv
    <2>3. /\ DOMAIN parked' = DOMAIN parked \ {id}
          /\ \A i \in DOMAIN parked \ {id} : parked'[i] = parked[i]
          /\ \A e \in Entries \ {parked[id]} : vm'[e] = vm[e]
          /\ \/ vm'[parked[id]].phase = "over" /\ current' = 0 /\ at' = "end"
             \/ current' = parked[id] /\ at' = "start"
      BY <2>1, <2>2 DEF Returns
    <2>4. QED BY <1>3, <1>4, <2>1, <2>2, <2>3
  <1>5. ASSUME NEW id \in Ids, Returned(id), Sound'
        PROVE  OwnerInv'
    <2>1. /\ at = "retained" /\ id \in DOMAIN suspended
          /\ held' = suspended[id] /\ Sound
          /\ DOMAIN suspended' = DOMAIN suspended \ {id}
          /\ \A i \in DOMAIN suspended \ {id} : suspended'[i] = suspended[i]
          /\ Returns(id, "drive") /\ open' = open /\ frozen' = frozen \ {held'.owner}
      BY <1>5 DEF Returned
    <2>2. current = 0 /\ held.owner = 0 BY <2>1, OwnerFacts DEF IInv, HeldInv
    <2>3. /\ DOMAIN parked' = DOMAIN parked \ {id}
          /\ \A i \in DOMAIN parked \ {id} : parked'[i] = parked[i]
          /\ \A e \in Entries \ {parked[id]} : vm'[e] = vm[e]
          /\ \/ vm'[parked[id]].phase = "over" /\ current' = 0 /\ at' = "end"
             \/ current' = parked[id] /\ at' = "drive"
      BY <2>1, <2>2 DEF Returns
    <2>4. QED BY <1>3, <2>1, <2>2, <2>3
  <1>6. ASSUME NEW id \in Ids, Cancels(id), Sound
        PROVE  OwnerInv'
    <2>1. /\ current = 0 /\ held = Nothing /\ id \in DOMAIN suspended
          /\ DOMAIN parked' = DOMAIN parked \ {id}
          /\ \A i \in DOMAIN parked \ {id} : parked'[i] = parked[i]
          /\ DOMAIN suspended' = DOMAIN suspended \ {id}
          /\ \A i \in DOMAIN suspended \ {id} : suspended'[i] = suspended[i]
          /\ current' = parked[id] /\ held' = suspended[id] /\ at' = "start"
          /\ UNCHANGED <<vm, frozen, open>>
      BY <1>6 DEF Cancels
    <2>2. held.owner = 0 BY <2>1 DEF Nothing
    <2>3. QED BY <1>3, <1>6, <2>1, <2>2
  <1>7. ASSUME NEW job \in Ids, NEW caller \in Ids, Retains(job, caller), Sound
        PROVE  OwnerInv'
    <2>1. /\ Len(stack) > 1 /\ job = Top.id /\ job \in DOMAIN suspended
          /\ DOMAIN suspended' = DOMAIN suspended
          /\ suspended'[job].owner = suspended[job].owner
          /\ \A i \in DOMAIN suspended \ {job} : suspended'[i] = suspended[i]
          /\ UNCHANGED <<vm, current, parked, held, frozen, open>>
      BY <1>7 DEF Retains
    <2>2. current = 0 BY <2>1 DEF IInv, TopInv
    <2>3. \A i \in DOMAIN suspended : suspended'[i].owner = suspended[i].owner BY <2>1
    <2>4. \A e \in Entries : Live(e)' => e = current' \/ \E i \in DOMAIN parked' : parked'[i] = e
      BY <1>7, <2>1, OwnerFacts DEF Live
    <2>5. QED BY <1>7, <2>1, <2>2, <2>3, <2>4, OwnerFacts, OwnerFrom
  <1>8. ASSUME Sound'
        PROVE  OwnerInv'
    <2>1. \A id \in Ids : Parks(id) \/ Resumes(id) \/ Cancels(id) => Sound
      BY <1>8 DEF Parks, Resumes, Cancels, Sound
    <2>2. \A id \in Ids, pid \in Ids, cancel \in BOOLEAN : Controlled(id, pid, cancel) => Sound
      BY <1>8 DEF Controlled, Sound
    <2>3. \A job \in Ids, caller \in Ids : Retains(job, caller) => Sound
      BY <1>8 DEF Retains, Sound
    <2>4. QED BY <1>1, <1>2, <1>4, <1>5, <1>6, <1>7, <1>8, <2>1, <2>2, <2>3 DEF Moves
  <1>9. QED BY <1>8 DEF OwnerInv

LEMMA AcyclicMoves ==
  ASSUME IInv, Moves
  PROVE  AcyclicInv'
  <1>0. AcyclicInv BY DEF IInv
  <1>1. ASSUME \A p, x \in Ids : Before(p, x)' => Before(p, x)
        PROVE  AcyclicInv'
    BY <1>0, <1>1 DEF AcyclicInv
  <1>2. /\ \A i \in DOMAIN suspended : suspended[i].resumers = Resumers(i)
        /\ held.resumers = Resumers(0) /\ DOMAIN suspended \subseteq Ids
    BY Types, ChainFacts DEF Resumers
  <1>3. ToSet(<<>>) = {} BY DEF ToSet
  <1>4. ASSUME NEW id \in Ids, Parks(id)
        PROVE  AcyclicInv'
    <2>1. /\ DOMAIN suspended' = DOMAIN suspended \cup {id}
          /\ suspended'[id].resumers = held.resumers
          /\ \A i \in DOMAIN suspended : suspended'[i] = suspended[i]
          /\ held' = Nothing /\ stack' = stack /\ stack # <<>> /\ ~Top.cancel
          /\ id = IF Len(stack) = 1 THEN ids + 1 ELSE Top.id
          /\ id \notin DOMAIN suspended
      BY <1>4 DEF Parks
    <2>2. Calls' = Calls BY <2>1 DEF Calls
    <2>3. held'.resumers = <<>> BY <2>1 DEF Nothing
    <2>4. Len(stack) = 1 => held.resumers = <<>>
      <3>1. SUFFICES ASSUME Len(stack) = 1
                     PROVE  held.resumers = <<>>
        OBVIOUS
      <3>2. Top.kind # "control" /\ Top = stack[1] /\ Top \in Frames
        BY <2>1, <3>1, Actives DEF IInv
      <3>3. stack[1].kind = "entry" BY <2>1, <3>2 DEF Frames, IInv, StackInv
      <3>4. QED BY <2>1, <3>1, <3>3 DEF IInv, HeldInv
    <2>5. Len(stack) # 1 => Len(stack) > 1
      <3>1. PICK n \in Nat : n = Len(stack) /\ n >= 1 BY <2>1, Actives DEF IInv
      <3>2. n # 1 => n > 1 BY <3>1
      <3>3. QED BY <3>1, <3>2
    <2>6. ASSUME NEW p \in Ids, NEW x \in Ids, Before(p, x)'
          PROVE  Before(p, x)
      <3>1. CASE p = id /\ x \in ToSet(held.resumers)
        <4>1. Len(stack) # 1 BY <1>3, <2>4, <3>1
        <4>2. Len(stack) > 1 /\ Top.id = p BY <2>1, <2>5, <3>1, <4>1
        <4>3. QED BY <3>1, <4>2 DEF Before
      <3>2. CASE ~(p = id /\ x \in ToSet(held.resumers))
        BY <1>3, <2>1, <2>2, <2>3, <2>6, <3>2 DEF Before
      <3>3. QED BY <3>1, <3>2
    <2>7. QED BY <1>1, <2>6
  <1>5. ASSUME NEW id \in Ids, NEW pid \in Ids, NEW cancel \in BOOLEAN,
               Controlled(id, pid, cancel)
        PROVE  AcyclicInv'
    <2>1. /\ DOMAIN suspended' = (DOMAIN suspended \cup {pid}) \ {id} /\ suspended'[pid] = held
          /\ \A i \in DOMAIN suspended \ {id} : suspended'[i] = suspended[i]
          /\ held' = suspended[id] /\ id \in DOMAIN suspended /\ id # pid /\ id \notin Callers
          /\ \A p \in Jobs : id \notin ToSet(Resumers(p))
          /\ pid \notin DOMAIN suspended /\ pid \notin Callers
          /\ \A i \in 1..Len(stack) : stack'[i] = stack[i]
          /\ stack'[Len(stack) + 1] = Frame("control", pid, id, cancel)
          /\ Top' = Frame("control", pid, id, cancel)
      BY <1>5 DEF Controlled
    <2>2. Calls' = Calls \cup {Len(stack) + 1} BY <1>5, ControlledChains
    <2>3. \A i \in Calls' : \/ stack'[i].id = id /\ stack'[i].caller = pid
                            \/ i \in Calls /\ stack'[i] = stack[i]
      <3>1. \A i \in Calls : i \in 1..Len(stack) BY DEF Calls
      <3>2. QED BY <2>1, <2>2, <3>1 DEF Frame
    <2>4. \A i \in Calls : stack[i].caller # id /\ stack[i].caller # pid
      BY <2>1 DEF Callers
    <2>5. Top'.id = id BY <2>1 DEF Frame
    <2>6. \A p \in Ids : ~Before(p, id)'
      <3>1. SUFFICES ASSUME NEW p \in Ids, Before(p, id)'
                     PROVE  FALSE
        OBVIOUS
      <3>2. id \notin ToSet(held.resumers) /\ id \notin ToSet(suspended[id].resumers)
        BY <1>2, <2>1 DEF Jobs
      <3>3. \A i \in DOMAIN suspended : id \notin ToSet(suspended[i].resumers)
        BY <1>2, <2>1 DEF Jobs
      <3>4. \A i \in DOMAIN suspended' : id \notin ToSet(suspended'[i].resumers)
        BY <2>1, <3>2, <3>3
      <3>5. QED BY <2>1, <2>3, <2>4, <3>1, <3>2, <3>4 DEF Before
    <2>7. \A p \in Ids : Before(p, pid)' => p = id
      <3>1. SUFFICES ASSUME NEW p \in Ids, Before(p, pid)', p # id
                     PROVE  FALSE
        OBVIOUS
      <3>2. \A q \in Jobs : pid \notin ToSet(Resumers(q)) BY <2>1, ChainFacts
      <3>3. /\ pid \notin ToSet(held.resumers)
            /\ \A i \in DOMAIN suspended : pid \notin ToSet(suspended[i].resumers)
        BY <1>2, <3>2 DEF Jobs
      <3>4. \A i \in DOMAIN suspended' : pid \notin ToSet(suspended'[i].resumers)
        BY <2>1, <3>3
      <3>5. QED BY <2>3, <2>4, <2>5, <3>1, <3>4 DEF Before
    <2>8. \A p, x \in Ids \ {id, pid} : Before(p, x)' => Before(p, x)
      <3>1. SUFFICES ASSUME NEW p \in Ids \ {id, pid}, NEW x \in Ids \ {id, pid}, Before(p, x)'
                     PROVE  Before(p, x)
        OBVIOUS
      <3>2. CASE p \in DOMAIN suspended' /\ x \in ToSet(suspended'[p].resumers)
        BY <2>1, <3>1, <3>2 DEF Before
      <3>3. CASE ~(p \in DOMAIN suspended' /\ x \in ToSet(suspended'[p].resumers))
        BY <2>3, <2>5, <3>1, <3>3 DEF Before
      <3>4. QED BY <3>2, <3>3
    <2>9. ASSUME NEW chain \in SUBSET Ids, chain # {}
          PROVE  \E x \in chain : \A p \in chain : ~Before(p, x)'
      <3>1. CASE id \in chain BY <2>6, <2>9, <3>1
      <3>2. CASE id \notin chain /\ pid \in chain BY <2>7, <2>9, <3>2
      <3>3. CASE id \notin chain /\ pid \notin chain
        <4>1. PICK x \in chain : \A p \in chain : ~Before(p, x) BY <1>0, <2>9 DEF AcyclicInv
        <4>2. \A p \in chain : ~Before(p, x)' BY <2>8, <2>9, <3>3, <4>1
        <4>3. QED BY <4>2
      <3>4. QED BY <3>1, <3>2, <3>3
    <2>10. QED BY <2>9 DEF AcyclicInv
  <1>6. ASSUME NEW id \in Ids, Resumes(id)
        PROVE  AcyclicInv'
    <2>1. /\ DOMAIN suspended' = DOMAIN suspended \ {id} /\ id \in DOMAIN suspended
          /\ \A i \in DOMAIN suspended \ {id} : suspended'[i] = suspended[i]
          /\ stack' = stack
      BY <1>6 DEF Resumes
    <2>2. Calls' = Calls /\ Top' = Top BY <2>1 DEF Calls, Top
    <2>3. /\ id \in ToSet(held.resumers)
          /\ ToSet(held'.resumers) = (ToSet(held.resumers) \ {id}) \cup ToSet(suspended[id].resumers)
      <3>1. /\ id \in ToSet(Resumers(0)) /\ id \in Jobs
            /\ ToSet(Resumers(0)') = (ToSet(Resumers(0)) \ {id}) \cup ToSet(Resumers(id))
        BY <1>6, <2>1, ResumesChains DEF Jobs
      <3>2. Resumers(0)' = held'.resumers BY DEF Resumers
      <3>3. QED BY <1>2, <2>1, <3>1, <3>2
    <2>4. ASSUME NEW p \in Ids, NEW x \in Ids, Before(p, x)', ~Before(p, x)
          PROVE  Len(stack) > 1 /\ p = Top.id /\ Before(id, x)
      <3>1. ~(p \in DOMAIN suspended' /\ x \in ToSet(suspended'[p].resumers))
        BY <2>1, <2>4 DEF Before
      <3>2. ~(\E i \in Calls' : stack'[i].id = p /\ stack'[i].caller = x)
        BY <2>1, <2>2, <2>4 DEF Before
      <3>3. Len(stack) > 1 /\ Top.id = p /\ x \in ToSet(held'.resumers)
        BY <2>1, <2>2, <2>4, <3>1, <3>2 DEF Before
      <3>4. x \notin ToSet(held.resumers) BY <2>4, <3>3 DEF Before
      <3>5. x \in ToSet(suspended[id].resumers) BY <2>3, <3>3, <3>4
      <3>6. QED BY <2>1, <3>3, <3>5 DEF Before
    <2>5. ASSUME NEW chain \in SUBSET Ids, chain # {}
          PROVE  \E x \in chain : \A p \in chain : ~Before(p, x)'
      <3>1. CASE Len(stack) > 1 /\ Top.id \in chain
        <4>1. Before(Top.id, id) BY <2>3, <3>1 DEF Before
        <4>2. PICK x \in chain \cup {id} : \A p \in chain \cup {id} : ~Before(p, x)
          <5>1. chain \cup {id} \in SUBSET Ids /\ chain \cup {id} # {} BY <2>5, <1>6
          <5>2. QED BY <1>0, <5>1 DEF AcyclicInv
        <4>3. x # id BY <3>1, <4>1, <4>2
        <4>4. \A p \in chain : ~Before(p, x)'
          <5>1. x \in Ids /\ chain \subseteq Ids BY <2>5, <4>2, <4>3
          <5>2. QED BY <2>4, <4>2, <5>1
        <4>5. QED BY <4>2, <4>3, <4>4
      <3>2. CASE ~(Len(stack) > 1 /\ Top.id \in chain)
        <4>1. PICK x \in chain : \A p \in chain : ~Before(p, x) BY <1>0, <2>5 DEF AcyclicInv
        <4>2. \A p \in chain : ~Before(p, x)' BY <2>4, <2>5, <3>2, <4>1
        <4>3. QED BY <4>2
      <3>3. QED BY <3>1, <3>2
    <2>6. QED BY <2>5 DEF AcyclicInv
  <1>7. ASSUME NEW id \in Ids, Returned(id)
        PROVE  AcyclicInv'
    <2>1. /\ DOMAIN suspended' = DOMAIN suspended \ {id} /\ id \in DOMAIN suspended
          /\ \A i \in DOMAIN suspended \ {id} : suspended'[i] = suspended[i]
          /\ held' = suspended[id] /\ Len(stack) > 1 /\ Leave /\ at' \in {"drive", "end"}
      BY <1>7 DEF Returned, Returns
    <2>2. /\ Calls' \subseteq Calls /\ \A i \in Calls' : stack'[i] = stack[i]
      BY <1>7, ReturnedChains
    <2>3. Len(stack') > 1 => Top'.id = id
      <3>1. Len(stack') = Len(stack) - 1 BY <2>1, LeavePops DEF IInv
      <3>2. PICK n \in Nat : n = Len(stack) BY LenProperties DEF IInv, TypeInv
      <3>3. Len(stack) > 2 => Top'.id = id BY <1>7, ReturnedChains
      <3>4. QED BY <3>1, <3>2, <3>3
    <2>4. ASSUME NEW p \in Ids, NEW x \in Ids, Before(p, x)'
          PROVE  Before(p, x)
      <3>1. CASE p \in DOMAIN suspended' /\ x \in ToSet(suspended'[p].resumers)
        BY <2>1, <3>1 DEF Before
      <3>2. CASE \E i \in Calls' : stack'[i].id = p /\ stack'[i].caller = x
        BY <2>2, <3>2 DEF Before
      <3>3. CASE Len(stack') > 1 /\ Top'.id = p /\ x \in ToSet(held'.resumers)
        BY <2>1, <2>3, <3>3 DEF Before
      <3>4. QED BY <2>4, <3>1, <3>2, <3>3 DEF Before
    <2>5. QED BY <1>1, <2>4
  <1>8. ASSUME NEW id \in Ids, Cancels(id)
        PROVE  AcyclicInv'
    <2>1. /\ DOMAIN suspended' = DOMAIN suspended \ {id}
          /\ \A i \in DOMAIN suspended \ {id} : suspended'[i] = suspended[i]
      BY <1>8 DEF Cancels
    <2>2. Calls' = {} /\ Len(stack') = 1 BY <1>8, CancelsChains
    <2>3. ASSUME NEW p \in Ids, NEW x \in Ids, Before(p, x)'
          PROVE  Before(p, x)
      <3>1. ~(Len(stack') > 1) BY <2>2
      <3>2. p \in DOMAIN suspended' /\ x \in ToSet(suspended'[p].resumers)
        BY <2>2, <2>3, <3>1 DEF Before
      <3>3. QED BY <2>1, <3>2 DEF Before
    <2>4. QED BY <1>1, <2>3
  <1>9. ASSUME NEW job \in Ids, NEW c \in Ids, Retains(job, c)
        PROVE  AcyclicInv'
    <2>1. /\ Len(stack) > 1 /\ Leave /\ job = Top.id /\ c = Top.caller /\ job \in DOMAIN suspended
          /\ DOMAIN suspended' = DOMAIN suspended /\ suspended[job] \in Records
          /\ suspended'[job].resumers = <<c>> \o suspended[job].resumers
          /\ \A i \in DOMAIN suspended \ {job} : suspended'[i] = suspended[i]
          /\ held' = held /\ held.resumers = <<>> /\ at' = "drive"
      BY <1>9 DEF Retains
    <2>2. /\ Calls' \subseteq Calls /\ \A i \in 1..(Len(stack) - 1) : stack'[i] = stack[i]
          /\ Len(stack') = Len(stack) - 1
      BY <2>1, LeavePops DEF IInv
    <2>3. \A i \in Calls' : stack'[i] = stack[i]
      <3>1. PICK n \in Nat : n = Len(stack) BY LenProperties DEF IInv, TypeInv
      <3>2. QED BY <2>2, <3>1 DEF Calls
    <2>4. ToSet(suspended'[job].resumers) = {c} \cup ToSet(suspended[job].resumers)
      <3>1. suspended[job].resumers \in Seq(Ids) BY <2>1 DEF Records
      <3> DEFINE t == suspended[job].resumers
                 u == suspended'[job].resumers
      <3>2. /\ u \in Seq(Ids) /\ Len(u) = Len(t) + 1 /\ u[1] = c
            /\ \A i \in 1..Len(t) : u[i + 1] = t[i]
        BY <2>1, <3>1, CallerBehind
      <3>3. PICK n \in Nat : n = Len(t) BY <3>1
      <3>4. DOMAIN t = 1..n /\ DOMAIN u = 1..(n + 1) BY <3>1, <3>2, <3>3
      <3> HIDE DEF t, u
      <3>5. ToSet(u) \subseteq {c} \cup ToSet(t)
        <4>1. ASSUME NEW i \in 1..(n + 1)
              PROVE  u[i] \in {c} \cup ToSet(t)
          <5>1. CASE i = 1 BY <3>2, <5>1
          <5>2. CASE i # 1
            <6>1. i - 1 \in 1..n /\ (i - 1) + 1 = i BY <4>1, <5>2
            <6>2. u[i] = t[i - 1] BY <3>2, <3>3, <6>1
            <6>3. QED BY <3>4, <6>1, <6>2 DEF ToSet
          <5>3. QED BY <5>1, <5>2
        <4>2. QED BY <3>4, <4>1 DEF ToSet
      <3>6. {c} \cup ToSet(t) \subseteq ToSet(u)
        <4>1. 1 \in DOMAIN u BY <3>4
        <4>2. \A i \in 1..n : i + 1 \in DOMAIN u BY <3>4
        <4>3. QED BY <3>2, <3>3, <3>4, <4>1, <4>2 DEF ToSet
      <3>7. QED BY <3>5, <3>6 DEF t, u
    <2>5. ASSUME NEW p \in Ids, NEW x \in Ids, Before(p, x)'
          PROVE  Before(p, x)
      <3>1. CASE p = job /\ x = c
        <4>1. Top = stack[Len(stack)] /\ Len(stack) \in Calls BY <2>1, TheCaller
        <4>2. QED BY <2>1, <3>1, <4>1 DEF Before
      <3>2. CASE ~(p = job /\ x = c) /\ p \in DOMAIN suspended' /\ x \in ToSet(suspended'[p].resumers)
        BY <2>1, <2>4, <3>2 DEF Before
      <3>3. CASE \E i \in Calls' : stack'[i].id = p /\ stack'[i].caller = x
        BY <2>2, <2>3, <3>3 DEF Before
      <3>4. CASE x \in ToSet(held'.resumers) BY <1>3, <2>1, <3>4
      <3>5. QED BY <2>5, <3>1, <3>2, <3>3, <3>4 DEF Before
    <2>6. QED BY <1>1, <2>5
  <1>10. QED BY <1>4, <1>5, <1>6, <1>7, <1>8, <1>9 DEF Moves

\* When shutdown ends nobody is parked: the first of the callers could be controlled.
LEMMA ShutdownKept ==
  ASSUME IInv, Plain \/ Moves
  PROVE  ShutdownLeavesNothing'
  <1>1. CASE Moves
    <2>1. at' # "ended"
      <3>1. \A id \in Ids : Parks(id) \/ Cancels(id) => at' # "ended" BY DEF Parks, Cancels
      <3>2. \A id \in Ids : Resumes(id) \/ Returned(id) => at' # "ended"
        BY DEF Resumes, Returned, Returns
      <3>3. \A id \in Ids, pid \in Ids, cancel \in BOOLEAN :
              Controlled(id, pid, cancel) => at' # "ended"
        BY DEF Controlled
      <3>4. \A job \in Ids, caller \in Ids : Retains(job, caller) => at' # "ended" BY DEF Retains
      <3>5. QED BY <1>1, <3>1, <3>2, <3>3, <3>4 DEF Moves
    <2>2. QED BY <2>1 DEF ShutdownLeavesNothing
  <1>2. ASSUME ShutdownEnds, Sound
        PROVE  ShutdownLeavesNothing'
    <2>1. /\ at = "shutdown" /\ (Controllable = {} \/ current # 0)
          /\ UNCHANGED <<vm, open>>
      BY <1>2 DEF ShutdownEnds, engine, resources
    <2>2. current = 0 BY <1>2, <2>1, OwnerFacts
    <2>3. stack = <<>> BY <2>1 DEF IInv, StackInv
    <2>4. active = <<>> /\ held = Nothing BY <2>3, EmptyStack
    <2>5. DOMAIN suspended = {}
      <3>1. SUFFICES ASSUME DOMAIN suspended # {}
                     PROVE  FALSE
        OBVIOUS
      <3>2. PICK id \in DOMAIN suspended : \A p \in DOMAIN suspended : ~Before(p, id)
        BY <3>1, Types DEF IInv, AcyclicInv
      <3>3. \A p \in DOMAIN suspended : id \notin ToSet(suspended[p].resumers)
        BY <3>2 DEF Before
      <3>4. id \notin ToSet(active) \cup ToSet(held.resumers)
        BY <2>4 DEF ToSet, Nothing
      <3>5. id \in Controllable BY <3>3, <3>4 DEF Controllable, RetainedCaller
      <3>6. QED BY <2>1, <2>2, <3>5
    <2>6. open = {}
      <3>1. held.owner = 0 BY <2>4 DEF Nothing
      <3>2. QED BY <1>2, <2>5, <3>1, OwnerFacts
    <2>7. \A e \in Entries : ~Live(e)
      <3>1. SUFFICES ASSUME NEW e \in Entries, Live(e)
                     PROVE  FALSE
        OBVIOUS
      <3>2. e # 0 BY Types
      <3>3. QED BY <1>2, <2>2, <2>5, <3>1, <3>2, OwnerFacts
    <2>8. QED BY <2>1, <2>6, <2>7 DEF ShutdownLeavesNothing, Live
  <1>3. CASE Plain
    <2>1. ASSUME NEW m \in Machines, Goes(m)
          PROVE  at' # "ended"
      BY <2>1 DEF Goes, Becomes
    <2>2. ASSUME NEW release \in BOOLEAN, Evaluate(release)
          PROVE  at' # "ended"
      BY <2>2 DEF Evaluate
    <2>3. CASE \/ Idle \/ Continue \/ Serve \/ (\E id \in Ids : ControlFails(id)) \/ StartResumed
               \/ Finish \/ BeginShutdown \/ ShutdownReturns
      <3>1. at' # "ended"
        BY <2>3, FinishTypes DEF Idle, Continue, Serve, ControlFails, StartResumed, BeginShutdown,
                                 ShutdownReturns
      <3>2. QED BY <3>1 DEF ShutdownLeavesNothing
    <2>4. CASE ShutdownEnds
      <3>1. CASE Sound BY <1>2, <2>4, <3>1
      <3>2. CASE ~Sound
        <4>1. used' = used BY <2>4 DEF ShutdownEnds
        <4>2. QED BY <3>2, <4>1 DEF ShutdownLeavesNothing, Sound
      <3>3. QED BY <3>1, <3>2
    <2>5. CASE UNCHANGED vars
      <3>1. UNCHANGED <<vm, open, at, used>>
        BY <2>5 DEF vars, engine, resources, coordinator
      <3>2. QED BY <3>1 DEF IInv, ShutdownLeavesNothing, Live, Sound
    <2>6. QED BY <1>3, <2>1, <2>2, <2>3, <2>4, <2>5 DEF Plain, ShutdownLeavesNothing
  <1>4. QED BY <1>1, <1>3

LEMMA InitEstablishes ==
  ASSUME Init
  PROVE  IInv
  <1>1. /\ vm = [e \in Entries |-> Fresh] /\ current = 0 /\ value = 0
        /\ parked = <<>> /\ suspended = <<>> /\ held = Nothing /\ active = <<>> /\ ids = 0
        /\ frozen = {} /\ open = {} /\ stack = <<>> /\ at = "prompt" /\ outcome = "ok"
        /\ callee = [e \in Entries |-> 0]
        /\ used = [entries |-> 0, controls |-> 0, stops |-> 0, interrupts |-> 0, failures |-> 0]
    BY DEF Init
  <1>2. DOMAIN parked = {} /\ DOMAIN suspended = {} BY <1>1
  <1>3. Len(stack) = 0 /\ Len(active) = 0 /\ DOMAIN stack = {} BY <1>1
  <1>4. Calls = {} /\ Callers = {}
    <2>1. Calls = {} BY <1>3 DEF Calls
    <2>2. QED BY <2>1 DEF Callers
  <1>5. Jobs = {0} /\ Resumers(0) = <<>> BY <1>1, <1>2 DEF Jobs, Resumers, Nothing
  <1>6. Fresh \in Machines /\ Fresh.phase = "new" BY DEF Fresh, Machines
  <1>7. TypeInv
    <2>1. vm \in [Entries -> Machines] BY <1>1, <1>6
    <2>2. Nothing \in Records
      <3>1. 0 \in 0..MaxEntries /\ <<>> \in Seq(Ids) BY BoundsNatural
      <3>2. QED BY <3>1 DEF Nothing, Records
    <2>3. ToSet(parked) = {} BY <1>2 DEF ToSet
    <2>4. /\ used \in Bounds
      <3>1. 0 \in 0..MaxEntries /\ 0 \in 0..MaxControls BY BoundsNatural
      <3>2. QED BY <1>1, <3>1 DEF Bounds
    <2>5. callee \in [Entries -> 0..MaxEntries] /\ 0 \in 0..MaxEntries
          /\ 0 \in 0..(MaxEntries + MaxControls)
      BY <1>1, BoundsNatural
    <2>6. stack \in Seq(Frames) /\ active \in Seq(Ids) BY <1>1
    <2>7. TypeOK
      BY <1>1, <1>2, <1>3, <2>1, <2>2, <2>3, <2>5, <2>6 DEF TypeOK, Machines
    <2>8. QED BY <2>4, <2>6, <2>7 DEF TypeInv, Bounds
  <1>8. StackInv BY <1>1, <1>3, <1>4 DEF StackInv
  <1>9. IdsInv BY <1>1, <1>2, <1>4 DEF IdsInv
  <1>10. HomeInv
    <2>1. \A e \in Entries : vm[e].phase = "new" /\ e > used.entries
      BY <1>1, <1>6 DEF Entries
    <2>2. IsInjective(parked) BY <1>2 DEF IsInjective
    <2>3. held.owner = 0 /\ used.entries = 0 BY <1>1 DEF Nothing
    <2>4. frozen \cup open \cup {held.owner} \subseteq 0..used.entries BY <1>1, <2>3
    <2>5. QED BY <1>1, <1>2, <2>1, <2>2, <2>4 DEF HomeInv
  <1>11. TopInv BY <1>3 DEF TopInv
  <1>12. ChainInv BY <1>3, <1>4, <1>5 DEF ChainInv
  <1>13. HeldInv BY <1>1 DEF HeldInv
  <1>14. AskInv BY <1>1, <1>2 DEF AskInv
  <1>15. CancelInv BY <1>1, <1>3 DEF CancelInv
  <1>16. OwnerInv
    <2>1. \A e \in Entries : ~Live(e) BY <1>1, <1>6 DEF Live
    <2>2. QED BY <1>1, <1>2, <2>1 DEF OwnerInv, Nothing
  <1>17. AcyclicInv
    <2>1. \A p, id : ~Before(p, id) BY <1>2, <1>3, <1>4 DEF Before
    <2>2. QED BY <2>1 DEF AcyclicInv
  <1>18. ShutdownLeavesNothing BY <1>1 DEF ShutdownLeavesNothing
  <1>19. QED BY <1>7, <1>8, <1>9, <1>10, <1>11, <1>12, <1>13, <1>14, <1>15, <1>16, <1>17, <1>18
         DEF IInv

LEMMA Inductive ==
  ASSUME IInv, [Next]_vars
  PROVE  IInv'
  <1>1. Plain \/ Moves BY Steps
  <1>2. TypeInv' BY <1>1, PlainTypes, MoveTypes
  <1>3. TopInv' /\ ShutdownLeavesNothing' BY <1>1, TopKept, ShutdownKept
  <1>4. CASE Plain
    <2>1. StackInv' /\ ChainInv' /\ AcyclicInv' BY <1>4, PlainChains, ChainsKept
    <2>2. IdsInv' /\ HomeInv' /\ HeldInv' BY <1>4, IdsPlain, HomePlain, HeldPlain
    <2>3. AskInv' /\ CancelInv' /\ OwnerInv' BY <1>4, AskPlain, CancelPlain, OwnerPlain
    <2>4. QED BY <1>2, <1>3, <2>1, <2>2, <2>3 DEF IInv
  <1>5. CASE Moves
    <2>1. StackInv' /\ ChainInv'
      <3>1. ASSUME NEW id \in Ids, NEW pid \in Ids, NEW cancel \in BOOLEAN,
                   Controlled(id, pid, cancel)
            PROVE  StackInv' /\ ChainInv'
        <4>1. StackInv' BY <3>1 DEF Controlled
        <4>2. ChainInv' BY <3>1, ControlledChains
        <4>3. QED BY <4>1, <4>2
      <3>2. QED BY <1>5, <3>1, ParksChains, ResumesChains, ReturnedChains, CancelsChains, RetainsChains
                DEF Moves
    <2>2. IdsInv' /\ HomeInv' /\ HeldInv' BY <1>5, IdsMoves, HomeMoves, HeldMoves
    <2>3. AskInv' /\ CancelInv' /\ OwnerInv' BY <1>5, AskMoves, CancelMoves, OwnerMoves
    <2>4. AcyclicInv' BY <1>5, AcyclicMoves
    <2>5. QED BY <1>2, <1>3, <2>1, <2>2, <2>3, <2>4 DEF IInv
  <1>6. QED BY <1>1, <1>4, <1>5

\* The parts of the invariant hold together in every reachable state: engine, session
\* and coordinator agree on who runs, who is parked and who waits.
THEOREM InvariantAlways == Spec => []IInv
  <1>1. Init => IInv BY InitEstablishes
  <1>2. IInv /\ [Next]_vars => IInv' BY Inductive
  <1>3. QED BY <1>1, <1>2, PTL DEF Spec
-----------------------------------------------------------------------------
(* The properties                                                          *)

\* Every variable keeps its type.
THEOREM EvaluationsTypes == Spec => []TypeOK
  <1>1. IInv => TypeOK BY DEF IInv, TypeInv
  <1>2. QED BY <1>1, InvariantAlways, PTL

\* An evaluation and what it owns are in one place, whatever is stopped, resumed or
\* cancelled, and nothing that is still owned runs at the prompt.
THEOREM OneHomeAlways == Spec => []OneHome
  <1>1. ASSUME IInv, Sound
        PROVE  OneHome
    <2>1. \A e \in Entries : Live(e) => (e = current) # (\E id \in DOMAIN parked : parked[id] = e)
      <3>1. \A e \in Entries : Live(e) => e = current \/ \E id \in DOMAIN parked : parked[id] = e
        BY <1>1, OwnerFacts, Zenon
      <3>2. DOMAIN parked = DOMAIN suspended
            /\ \A id \in DOMAIN suspended : parked[id] # current
        BY <1>1, OwnerFacts, Zenon
      <3>3. QED BY <3>1, <3>2
    <2>2. IsInjective(parked) BY <1>1 DEF IInv, HomeInv
    <2>3. /\ DOMAIN parked = DOMAIN suspended
          /\ \A id \in DOMAIN suspended : suspended[id].owner = parked[id]
      BY <1>1, OwnerFacts
    <2>4. at \in {"drive", "service"} /\ current # 0 =>
            held.owner = current /\ (current \in frozen => Top.cancel)
      BY <1>1, OwnerFacts
    <2>5. at = "prompt" => held = Nothing /\ current = 0 /\ active = <<>> /\ open \subseteq frozen
      <3>1. SUFFICES ASSUME at = "prompt"
                     PROVE  held = Nothing /\ current = 0 /\ active = <<>> /\ open \subseteq frozen
        OBVIOUS
      <3>2. stack = <<>> BY <1>1, <3>1 DEF IInv, StackInv
      <3>3. held = Nothing /\ active = <<>> BY <1>1, <3>2, EmptyStack
      <3>4. current = 0 BY <1>1, <3>1, OwnerFacts
      <3>5. held.owner = 0 BY <3>3 DEF Nothing
      <3>6. open \subseteq frozen BY <1>1, <3>5, OwnerFacts
      <3>7. QED BY <3>3, <3>4, <3>6
    <2>6. QED BY <2>1, <2>2, <2>3, <2>4, <2>5 DEF OneHome, HomeKept, ResourcesKept
  <1>2. ~Sound => OneHome BY DEF OneHome, HomeKept, ResourcesKept
  <1>3. IInv => OneHome BY <1>1, <1>2
  <1>4. QED BY <1>3, InvariantAlways, PTL

\* Every parked caller will be answered by one party, no caller waits for itself, and
\* the running machine waits for no answer that nobody gives.
THEOREM EveryCallIsAnsweredAlways == Spec => []EveryCallIsAnswered
  <1>1. ASSUME IInv, Sound, NEW id \in DOMAIN suspended
        PROVE  Cardinality(Answers(id)) = IF vm[parked[id]].ask /\ ~suspended[id].pending THEN 1 ELSE 0
    <2>1. \A p \in Jobs : Len(Resumers(p)) \in Nat /\ DOMAIN Resumers(p) = 1..Len(Resumers(p))
      BY <1>1, ChainFacts
    <2>2. \A p \in Jobs : \A x : x \in Chained(p, id) <=>
            \E i \in 1..Len(Resumers(p)) : x = <<p, i>> /\ Resumers(p)[i] = id
      BY <2>1 DEF Chained
    <2>3. Called(id) = {i \in Calls : stack[i].caller = id}
      <3>1. DOMAIN stack = 1..Len(stack) /\ Len(stack) \in Nat
        BY <1>1, LenProperties DEF IInv, TypeInv
      <3>2. \A i \in 1..Len(stack) : stack[i].kind = "control" <=> i \in Calls
        BY <1>1, <3>1 DEF IInv, StackInv, Calls
      <3>3. Calls \subseteq 1..Len(stack) BY <3>1 DEF Calls
      <3>4. QED BY <3>1, <3>2, <3>3 DEF Called
    <2>4. \A x : x \in Answers(id) <=>
            \/ \E p \in Jobs : x \in Chained(p, id)
            \/ \E i \in Called(id) : x = <<-1, i>>
      <3>1. \A x : x \in UNION {Chained(p, id) : p \in Jobs} <=> \E p \in Jobs : x \in Chained(p, id)
        OBVIOUS
      <3>2. \A x : x \in {<<-1, i>> : i \in Called(id)} <=> \E i \in Called(id) : x = <<-1, i>>
        OBVIOUS
      <3>3. Answers(id) = (UNION {Chained(p, id) : p \in Jobs}) \cup {<<-1, i>> : i \in Called(id)}
        BY DEF Answers, Jobs
      <3>4. QED BY <3>1, <3>2, <3>3
    <2>5. CASE id \in Callers
      <3>1. PICK i \in Calls : stack[i].caller = id BY <2>5 DEF Callers
      <3>2. Called(id) = {i} BY <1>1, <2>3, <3>1 DEF IInv, ChainInv
      <3>3. \A p \in Jobs : Chained(p, id) = {}
        BY <1>1, <2>2, <2>5 DEF IInv, ChainInv
      <3>4. Answers(id) = {<<-1, i>>} BY <2>4, <3>2, <3>3
      <3>5. Cardinality(Answers(id)) = 1 BY <3>4, FS_Singleton
      <3>6. Waiting(id) BY <2>5 DEF Waiting
      <3>7. QED BY <1>1, <3>5, <3>6 DEF IInv, AskInv
    <2>6. CASE id \notin Callers /\ \E p \in Jobs : id \in ToSet(Resumers(p))
      <3>1. PICK p \in Jobs : id \in ToSet(Resumers(p)) BY <2>6
      <3>2. PICK i \in 1..Len(Resumers(p)) : Resumers(p)[i] = id BY <1>1, <3>1, ChainFacts
      <3>3. Called(id) = {} BY <2>3, <2>6 DEF Callers
      <3>4. \A q \in Jobs : \A j \in 1..Len(Resumers(q)) : Resumers(q)[j] = id => q = p /\ j = i
        BY <1>1, <3>2 DEF IInv, ChainInv
      <3>5. \A x : x \in Answers(id) <=> x = <<p, i>> BY <2>2, <2>4, <3>2, <3>3, <3>4
      <3>6. Answers(id) = {<<p, i>>} BY <3>5
      <3>7. Cardinality(Answers(id)) = 1 BY <3>6, FS_Singleton
      <3>8. Waiting(id) BY <3>1 DEF Waiting
      <3>9. QED BY <1>1, <3>7, <3>8 DEF IInv, AskInv
    <2>7. CASE ~Waiting(id)
      <3>1. Called(id) = {} BY <2>3, <2>7 DEF Waiting, Callers
      <3>2. \A p \in Jobs : Chained(p, id) = {}
        <4>1. \A p \in Jobs : id \notin ToSet(Resumers(p)) BY <2>7 DEF Waiting
        <4>2. \A p \in Jobs : \A i \in 1..Len(Resumers(p)) : Resumers(p)[i] # id
          BY <1>1, <4>1, ChainFacts
        <4>3. QED BY <2>2, <4>2
      <3>3. Answers(id) = {} BY <2>4, <3>1, <3>2
      <3>4. Cardinality(Answers(id)) = 0 BY <3>3, FS_EmptySet
      <3>5. QED BY <1>1, <2>7, <3>4 DEF IInv, AskInv
    <2>8. QED BY <2>5, <2>6, <2>7 DEF Waiting
  <1>2. ASSUME IInv, Sound
        PROVE  EveryCallIsAnswered
    <2>1. ASSUME NEW chain \in SUBSET DOMAIN suspended, chain # {}
          PROVE  \E id \in chain : \A i \in chain : id \notin ToSet(suspended[i].resumers)
      <3>1. PICK id \in chain : \A p \in chain : ~Before(p, id)
        BY <1>2, <2>1, Types DEF IInv, AcyclicInv
      <3>2. \A i \in chain : id \notin ToSet(suspended[i].resumers) BY <2>1, <3>1 DEF Before
      <3>3. QED BY <3>2
    <2>2. Driving /\ vm[current].ask => Top.cancel /\ vm[current].phase = "cleanup"
      BY <1>2 DEF Driving, IInv, AskInv
    <2>3. QED BY <1>1, <1>2, <2>1, <2>2 DEF EveryCallIsAnswered
  <1>3. ~Sound => EveryCallIsAnswered BY DEF EveryCallIsAnswered
  <1>4. IInv => EveryCallIsAnswered BY <1>2, <1>3
  <1>5. QED BY <1>4, InvariantAlways, PTL

\* Shutdown ends with every evaluation over and all they owned closed.
THEOREM ShutdownLeavesNothingAlways == Spec => []ShutdownLeavesNothing
  <1>1. IInv => ShutdownLeavesNothing BY DEF IInv
  <1>2. QED BY <1>1, InvariantAlways, PTL
================================================================================
