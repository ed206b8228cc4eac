------------------------------- MODULE Producers -------------------------------
(***************************************************************************)
(* Resource-owning producers (seq.produce), the consumers that pull them   *)
(* and the cleanup continuation that closes them: one evaluation of the    *)
(* virtual machine, from its entry to its outcome.                         *)
(*                                                                         *)
(* The machine is a stack of frames.  A "body" frame runs the program's    *)
(* code: the entry, an attempt, or a callback (acquire, step, release,     *)
(* a flat_map transform, a fold step).  A "task" frame drives a consumer   *)
(* over a graph of streams, here one producer that flat_map may open into  *)
(* an inner one.  A "cleanup" frame closes producers and resources.  Only  *)
(* the top frame runs; what a body does is the program's choice, within    *)
(* the language's ownership rules.  An interrupt or an exit may reach the  *)
(* machine between any two steps.                                          *)
(***************************************************************************)
EXTENDS Integers, FiniteSets, Sequences, SequencesExt

CONSTANTS
  MaxProducers,  \* producers an evaluation may construct
  MaxItems,      \* items a producer yields before it must report None
  MaxResources,  \* resources (files, sources) an evaluation may open
  MaxAttempts,   \* nested attempt frames
  MaxTroubles,   \* errors of callbacks and of the host, interrupts and exits
  MaxAtOnce,     \* troubles and resources so far with the attempts entered now
  Consumers,     \* consumers the program uses
  Flat           \* does it use flat_map with them?

ASSUME BoundsNatural ==
  /\ {MaxProducers, MaxItems, MaxResources, MaxAttempts, MaxTroubles,
      MaxAtOnce} \subseteq Nat
  /\ Consumers \subseteq {"collect", "cut", "until", "close"}
  /\ Flat \subseteq BOOLEAN

VARIABLES
  frames,     \* the machine's stack of frames, the running one last
  phase,      \* a producer's phase
  parent,     \* the scope a producer was constructed in; 0 is the entry's
  token,      \* is the producer's stream still to be consumed?
  items,      \* a producer's state: the items it has yielded, NoState before acquisition
  resources,  \* the scopes of the resources opened, in order of opening
  live,       \* positions of the resources still open
  aborting,   \* is a cancellation or an exit unwinding the machine?
  outcome,    \* how the evaluation ended
  errors,     \* errors raised so far: their identities are 1..errors
  stops,      \* the interrupts and exits so far, "cancel" or "exit"
  caught,     \* the errors attempts have returned as values
  releases    \* the arguments each producer's release callback was applied to

producing == <<phase, parent, token, items>>
opening == <<resources, live>>
ending == <<aborting, outcome, caught>>
vars == <<frames, producing, opening, ending, errors, stops, releases>>

Producer == 1..MaxProducers
Scope == 0..MaxProducers
NoState == -1

None == [kind |-> "none", id |-> 0, notes |-> {}]
Error(kind, id) == [kind |-> kind, id |-> id, notes |-> {}]

(* An error with another one attached to it as secondary diagnostics. *)
Noted(primary, secondary) ==
  [primary EXCEPT !.notes = @ \cup {secondary.id} \cup secondary.notes]

Body(job, of, owner) ==
  [kind |-> "body", job |-> job, of |-> of, owner |-> owner,
   made |-> Cardinality({p \in Producer : phase[p] # "none"}), opened |-> Len(resources)]

Task(p, flat, consumer, owner) ==
  [kind |-> "task", owner |-> owner, consumer |-> consumer, flat |-> flat,
   outer |-> p, inner |-> 0, from |-> 0, owned |-> {p}, graph |-> {p},
   at |-> IF consumer = "close" THEN "settle" ELSE "pull"]

Act(do, on) == [do |-> do, on |-> on]

(* Closing no keys at all is no action. *)
Closing(keys) == IF keys = {} THEN <<>> ELSE <<Act("close", keys)>>

\* Mistaken variant: resources are closed before the producers.
CleanupKeysFirst(producers, keys, reason, after, error) ==
  [kind |-> "cleanup", reason |-> reason, after |-> after, error |-> error,
   actions |-> Closing(keys)
                 \o [i \in 1..Len(producers) |-> Act("producer", producers[i])]]

(* Its actions are performed from the first to the last. *)
Cleanup(producers, keys, reason, after, error) ==
  [kind |-> "cleanup", reason |-> reason, after |-> after, error |-> error,
   actions |-> [i \in 1..Len(producers) |-> Act("producer", producers[i])]
                 \o Closing(keys)]

Running == frames # <<>>
Top == Last(frames)
OnTop(kind) == Running /\ Top.kind = kind
Below(fs) == Front(fs)

Init ==
  /\ frames = <<[kind |-> "body", job |-> "entry", of |-> 0, owner |-> 0,
                 made |-> 0, opened |-> 0]>>
  /\ phase = [p \in Producer |-> "none"]
  /\ parent = [p \in Producer |-> 0]
  /\ token = [p \in Producer |-> FALSE]
  /\ items = [p \in Producer |-> NoState]
  /\ resources = <<>>
  /\ live = {}
  /\ aborting = FALSE
  /\ outcome = None
  /\ errors = 0
  /\ stops = <<>>
  /\ caught = {}
  /\ releases = [p \in Producer |-> <<>>]

Active(p) == phase[p] \in {"new", "acquiring", "ready", "stepping"}

(***************************************************************************)
(* Failure.  The nearest cleanup frame, or the nearest attempt that still  *)
(* counts, receives an error; a machine that is aborting ignores the       *)
(* attempts outside its innermost cleanup.                                 *)
(***************************************************************************)
IsAttempt(frame) == frame.kind = "body" /\ frame.job = "attempt"

Cleanups(fs) == {i \in DOMAIN fs : fs[i].kind = "cleanup"}
LastOf(I) == IF I = {} THEN 0 ELSE Max(I)

\* Mistaken variant: attempts count while the machine is aborting.
CheckpointAlways(fs, abort) ==
  LET innermost == LastOf(Cleanups(fs))
      attempt == LastOf({i \in DOMAIN fs : IsAttempt(fs[i])})
  IN  IF attempt > innermost THEN attempt ELSE innermost

Checkpoint(fs, abort) ==
  LET innermost == LastOf(Cleanups(fs))
      attempt == LastOf({i \in DOMAIN fs : IsAttempt(fs[i])})
  IN  IF attempt > innermost /\ (~abort \/ innermost > 0) THEN attempt ELSE innermost

(* A failed first application must not attempt to apply its missing result.  *)
Unapplied(actions) ==
  CASE actions # <<>> /\ actions[1].do = "second" -> Tail(Tail(actions))
    [] actions # <<>> /\ actions[1].do = "check"  -> Tail(actions)
    [] OTHER                                      -> actions

\* Mistaken variant: the latest error becomes the primary one.
SurvivesLatest(cleanup, error) ==
  [cleanup EXCEPT
    !.actions = Unapplied(@),
    !.error = IF @.kind \in {"none", "exit"} THEN error ELSE Noted(error, @)]

\* Mistaken variant: a failure ends the whole cleanup.
SurvivesNothing(cleanup, error) ==
  [cleanup EXCEPT
    !.actions = <<>>,
    !.error = IF @.kind \in {"none", "exit"} THEN error ELSE Noted(@, error)]

(* A cleanup frame survives the failure of one of its callbacks: it keeps  *)
(* the first error, except that a real one replaces an exit.               *)
Survives(cleanup, error) ==
  [cleanup EXCEPT
    !.actions = Unapplied(@),
    !.error = IF @.kind \in {"none", "exit"} THEN error ELSE Noted(@, error)]

(* The members of S from the one with the least place on; of two in the same *)
(* place the one that was made first.                                        *)
InOrder(S, place) ==
  LET position(p) ==
        Cardinality({q \in S : place[q] < place[p] \/ (place[q] = place[p] /\ q <= p)})
  IN  [i \in 1..Cardinality(S) |-> CHOOSE p \in S : position(p) = i]

AsMade(S) == InOrder(S, [p \in Producer |-> 0])

(* The producers a consumer owns, and those its graph reaches. *)
Owned(task) == (task.owned \cup {task.outer, task.inner}) \ {0}
Reached(task) == [p \in Producer |-> IF p = task.inner THEN 1 ELSE 0]

(* The consumers that an error abandons, the first one that has a producer   *)
(* and its place there; producers without a consumer come last.              *)
Tasks(fs, at) == {i \in DOMAIN fs : i >= at /\ fs[i].kind = "task"}
Owners(fs, at) ==
  [p \in Producer |->
     LET tasks == {i \in Tasks(fs, at) : p \in Owned(fs[i])}
     IN  IF tasks = {} THEN 2 * Len(fs) + 2
         ELSE 2 * Min(tasks) + Reached(fs[Min(tasks)])[p]]
Made(fs, at) == ((IF at = 0 THEN 0 ELSE fs[at].made) + 1)..MaxProducers
Served(fs, at) == UNION {Owned(fs[i]) : i \in Tasks(fs, at)}

\* Mistaken variant: every producer counts, not only those made since.
AbandonedAll(fs, at) == InOrder({p \in Producer : Active(p)}, Owners(fs, at))

\* Mistaken variant: producers that are closed already are closed again.
AbandonedAgain(fs, at) ==
  InOrder({p \in Served(fs, at) \cup Made(fs, at) : phase[p] # "none"}, Owners(fs, at))

(* What an error leaves open above its checkpoint. *)
Abandoned(fs, at) ==
  InOrder({p \in Served(fs, at) \cup Made(fs, at) : Active(p)}, Owners(fs, at))
Unclosed(fs, at) ==
  {i \in live : i > IF at = 0 THEN 0 ELSE fs[at].opened}

Because(error) ==
  CASE error.kind = "cancel" -> "cancelled"
    [] error.kind = "exit" -> "closed"
    [] OTHER -> "failed"

(* The stack fs fails with an error: it is deferred to a cleanup frame,    *)
(* returned by an attempt, or ends the evaluation.                         *)
Fail(fs, error) ==
  LET abort == aborting \/ error.kind # "op"
      at == Checkpoint(fs, abort)
      deferred == at > 0 /\ fs[at].kind = "cleanup"
      unwinds == ~deferred /\ (Abandoned(fs, at) # <<>> \/ Unclosed(fs, at) # {})
      catches == ~deferred /\ ~unwinds /\ at > 0
  IN  \/ /\ deferred
         /\ frames' = Append(SubSeq(fs, 1, at - 1), Survives(fs[at], error))
         /\ aborting' = abort
         /\ UNCHANGED <<outcome, caught, token>>
      \/ /\ unwinds
         /\ frames' = Append(fs, Cleanup(Abandoned(fs, at), Unclosed(fs, at),
                                         Because(error), "unwind", error))
         /\ aborting' = abort
         /\ UNCHANGED <<outcome, caught, token>>
      \/ /\ catches
         /\ frames' = SubSeq(fs, 1, at - 1)
         /\ caught' = caught \cup {error}
         /\ token' = [p \in Producer |-> token[p] /\ p <= fs[at].made]
         /\ aborting' = abort
         /\ UNCHANGED outcome
      \/ /\ ~deferred /\ ~unwinds /\ ~catches
         /\ frames' = <<>>
         /\ outcome' = error
         /\ token' = [p \in Producer |-> FALSE]
         /\ aborting' = FALSE
         /\ UNCHANGED caught

(* The bound on what is combined, and what still may go wrong. *)
Attempts == Cardinality({i \in DOMAIN frames : IsAttempt(frames[i])})
Room == errors + Len(stops) + Len(resources) + Attempts < MaxAtOnce
Calm == errors + Len(stops) < MaxTroubles /\ Room

Raises(fs) ==
  /\ Calm
  /\ errors' = errors + 1
  /\ Fail(fs, Error("op", errors + 1))

\* Mistaken variant: an error retained by cleanup outlives the interrupt.
InterruptedOnce(cleanup, kind) ==
  IF cleanup.error.kind = "none" THEN [cleanup EXCEPT !.error = Error(kind, 0)] ELSE cleanup

(***************************************************************************)
(* An interrupt or an exit.  Cleanup goes on: its outermost frame keeps    *)
(* the cancellation as its error.                                          *)
(***************************************************************************)
Interrupted(cleanup, kind) ==
  IF cleanup.error.kind = "none" \/ (kind = "cancel" /\ cleanup.error.kind # "cancel")
    THEN [cleanup EXCEPT !.error = IF @.kind = "none" THEN Error(kind, 0)
                                   ELSE Noted(Error(kind, 0), @)]
    ELSE cleanup

Stop(kind) ==
  /\ Running
  /\ Calm
  /\ stops' = Append(stops, kind)
  /\ \/ /\ Cleanups(frames) # {}
        /\ frames' = [frames EXCEPT ![Min(Cleanups(frames))] = Interrupted(@, kind)]
        /\ aborting' = TRUE
        /\ UNCHANGED <<outcome, caught, token>>
     \/ Cleanups(frames) = {} /\ Fail(frames, Error(kind, 0))
  /\ UNCHANGED <<phase, parent, items, opening, errors, releases>>

(***************************************************************************)
(* The program's own code.                                                 *)
(***************************************************************************)
Replaced(frame) == Append(Below(frames), frame)
Pushed(frame) == Append(frames, frame)

Coding == OnTop("body") /\ Top.job # "ended"

(* produce: a new producer, in the scope of the running frame. *)
Produce ==
  /\ Coding
  /\ \E p \in Producer :
       /\ phase[p] = "none"
       /\ \A q \in 1..p - 1 : phase[q] # "none"
       /\ phase' = [phase EXCEPT ![p] = "new"]
       /\ parent' = [parent EXCEPT ![p] = Top.owner]
       /\ token' = [token EXCEPT ![p] = TRUE]
  /\ UNCHANGED <<frames, items, opening, ending, errors, stops, releases>>

(* Open a file or another source in the running scope. *)
Open ==
  /\ Coding
  /\ Len(resources) < MaxResources /\ Room
  /\ resources' = Append(resources, Top.owner)
  /\ live' = live \cup {Len(resources) + 1}
  /\ UNCHANGED <<frames, producing, ending, errors, stops, releases>>

(* Apply a consumer to a stream of the running scope. *)
Consume ==
  /\ Coding
  /\ \E p \in Producer, consumer \in Consumers, flat \in Flat :
       /\ token[p] /\ parent[p] = Top.owner
       /\ frames' = Pushed(Task(p, flat, consumer, Top.owner))
       /\ token' = [token EXCEPT ![p] = FALSE]
  /\ UNCHANGED <<phase, parent, items, opening, ending, errors, stops, releases>>

Attempt ==
  /\ Coding
  /\ Attempts < MaxAttempts /\ Room
  /\ frames' = Pushed(Body("attempt", 0, Top.owner))
  /\ UNCHANGED <<producing, opening, ending, errors, stops, releases>>

Raise ==
  /\ Coding
  /\ Raises(frames)
  /\ UNCHANGED <<phase, parent, items, opening, stops, releases>>

(* The attempt's thunk returns. *)
AttemptReturns ==
  /\ Coding /\ Top.job = "attempt"
  /\ frames' = Below(frames)
  /\ UNCHANGED <<producing, opening, ending, errors, stops, releases>>

(* The entry's statement has its value and reaches its boundary. *)
StatementEnds ==
  /\ Coding /\ Top.job = "entry"
  /\ frames' = Replaced([Top EXCEPT !.job = "ended"])
  /\ UNCHANGED <<producing, opening, ending, errors, stops, releases>>

(* The boundary closes what is still open, producers first, and is tried   *)
(* again until nothing is left.                                            *)
Boundary ==
  /\ OnTop("body") /\ Top.job = "ended"
  /\ LET left == {p \in Producer : Active(p)}
     IN  \/ /\ left # {}
            /\ frames' = Pushed(Cleanup(AsMade(left), {}, "closed", "boundary", None))
            /\ UNCHANGED <<token, outcome>>
         \/ /\ left = {} /\ live # {}
            /\ frames' = Pushed(Cleanup(<<>>, live, "closed", "boundary", None))
            /\ token' = [p \in Producer |-> FALSE]
            /\ UNCHANGED outcome
         \/ /\ left = {} /\ live = {}
            /\ frames' = <<>>
            /\ token' = [p \in Producer |-> FALSE]
            /\ outcome' = [None EXCEPT !.kind = "ok"]
  /\ UNCHANGED <<phase, parent, items, opening, aborting, caught, errors, stops, releases>>

(* The statement's value is a stream that nobody consumed. *)
UnconsumedStream ==
  /\ OnTop("body") /\ Top.job = "ended"
  /\ \E p \in Producer : token[p] /\ parent[p] = 0 /\ ~Active(p)
  /\ Raises(frames)
  /\ UNCHANGED <<phase, parent, items, opening, stops, releases>>

(***************************************************************************)
(* Consumers.                                                              *)
(***************************************************************************)
Stage(at) == OnTop("task") /\ Top.at = at

At(task, at) == [task EXCEPT !.at = at]

(* Demand reaches a producer: the inner one while there is one. *)
Pull ==
  /\ Stage("pull")
  /\ LET p == IF Top.inner = 0 THEN Top.outer ELSE Top.inner
         task == [Top EXCEPT !.from = p]
         call(job) == /\ frames' = Replaced(At(task, job)) \o <<Body(job, p, p)>>
     IN  \/ /\ phase[p] = "new"
            /\ phase' = [phase EXCEPT ![p] = "acquiring"]
            /\ call("acquire")
         \/ /\ phase[p] = "ready"
            /\ phase' = [phase EXCEPT ![p] = "stepping"]
            /\ call("step")
         \/ /\ phase[p] = "closed"
            /\ frames' = Replaced(At(task, "exhausted"))
            /\ UNCHANGED phase
  /\ UNCHANGED <<parent, token, items, opening, ending, errors, stops, releases>>

(* Pulling a producer that is in use, or a step, transform or fold result  *)
(* of the wrong kind, a limit: the consumer itself raises.                 *)
TaskRaises ==
  /\ \/ Stage("pull") /\ phase[IF Top.inner = 0 THEN Top.outer ELSE Top.inner]
                            \in {"acquiring", "stepping", "closing"}
     \/ Stage("consume")
  /\ Raises(frames)
  /\ UNCHANGED <<phase, parent, items, opening, stops, releases>>

Answers(job) == Coding /\ Top.job = job
Caller == Last(Below(frames))
Answered(task) == Append(Below(Below(frames)), task)

Acquired ==
  /\ Answers("acquire")
  /\ phase' = [phase EXCEPT ![Top.of] = "ready"]
  /\ items' = [items EXCEPT ![Top.of] = 0]
  /\ frames' = Answered(At(Caller, "pull"))
  /\ UNCHANGED <<parent, token, opening, ending, errors, stops, releases>>

\* Mistaken variant: one item too many.
YieldedMore ==
  /\ Answers("step")
  /\ items[Top.of] <= MaxItems
  /\ phase' = [phase EXCEPT ![Top.of] = "ready"]
  /\ items' = [items EXCEPT ![Top.of] = @ + 1]
  /\ frames' = IF Caller.flat /\ Caller.from = Caller.outer
                 THEN Answered(At(Caller, "transform")) \o <<Body("transform", 0, Caller.owner)>>
                 ELSE Answered(At(Caller, "consume"))
  /\ UNCHANGED <<parent, token, opening, ending, errors, stops, releases>>

(* A step reports an item and the next state ... *)
Yielded ==
  /\ Answers("step")
  /\ items[Top.of] < MaxItems
  /\ phase' = [phase EXCEPT ![Top.of] = "ready"]
  /\ items' = [items EXCEPT ![Top.of] = @ + 1]
  /\ frames' = IF Caller.flat /\ Caller.from = Caller.outer
                 THEN Answered(At(Caller, "transform")) \o <<Body("transform", 0, Caller.owner)>>
                 ELSE Answered(At(Caller, "consume"))
  /\ UNCHANGED <<parent, token, opening, ending, errors, stops, releases>>

(* ... or that it is exhausted: the producer is closed at once. *)
Exhausted ==
  /\ Answers("step")
  /\ phase' = [phase EXCEPT ![Top.of] = "ready"]
  /\ frames' = Answered(At(Caller, "exhausted"))
                 \o <<Cleanup(<<Top.of>>, {}, "exhausted", "resume", None)>>
  /\ UNCHANGED <<parent, token, items, opening, ending, errors, stops, releases>>

(* flat_map's callback returns a stream, which becomes the inner one ... *)
Opened ==
  /\ Answers("transform")
  /\ \E q \in Producer :
       /\ token[q] /\ parent[q] = Caller.owner
       /\ token' = [token EXCEPT ![q] = FALSE]
       /\ frames' = Answered([Caller EXCEPT !.at = "pull", !.inner = q,
                                            !.graph = @ \cup {q}])
  /\ UNCHANGED <<phase, parent, items, opening, ending, errors, stops, releases>>

(* ... or a list, of at most one item here. *)
Listed ==
  /\ Answers("transform")
  /\ \E next \in {"pull", "consume"} : frames' = Answered(At(Caller, next))
  /\ UNCHANGED <<producing, opening, ending, errors, stops, releases>>

(* An inner stream that has ended is closed before the next outer item; an *)
(* outer one that has ended ends the consumer.                             *)
SourceEnds ==
  /\ Stage("exhausted")
  /\ frames' = IF Top.from = Top.inner
                 THEN Replaced([Top EXCEPT !.at = "pull", !.inner = 0])
                        \o <<Cleanup(<<Top.inner>>, {}, "cutoff", "resume", None)>>
                 ELSE Replaced(At(Top, "settle"))
  /\ UNCHANGED <<producing, opening, ending, errors, stops, releases>>

(* An item reaches the consumer: take 1 has enough. *)
Consumes ==
  /\ Stage("consume")
  /\ frames' = CASE Top.consumer = "collect" -> Replaced(At(Top, "pull"))
                 [] Top.consumer = "cut" -> Replaced(At(Top, "settle"))
                 [] OTHER -> Replaced(At(Top, "fold")) \o <<Body("fold", 0, Top.owner)>>
  /\ UNCHANGED <<producing, opening, ending, errors, stops, releases>>

Continued ==
  /\ Answers("fold")
  /\ frames' = Answered(At(Caller, "pull"))
  /\ UNCHANGED <<producing, opening, ending, errors, stops, releases>>

(* Control.Stop: the source is replaced by the empty one. *)
Stopped ==
  /\ Answers("fold")
  /\ frames' = Answered([Caller EXCEPT !.at = "settle", !.outer = 0, !.inner = 0])
  /\ UNCHANGED <<producing, opening, ending, errors, stops, releases>>

\* Mistaken variant: only what the consumer owned from the start.
HarvestedStatic(task) == AsMade(task.owned)

(* The consumer has its value: what the graph opened meanwhile joins what  *)
(* it owned from the start, and all of it is closed.                       *)
Harvested(task) == InOrder(Owned(task), Reached(task))

Settle ==
  /\ Stage("settle")
  /\ frames' = Replaced([Top EXCEPT !.at = "done", !.owned = {}])
                 \o <<Cleanup(Harvested(Top), {},
                             IF Top.consumer = "close" THEN "closed" ELSE "cutoff",
                             "resume", None)>>
  /\ UNCHANGED <<producing, opening, ending, errors, stops, releases>>

Done ==
  /\ Stage("done")
  /\ frames' = Below(frames)
  /\ UNCHANGED <<producing, opening, ending, errors, stops, releases>>

(***************************************************************************)
(* Cleanup.                                                                *)
(***************************************************************************)
Doing(do) == OnTop("cleanup") /\ Top.actions # <<>> /\ Head(Top.actions).do = do
On == Head(Top.actions).on
Then(actions) == [Top EXCEPT !.actions = actions \o Tail(@)]

\* Mistaken variant: a producer whose step failed is not released.
CloseReadyProducer ==
  /\ Doing("producer")
  /\ IF Active(On)
       THEN LET acquired == phase[On] = "ready"
                rest == <<Act("scope", On), Act("finish", On)>>
            IN  /\ phase' = [phase EXCEPT ![On] = "closing"]
                /\ frames' = IF acquired
                     THEN Replaced(Then(<<Act("second", On), Act("check", On)>> \o rest))
                            \o <<Body("release", On, On)>>
                     ELSE Replaced(Then(rest))
                /\ releases' = [releases EXCEPT ![On] = IF acquired THEN Append(@, items[On]) ELSE @]
       ELSE /\ frames' = Replaced(Then(<<>>))
            /\ UNCHANGED <<phase, releases>>
  /\ UNCHANGED <<parent, token, items, opening, ending, errors, stops>>

(* A producer begins to close once.  Its release callback runs if it was   *)
(* acquired, first applied to its latest state.                            *)
CloseProducer ==
  /\ Doing("producer")
  /\ IF Active(On)
       THEN LET acquired == phase[On] \in {"ready", "stepping"}
                rest == <<Act("scope", On), Act("finish", On)>>
            IN  /\ phase' = [phase EXCEPT ![On] = "closing"]
                /\ frames' = IF acquired
                     THEN Replaced(Then(<<Act("second", On), Act("check", On)>> \o rest))
                            \o <<Body("release", On, On)>>
                     ELSE Replaced(Then(rest))
                /\ releases' = [releases EXCEPT ![On] = IF acquired THEN Append(@, items[On]) ELSE @]
       ELSE /\ frames' = Replaced(Then(<<>>))
            /\ UNCHANGED <<phase, releases>>
  /\ UNCHANGED <<parent, token, items, opening, ending, errors, stops>>

(* A callback of cleanup returns to it. *)
Released ==
  /\ Answers("release") \/ Answers("reason")
  /\ frames' = Below(frames)
  /\ UNCHANGED <<producing, opening, ending, errors, stops, releases>>

(* The second application: the reason. *)
ApplyReason ==
  /\ Doing("second")
  /\ frames' = Replaced(Then(<<>>)) \o <<Body("reason", On, On)>>
  /\ releases' = [releases EXCEPT ![On] = Append(@, Top.reason)]
  /\ UNCHANGED <<producing, opening, ending, errors, stops>>

(* The callback must have returned Unit. *)
CheckUnit ==
  /\ Doing("check")
  /\ \/ /\ frames' = Replaced(Then(<<>>))
        /\ UNCHANGED <<producing, ending, errors>>
     \/ /\ Raises(Replaced(Then(<<>>)))
        /\ UNCHANGED <<phase, parent, items>>
  /\ UNCHANGED <<opening, stops, releases>>

(* What the scope still owns: child producers, then its resources. *)
CloseScope ==
  /\ Doing("scope")
  /\ LET children == AsMade({p \in Producer : Active(p) /\ parent[p] = On})
         keys == {i \in live : resources[i] = On}
     IN  frames' = Replaced(Then([i \in 1..Len(children) |-> Act("producer", children[i])]
                                 \o Closing(keys)))
  /\ UNCHANGED <<producing, opening, ending, errors, stops, releases>>

(* The host closes every key it is given, even if one of them reports an   *)
(* error.                                                                  *)
CloseKeys ==
  /\ Doing("close")
  /\ live' = live \ On
  /\ \/ /\ frames' = Replaced(Then(<<>>))
        /\ UNCHANGED <<producing, ending, errors>>
     \/ /\ Raises(Replaced(Then(<<>>)))
        /\ UNCHANGED <<phase, parent, items>>
  /\ UNCHANGED <<resources, stops, releases>>

(* Tokens of the scope become useless and the producer is closed. *)
Finish ==
  /\ Doing("finish")
  /\ token' = [p \in Producer |-> token[p] /\ parent[p] # On]
  /\ phase' = [phase EXCEPT ![On] = "closed"]
  /\ frames' = Replaced(Then(<<>>))
  /\ UNCHANGED <<parent, items, opening, ending, errors, stops, releases>>

(* Nothing is left to close: the frame below goes on, or fails with the    *)
(* error that cleanup has retained.                                        *)
CleanupEnds ==
  /\ OnTop("cleanup") /\ Top.actions = <<>>
  /\ \/ /\ Top.error.kind = "none"
        /\ frames' = Below(frames)
        /\ UNCHANGED <<ending, token>>
     \/ /\ Top.error.kind # "none"
        /\ Fail(Below(frames), Top.error)
  /\ UNCHANGED <<phase, parent, items, opening, errors, stops, releases>>

Finished == frames = <<>> /\ UNCHANGED vars

Coded ==
  \/ Produce \/ Open \/ Consume \/ Attempt \/ Raise \/ AttemptReturns
  \/ StatementEnds \/ Boundary \/ UnconsumedStream
Consumed ==
  \/ Pull \/ TaskRaises \/ Acquired \/ Yielded \/ Exhausted \/ Opened \/ Listed
  \/ SourceEnds \/ Consumes \/ Continued \/ Stopped \/ Settle \/ Done
Cleaned ==
  \/ CloseProducer \/ Released \/ ApplyReason \/ CheckUnit \/ CloseScope
  \/ CloseKeys \/ Finish \/ CleanupEnds
Stops == \E kind \in {"cancel", "exit"} : Stop(kind)

Next == Coded \/ Consumed \/ Cleaned \/ Stops \/ Finished

Spec == Init /\ [][Next]_vars

(***************************************************************************)
(* Fairness: the machine makes its own steps, and every callback returns.  *)
(***************************************************************************)
Machine ==
  \/ Boundary \/ Pull \/ SourceEnds \/ Consumes \/ Settle \/ Done
  \/ CloseProducer \/ ApplyReason \/ CheckUnit \/ CloseScope \/ CloseKeys \/ Finish
  \/ CleanupEnds

Returns ==
  \/ StatementEnds \/ Acquired \/ Yielded \/ Exhausted \/ Opened \/ Listed
  \/ Continued \/ Stopped \/ Released

FairSpec == Spec /\ WF_vars(Machine) /\ SF_vars(Returns) /\ SF_vars(AttemptReturns)

(***************************************************************************)
(* Properties.                                                             *)
(***************************************************************************)
Errors ==
  [kind : {"none", "op", "cancel", "exit", "ok"}, id : 0..MaxTroubles, notes : SUBSET (0..MaxTroubles)]
Reason == {"exhausted", "closed", "cutoff", "failed", "cancelled"}

FrameOK(f) ==
  CASE f.kind = "body" ->
         /\ f.job \in {"entry", "ended", "attempt", "acquire", "step", "release", "reason",
                      "transform", "fold"}
         /\ f.of \in Scope /\ f.owner \in Scope /\ f.made \in Scope
         /\ f.opened \in 0..MaxResources
    [] f.kind = "task" ->
         /\ f.consumer \in Consumers /\ f.owner \in Scope
         /\ {f.outer, f.inner, f.from} \subseteq Scope
         /\ f.graph \subseteq Producer
         /\ f.owned \subseteq f.graph
         /\ f.at \in {"pull", "acquire", "step", "transform", "exhausted", "consume", "fold",
                     "settle", "done"}
    [] OTHER ->
         /\ f.reason \in Reason /\ f.after \in {"resume", "boundary", "unwind"}
         /\ f.error \in Errors
         /\ \A i \in DOMAIN f.actions :
              LET a == f.actions[i]
              IN  /\ a.do \in {"producer", "second", "check", "scope", "close", "finish"}
                  /\ IF a.do = "close" THEN a.on \subseteq 1..MaxResources ELSE a.on \in Producer

(* Every variable has its type, and every frame its shape (vm.rs, stream/, *)
(* vm/cleanup.rs).                                                         *)
TypeOK ==
  /\ \A i \in DOMAIN frames : FrameOK(frames[i])
  /\ phase \in [Producer -> {"none", "new", "acquiring", "ready", "stepping", "closing", "closed"}]
  /\ parent \in [Producer -> Scope]
  /\ token \in [Producer -> BOOLEAN]
  /\ items \in [Producer -> NoState..MaxItems]
  /\ resources \in Seq(Scope) /\ Len(resources) <= MaxResources
  /\ live \subseteq 1..Len(resources)
  /\ aborting \in BOOLEAN
  /\ outcome \in Errors
  /\ errors \in 0..MaxTroubles
  /\ stops \in Seq({"cancel", "exit"})
  /\ caught \subseteq Errors

Ended == frames = <<>>

(* Release is applied at most once, to the latest state that a callback    *)
(* returned, and only after a successful acquisition; when the evaluation  *)
(* has ended every acquired producer has been released, with a reason      *)
(* unless the first application itself failed.                             *)
ReleasedLatest ==
  \A p \in Producer :
    /\ releases[p] # <<>> => /\ items[p] # NoState
                             /\ releases[p][1] = items[p]
                             /\ Len(releases[p]) <= 2
    /\ Ended /\ items[p] # NoState => Len(releases[p]) = 2 \/ (releases[p] # <<>> /\ errors > 0)

(* Whatever failed, was interrupted or was caught: an ended evaluation     *)
(* leaves no producer and no resource open, and a closed producer leaves   *)
(* nothing open in its scope ("always attempt remaining cleanup").         *)
AllClosed ==
  /\ Ended => live = {} /\ \A p \in Producer : ~Active(p) /\ phase[p] # "closing"
  /\ \A p \in Producer : phase[p] = "closed" =>
       /\ \A q \in Producer : Active(q) => parent[q] # p
       /\ \A i \in live : resources[i] # p

(* Both: no release is lost or repeated, and nothing stays open.           *)
ReleasedOnce == ReleasedLatest /\ AllClosed

(* A frame that an unwinding cleanup above it is about to discard. *)
Doomed(i) ==
  \E j \in i + 1..Len(frames) :
    /\ frames[j].kind = "cleanup" /\ frames[j].after = "unwind"
    /\ Checkpoint(SubSeq(frames, 1, j - 1), aborting) < i

(* A callback that may still run or return belongs to a producer that is   *)
(* in that callback: nobody closes a producer, or enters it again, behind  *)
(* the back of its own acquire or step.                                    *)
CallbackOwnsProducer ==
  \A i \in DOMAIN frames :
    frames[i].kind = "body" /\ frames[i].job \in {"acquire", "step"} /\ ~Doomed(i) =>
      phase[frames[i].of] = IF frames[i].job = "acquire" THEN "acquiring" ELSE "stepping"

(* A consumer other than fold_until that returns has waited until every    *)
(* producer of its graph is closed, those that flat_map opened included.   *)
ConsumerClosesGraph ==
  Stage("done") /\ Top.consumer # "until" => \A p \in Top.graph : phase[p] = "closed"

(* A resource of a producer's scope is closed only after its release       *)
(* callback is through ("invoke release once ..., then close remaining     *)
(* child resources"), except by an attempt of the producer's own code.     *)
Releasing(p) ==
  \E i \in DOMAIN frames : frames[i].kind = "body" /\ frames[i].of = p
                          /\ frames[i].job \in {"release", "reason"}
WithinScope(p) ==
  LET at == Checkpoint(Below(frames), FALSE)
  IN  at > 0 /\ IsAttempt(frames[at]) /\ frames[at].owner = p
ReleaseBeforeScope ==
  [][\A i \in live \ live' :
       LET p == resources[i]
       IN  p # 0 => (phase[p] = "closing" /\ ~Releasing(p)) \/ WithinScope(p)]_vars

(* The same of fold_until, whose Control.Stop "closes the upstream chain,  *)
(* waits for owned producers to finish cleanup, and returns the payload"   *)
(* (docs/execution.md).                                                    *)
StopClosesGraph ==
  Stage("done") /\ Top.consumer = "until" => \A p \in Top.graph : phase[p] = "closed"

Reports(e) == {e.id} \cup e.notes
Delivered == caught \cup (IF Ended THEN {outcome} ELSE {})

(* The first operational error of a delivered error is the primary one and *)
(* the later ones are its notes; no error raised by a callback or by the   *)
(* host is lost: an attempt returned it, or the outcome carries it.        *)
PrimaryFirst ==
  /\ \A e \in Delivered : e.kind = "op" => \A n \in e.notes \ {0} : n > e.id
  /\ Ended => 1..errors \subseteq UNION {Reports(e) : e \in Delivered}

(* Cancellation remains cancellation: no attempt catches it and no error   *)
(* of cleanup replaces it, wherever it arrives.  After an exit the         *)
(* evaluation does not complete either.                                    *)
CancellationKept ==
  Ended => /\ "cancel" \in Range(stops) => outcome.kind = "cancel"
           /\ stops # <<>> => outcome.kind # "ok"

(* After an interrupt the program's code runs only inside cleanup, where   *)
(* cleaning() protects it from the next interrupt.                         *)
AbortCleans ==
  aborting => \E i \in DOMAIN frames : frames[i].kind = "cleanup"

(* All three: how an evaluation ends, whatever it met and in which order.  *)
RightOutcome == PrimaryFirst /\ CancellationKept /\ AbortCleans

(* If callbacks return, an interrupted evaluation ends. *)
InterruptEnds == stops # <<>> ~> Ended

================================================================================
