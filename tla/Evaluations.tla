------------------------------ MODULE Evaluations ------------------------------
(***************************************************************************)
(* The evaluations of an interactive session: session.rs and               *)
(* session/continuation.rs in crates/rillsh, over the engine of            *)
(* rill-runtime (lib.rs).  An entry runs in a machine of its own; stopping *)
(* it parks the machine with everything it owns under a job id, and        *)
(* another evaluation's `fg` or `cancel` runs it again while its caller    *)
(* waits, parked too.                                                      *)
(*                                                                         *)
(* What one evaluation does is abstract: it requests services, owns        *)
(* resources, may have a release callback, and ends or raises.  Its        *)
(* resources are one bundle, named by the evaluation, stopped or not.      *)
(***************************************************************************)
EXTENDS Integers, Sequences, FiniteSets, SequencesExt

CONSTANTS
  MaxEntries,    \* entries typed at the prompt
  MaxControls,   \* requests to control a job
  MaxStops,      \* stop signals
  MaxTroubles    \* interrupts, and failures to freeze or to continue a group

ASSUME BoundsNatural ==
  /\ MaxEntries \in Nat /\ MaxControls \in Nat
  /\ MaxStops \in Nat /\ MaxTroubles \in Nat

Entries == 1..MaxEntries
Ids == 1..(MaxEntries + MaxControls)

VARIABLES
  \* the engine
  vm,         \* the machine of every entry
  current,    \* the evaluation of engine.current, 0 when it is idle
  value,      \* whose result an idle engine.current holds
  parked,     \* engine.suspended: job id to evaluation
  \* the session
  held,       \* sources, writers and operations of the running evaluation, its
              \* pending operation and its resumers
  suspended,  \* the same of the parked ones, by job id
  active,     \* active_evaluations
  ids,        \* the last job id given
  frozen,     \* evaluations whose resources are stopped
  open,       \* evaluations whose resources are not closed yet
  \* the coordinator
  stack,      \* the calls of evaluate, control_evaluation and shutdown
  at,         \* where the innermost one is
  outcome,    \* what the last drive or segment returned
  \* for the properties, and for the bounds
  callee,     \* the evaluation whose end a caller waits for
  used

engine == <<vm, current, value, parked, callee>>
session == <<held, suspended, active, ids>>
resources == <<frozen, open>>
coordinator == <<stack, at, outcome>>
vars == <<engine, session, resources, coordinator, used>>

Nothing == [owner |-> 0, pending |-> FALSE, resumers |-> <<>>]
Frame(kind, caller, id, cancel) ==
  [kind |-> kind, caller |-> caller, id |-> id, cancel |-> cancel,
   stopping |-> FALSE, failed |-> FALSE]

Top == Last(stack)
WithTop(frame) == Append(Front(stack), frame)

Store(f, id, x) == [i \in DOMAIN f \cup {id} |-> IF i = id THEN x ELSE f[i]]
Without(f, id) == Restrict(f, DOMAIN f \ {id})

Fresh == [phase |-> "new", ask |-> FALSE, reason |-> "none", release |-> FALSE]

Init ==
  /\ vm = [e \in Entries |-> Fresh]
  /\ current = 0 /\ value = 0
  /\ parked = <<>> /\ suspended = <<>>
  /\ held = Nothing /\ active = <<>> /\ ids = 0
  /\ frozen = {} /\ open = {}
  /\ stack = <<>> /\ at = "prompt" /\ outcome = "ok"
  /\ callee = [e \in Entries |-> 0]
  /\ used = [entries |-> 0, controls |-> 0, stops |-> 0, interrupts |-> 0, failures |-> 0]

Uses(what) == used' = [used EXCEPT ![what] = @ + 1]
TroubleLeft == used.interrupts + used.failures < MaxTroubles

-----------------------------------------------------------------------------
(* One machine.  It runs its "body" or, unwinding, the "cleanup" with the  *)
(* error it will end with: "noted" is a cancellation that carries another  *)
(* error, "aborted" an error that no attempt may catch any more.           *)

Over(m, reason) ==
  [phase |-> "over", ask |-> FALSE, reason |-> reason, release |-> FALSE]

\* The unwinding runs the release callback first.
Unwound(m, reason) ==
  IF m.release THEN [m EXCEPT !.phase = "cleanup", !.reason = reason, !.release = FALSE]
  ELSE Over(m, reason)

\* A cleanup has ended: what it interrupted goes on, or its error does.
AfterCleanup(m) ==
  CASE m.reason = "none"  -> {[m EXCEPT !.phase = "body"]}
    [] m.reason = "error" -> {Over(m, "error"), [m EXCEPT !.phase = "body", !.reason = "none"]}
    [] OTHER              -> {Over(m, m.reason)}

\* A further error becomes a note of the first.
Joined(reason, error) ==
  CASE reason = "none"      -> error
    [] reason = "cancelled" -> "noted"
    [] reason = "error"     -> IF error = "error" THEN "error" ELSE "aborted"
    [] OTHER                -> reason

\* An error is caught by an attempt, or unwinds the body or the callback.
Raised(m, error) ==
  IF m.phase = "body"
  THEN {Unwound(m, error)} \cup (IF error = "error" THEN {m} ELSE {})
  ELSE {m} \cup AfterCleanup([m EXCEPT !.reason = Joined(@, error)])

\* An interrupt cannot be caught.  In a cleanup it only changes the error: a call
\* that the callback is waiting for is still waited for.
Stopped(m) ==
  IF m.phase = "body" THEN Unwound([m EXCEPT !.ask = FALSE], "cancelled")
  ELSE [m EXCEPT !.reason = CASE @ \in {"error", "aborted"} -> "noted"
                              [] @ = "none" -> "cancelled"
                              [] OTHER -> @]

\* A service or a callee answers the machine's call.
Answered(m, result) ==
  LET asked == [m EXCEPT !.ask = FALSE]
  IN  IF result = "ok" THEN {asked} ELSE Raised(asked, result)

Gone == Over(Fresh, "none")

\* The machine of evaluation e goes on as m, at `next`, unless it is over.
Becomes(e, m, next) ==
  /\ vm' = [vm EXCEPT ![e] = IF m.phase = "over" THEN Gone ELSE m]
  /\ callee' = [callee EXCEPT ![e] = IF m.ask THEN @ ELSE 0]
  /\ IF m.phase = "over"
     THEN /\ current' = 0 /\ value' = e /\ at' = "end"
          /\ outcome' = CASE m.reason = "none" -> "ok"
                          [] m.reason = "aborted" -> "error"
                          [] OTHER -> m.reason
     ELSE /\ current' = e /\ value' = 0 /\ at' = next
          /\ UNCHANGED outcome

-----------------------------------------------------------------------------
(* The prompt.                                                             *)

\* An entry is evaluated; the engine refuses one while another is active.
Evaluate(release) ==
  LET e == used.entries + 1
  IN  /\ at = "prompt" /\ e \in Entries
      /\ Uses("entries")
      /\ IF current = 0
         THEN /\ vm' = [vm EXCEPT ![e] = [Fresh EXCEPT !.phase = "body", !.release = release]]
              /\ current' = e /\ value' = 0
              /\ held' = [held EXCEPT !.owner = e] /\ open' = open \cup {e}
              /\ stack' = <<Frame("entry", 0, 0, FALSE)>> /\ at' = "drive"
         ELSE /\ vm' = [vm EXCEPT ![e] = Gone]
              /\ UNCHANGED <<current, value, held, open, stack, at>>
      /\ UNCHANGED <<parked, callee, suspended, active, ids, frozen, outcome>>

-----------------------------------------------------------------------------
(* drive_current.                                                          *)

Driving == at = "drive" /\ current # 0 /\ ~held.pending
Runs == Driving /\ ~vm[current].ask

\* After a stopped callee the engine is idle, and the drive over.
Idle ==
  /\ at = "drive" /\ current = 0
  /\ at' = "end" /\ outcome' = "ok"
  /\ UNCHANGED <<engine, session, resources, stack, used>>

\* The operation that was pending when the evaluation was stopped goes on.
Continue ==
  /\ at = "drive" /\ current # 0 /\ held.pending
  /\ at' = "service"
  /\ held' = [held EXCEPT !.pending = FALSE]
  /\ UNCHANGED <<engine, suspended, active, ids, resources, stack, outcome, used>>

\* The program requests a service ...
Serve ==
  /\ Runs
  /\ vm' = [vm EXCEPT ![current].ask = TRUE]
  /\ at' = "service"
  /\ UNCHANGED <<current, value, parked, callee, session, resources, stack, outcome, used>>

\* ... and is answered.
Reply ==
  /\ at = "service"
  /\ \E result \in {"ok", "error"} :
       \E m \in Answered(vm[current], result) : Becomes(current, m, "drive")
  /\ UNCHANGED <<parked, session, resources, stack, used>>

\* The program ends, raises, or its callback returns.
Completes ==
  /\ Runs /\ vm[current].phase = "body"
  /\ Becomes(current, Unwound(vm[current], "none"), "drive")
  /\ UNCHANGED <<parked, session, resources, stack, used>>

Raises ==
  /\ Runs
  /\ \E m \in Raised(vm[current], "error") : Becomes(current, m, "drive")
  /\ UNCHANGED <<parked, session, resources, stack, used>>

CallbackReturns ==
  /\ Runs /\ vm[current].phase = "cleanup"
  /\ \E m \in AfterCleanup(vm[current]) : Becomes(current, m, "drive")
  /\ UNCHANGED <<parked, session, resources, stack, used>>

\* A machine that waits for an answer nobody will give is stepped for ever.
Spins ==
  /\ Driving /\ vm[current].ask
  /\ UNCHANGED vars

\* Signals are taken between steps and while a service waits, never in a cleanup.
Interruptible ==
  /\ Driving \/ at = "service"
  /\ ~Top.stopping /\ vm[current].phase = "body"

Interrupt ==
  /\ Interruptible /\ TroubleLeft /\ Uses("interrupts")
  /\ Becomes(current, Stopped(vm[current]), "drive")
  /\ stack' = WithTop([Top EXCEPT !.stopping = TRUE])
  /\ UNCHANGED <<parked, session, resources>>

-----------------------------------------------------------------------------
(* park.                                                                   *)

Stoppable == Interruptible /\ used.stops < MaxStops

\* Mistaken variant: the last id given is taken, not the next one.
ParkingLast == IF active = <<>> THEN ids ELSE Last(active)

\* The id an evaluation is parked under: the one it was started by, or a new one.
ParkingId == IF active = <<>> THEN ids + 1 ELSE Last(active)

\* Mistaken variant: the pending operation stays behind.
ParkForgetting ==
  /\ Stoppable /\ Uses("stops")
  /\ ids' = IF ParkingId > ids THEN ParkingId ELSE ids
  /\ frozen' = frozen \cup {held.owner}
  /\ parked' = Store(parked, ParkingId, current) /\ current' = 0 /\ value' = 0
  /\ suspended' = Store(suspended, ParkingId, held)
  /\ held' = Nothing
  /\ at' = "end" /\ outcome' = "ok"
  /\ UNCHANGED <<vm, callee, active, open, stack>>

\* A stop freezes what the evaluation owns and parks it with its operation.
Park ==
  /\ Stoppable /\ Uses("stops")
  /\ ids' = IF ParkingId > ids THEN ParkingId ELSE ids
  /\ frozen' = frozen \cup {held.owner}
  /\ parked' = Store(parked, ParkingId, current) /\ current' = 0 /\ value' = 0
  /\ suspended' = Store(suspended, ParkingId, [held EXCEPT !.pending = at = "service"])
  /\ held' = Nothing
  /\ at' = "end" /\ outcome' = "ok"
  /\ UNCHANGED <<vm, callee, active, open, stack>>

\* When it cannot be frozen the operation is cancelled and the evaluation fails;
\* the call that it was waiting in is not taken back.
ParkFails ==
  /\ Stoppable /\ TroubleLeft
  /\ used' = [used EXCEPT !.stops = @ + 1, !.failures = @ + 1]
  /\ frozen' \in {frozen, frozen \cup {held.owner}}
  /\ \E m \in Raised(vm[current], "error") : Becomes(current, m, "drive")
  /\ stack' = WithTop([Top EXCEPT !.stopping = FALSE])
  /\ UNCHANGED <<parked, session, open>>

-----------------------------------------------------------------------------
(* control_evaluation.                                                     *)

RetainedCaller(id) ==
  \/ id \in ToSet(active) \cup ToSet(held.resumers)
  \/ \E i \in DOMAIN suspended : id \in ToSet(suspended[i].resumers)

\* The evaluation that job id ends with: callers of a stopped one come after it.
WithCallers(S) == \A caller \in Entries : callee[caller] \in S => caller \in S
EndsWith(id) ==
  LET job == {e \in Entries :
                \A S \in SUBSET Entries : parked[id] \in S /\ WithCallers(S) => e \in S}
      lasts == {e \in job : \A caller \in Entries : callee[caller] # e}
  IN  CHOOSE e \in Entries : lasts # {} => e \in lasts

Accepted(id) == Runs /\ id \in DOMAIN suspended /\ ~RetainedCaller(id) /\ used.controls < MaxControls

\* wait and bg are refused, and so are unknown ids and the caller itself, whatever
\* the request: the program gets an error.
Refused ==
  /\ Runs
  /\ \E id \in 1..ids, operation \in {"fg", "cancel", "wait"} :
       id \notin DOMAIN suspended \/ RetainedCaller(id) \/ operation = "wait"
  /\ \E m \in Raised(vm[current], "error") : Becomes(current, m, "drive")
  /\ UNCHANGED <<parked, session, resources, stack, used>>

Controls(id, cancel) ==
  /\ Accepted(id) /\ Uses("controls")
  /\ ids' = IF ParkingId > ids THEN ParkingId ELSE ids
  /\ frozen' = frozen \cup {held.owner}
  /\ vm' = [vm EXCEPT ![current].ask = TRUE]
  /\ callee' = [callee EXCEPT ![current] = EndsWith(id)]
  /\ parked' = Without(Store(parked, ParkingId, current), id)
  /\ current' = parked[id] /\ value' = 0
  /\ suspended' = Without(Store(suspended, ParkingId, held), id)
  /\ held' = suspended[id]
  /\ active' = active \o <<ParkingId, id>>
  /\ stack' = Append(stack, Frame("control", ParkingId, id, cancel))
  /\ at' = "start"
  /\ UNCHANGED <<open, outcome>>

\* The caller cannot be frozen: the drive returns with its machine still active.
ControlFails(id) ==
  /\ Accepted(id) /\ TroubleLeft
  /\ used' = [used EXCEPT !.controls = @ + 1, !.failures = @ + 1]
  /\ ids' = IF ParkingId > ids THEN ParkingId ELSE ids
  /\ frozen' \in {frozen, frozen \cup {held.owner}}
  /\ vm' = [vm EXCEPT ![current].ask = TRUE]
  /\ at' = "end" /\ outcome' = "error"
  /\ UNCHANGED <<current, value, parked, callee, held, suspended, active, open, stack>>

-----------------------------------------------------------------------------
(* run_retained and run_segment.                                           *)

NewSegment == stack' = WithTop([Top EXCEPT !.stopping = FALSE])

\* A segment starts: cancelled, it is interrupted and stays stopped ...
StartCancelled ==
  /\ at = "start" /\ Top.cancel
  /\ held' = [held EXCEPT !.pending = FALSE]
  /\ Becomes(current, Stopped(vm[current]), "drive")
  /\ NewSegment
  /\ UNCHANGED <<parked, suspended, active, ids, resources, used>>

\* Mistaken variant: what the evaluation owns is left stopped.
StartStopped ==
  /\ at = "start" /\ ~Top.cancel
  /\ at' = "drive"
  /\ NewSegment
  /\ UNCHANGED <<engine, session, resources, outcome, used>>

\* ... else what it owns is continued, ...
StartResumed ==
  /\ at = "start" /\ ~Top.cancel
  /\ frozen' = frozen \ {held.owner}
  /\ at' = "drive"
  /\ NewSegment
  /\ UNCHANGED <<engine, session, open, outcome, used>>

\* ... or, when that fails, its operation is cancelled and the evaluation fails.
StartFails ==
  /\ at = "start" /\ ~Top.cancel
  /\ TroubleLeft /\ Uses("failures")
  /\ frozen' \in {frozen, frozen \ {held.owner}}
  /\ held' = [held EXCEPT !.pending = FALSE]
  /\ \E m \in Raised(vm[current], "error") : Becomes(current, m, "drive")
  /\ NewSegment
  /\ UNCHANGED <<parked, suspended, active, ids, open>>

\* "Explicit cancel ends the target, not its caller."
SegmentResult ==
  CASE Top.cancel /\ outcome = "cancelled" -> "ok"
    [] Top.cancel /\ outcome = "noted" -> "error"
    [] OTHER -> outcome

\* The drive has returned: finish_resources closes what the evaluation owns.
Finish ==
  /\ at = "end"
  /\ open' = open \ {held.owner} /\ frozen' = frozen \ {held.owner}
  /\ held' = [held EXCEPT !.owner = 0]
  /\ IF Top.kind = "entry"
     THEN stack' = <<>> /\ at' = "prompt" /\ outcome' = "ok" /\ value' = 0
     ELSE /\ stack' = WithTop([Top EXCEPT !.failed = @ \/ (Top.cancel /\ SegmentResult # "ok")])
          /\ at' = "retained"
          /\ outcome' = IF Top.cancel THEN "ok" ELSE SegmentResult
          /\ UNCHANGED value
  /\ UNCHANGED <<vm, current, parked, callee, suspended, active, ids, used>>

\* Mistaken variant: the engine keeps the caller among the parked ones.
ReturnToKeeping(id, result, next) ==
  IF current # 0
  THEN /\ at' = "end" /\ outcome' = "error"
       /\ UNCHANGED engine
  ELSE /\ parked' = parked
       /\ \E m \in Answered(vm[parked[id]], result) : Becomes(parked[id], m, next)

\* Engine::return_to: the caller's machine gets the result, if none is active.
ReturnTo(id, result, next) ==
  IF current # 0
  THEN /\ at' = "end" /\ outcome' = "error"
       /\ UNCHANGED engine
  ELSE /\ parked' = Without(parked, id)
       /\ \E m \in Answered(vm[parked[id]], result) : Becomes(parked[id], m, next)

\* The continuation of a parent is taken, behind the resumers that are left.
Inherit(parent) ==
  [parent EXCEPT !.resumers = Front(held.resumers) \o @]

\* The next caller of the chain is answered, or cancelled as well.
Resumer ==
  LET id == Last(held.resumers)
  IN  /\ at = "retained" /\ held.resumers # <<>> /\ id \in DOMAIN suspended
      /\ held' = Inherit(suspended[id])
      /\ suspended' = Without(suspended, id)
      /\ IF ~Top.cancel THEN ReturnTo(id, outcome, "start")
         ELSE IF current # 0
         THEN at' = "end" /\ outcome' = "error" /\ UNCHANGED engine
         ELSE /\ parked' = Without(parked, id) /\ current' = parked[id] /\ value' = 0
              /\ at' = "start"
              /\ UNCHANGED <<vm, callee, outcome>>
      /\ UNCHANGED <<active, ids, resources, stack, used>>

ChainOver == at = "retained" /\ held.resumers = <<>>
ChainResult == IF Top.failed THEN "error" ELSE outcome

Leave == active' = Front(Front(active)) /\ stack' = Front(stack)

\* Mistaken variant: the caller is put in front of those that wait already.
StoppedAgainInFront ==
  /\ ChainOver /\ Top.kind = "control" /\ Top.id \in DOMAIN suspended
  /\ Leave
  /\ suspended' = [suspended EXCEPT ![Top.id].resumers = Append(@, Top.caller)]
  /\ at' = "drive"
  /\ UNCHANGED <<engine, held, ids, resources, outcome, used>>

\* A second stop retains the caller too, to be resumed after the others.
StoppedAgain ==
  /\ ChainOver /\ Top.kind = "control" /\ Top.id \in DOMAIN suspended
  /\ Leave
  /\ suspended' = [suspended EXCEPT ![Top.id].resumers = <<Top.caller>> \o @]
  /\ at' = "drive"
  /\ UNCHANGED <<engine, held, ids, resources, outcome, used>>

\* The caller takes its own continuation back and is answered.
CalleeReturned ==
  /\ ChainOver /\ Top.kind = "control" /\ Top.id \notin DOMAIN suspended
  /\ Top.caller \in DOMAIN suspended
  /\ Leave
  /\ held' = suspended[Top.caller] /\ suspended' = Without(suspended, Top.caller)
  /\ \/ /\ frozen' = frozen \ {held'.owner}
        /\ ReturnTo(Top.caller, ChainResult, "drive")
        /\ UNCHANGED used
     \/ /\ TroubleLeft /\ Uses("failures")
        /\ frozen' \in {frozen, frozen \ {held'.owner}}
        /\ ReturnTo(Top.caller, IF ChainResult = "ok" THEN "error" ELSE Joined(ChainResult, "error"),
                    "drive")
  /\ UNCHANGED <<ids, open>>

-----------------------------------------------------------------------------
(* shutdown_evaluations.                                                   *)

\* Mistaken variant: a job somebody waits for is left to its callers.
ControllableAlone == {id \in DOMAIN suspended : ~RetainedCaller(id) /\ suspended[id].resumers = <<>>}

Controllable == {id \in DOMAIN suspended : ~RetainedCaller(id)}

BeginShutdown ==
  /\ at = "prompt"
  /\ at' = "shutdown"
  /\ UNCHANGED <<engine, session, resources, stack, outcome, used>>

\* The parked evaluations are cancelled one by one, their callers with them.
ShutdownNext ==
  /\ at = "shutdown" /\ current = 0
  /\ \E id \in Controllable :
       /\ \A other \in Controllable : id <= other
       /\ parked' = Without(parked, id) /\ current' = parked[id] /\ value' = 0
       /\ suspended' = Without(suspended, id) /\ held' = suspended[id]
       /\ stack' = <<Frame("shutdown", 0, id, TRUE)>>
  /\ at' = "start"
  /\ UNCHANGED <<vm, callee, active, ids, resources, outcome, used>>

ShutdownReturns ==
  /\ ChainOver /\ Top.kind = "shutdown"
  /\ stack' = <<>> /\ at' = "shutdown" /\ outcome' = "ok"
  /\ UNCHANGED <<engine, session, resources, used>>

\* Nothing is left, or an active machine refuses to be replaced.
ShutdownEnds ==
  /\ at = "shutdown" /\ (Controllable = {} \/ current # 0)
  /\ at' = "ended"
  /\ UNCHANGED <<engine, session, resources, stack, outcome, used>>

Ended == at = "ended" /\ UNCHANGED vars

-----------------------------------------------------------------------------

Segments ==
  \/ StartCancelled \/ StartResumed \/ Finish \/ Resumer \/ StoppedAgain \/ CalleeReturned
  \/ ShutdownNext \/ ShutdownReturns \/ ShutdownEnds

Program ==
  \/ Serve \/ Raises \/ Refused
  \/ \E id \in Ids : (\E cancel \in BOOLEAN : Controls(id, cancel)) \/ ControlFails(id)

Next ==
  \/ \E release \in BOOLEAN : Evaluate(release)
  \/ Idle \/ Continue \/ Reply \/ Completes \/ CallbackReturns \/ Spins
  \/ Program \/ Interrupt \/ Park \/ ParkFails \/ StartFails
  \/ Segments \/ BeginShutdown \/ Ended

Spec == Init /\ [][Next]_vars

\* The coordinator runs, services answer, and programs and callbacks that are
\* stepped again and again come to their end.
Fairness ==
  /\ WF_vars(Idle \/ Continue \/ Segments) /\ WF_vars(Reply)
  /\ SF_vars(Completes) /\ SF_vars(CallbackReturns)

FairSpec == Spec /\ Fairness

-----------------------------------------------------------------------------
(* Properties.                                                             *)

Records ==
  [owner : 0..MaxEntries, pending : BOOLEAN, resumers : Seq(Ids)]

\* Every variable has its type.
TypeOK ==
  /\ vm \in [Entries -> [phase : {"new", "body", "cleanup", "over"}, ask : BOOLEAN,
                         reason : {"none", "error", "aborted", "cancelled", "noted"},
                         release : BOOLEAN]]
  /\ current \in 0..MaxEntries /\ value \in 0..MaxEntries
  /\ DOMAIN parked \subseteq Ids /\ ToSet(parked) \subseteq Entries
  /\ DOMAIN suspended \subseteq Ids
  /\ held \in Records /\ \A id \in DOMAIN suspended : suspended[id] \in Records
  /\ active \in Seq(Ids) /\ ids \in 0..(MaxEntries + MaxControls)
  /\ frozen \subseteq Entries /\ open \subseteq Entries
  /\ \A i \in DOMAIN stack : stack[i].kind \in {"entry", "control", "shutdown"}
  /\ at \in {"prompt", "drive", "service", "start", "end", "retained", "shutdown", "ended"}
  /\ outcome \in {"ok", "error", "cancelled", "noted"}
  /\ callee \in [Entries -> 0..MaxEntries]

Live(e) == vm[e].phase \in {"body", "cleanup"}
Sound == used.failures = 0

\* An evaluation that has begun is the engine's current one or parked under one
\* id, until it is over; the session keeps for each id what that evaluation owns
\* ("parked VM owns its host continuation", continuation.rs).
HomeKept ==
  Sound =>
    /\ \A e \in Entries : Live(e) =>
         (e = current) # (\E id \in DOMAIN parked : parked[id] = e)
    /\ IsInjective(parked)
    /\ DOMAIN parked = DOMAIN suspended
    /\ \A id \in DOMAIN suspended : suspended[id].owner = parked[id]

\* Language code runs on its own resources, continued unless it is being
\* cancelled; at the prompt nothing runs and whatever is still owned is stopped
\* ("freezes scope-owned process groups ... before returning to the prompt").
ResourcesKept ==
  Sound =>
    /\ at \in {"drive", "service"} /\ current # 0 =>
         held.owner = current /\ (current \in frozen => Top.cancel)
    /\ at = "prompt" => held = Nothing /\ current = 0 /\ active = <<>> /\ open \subseteq frozen

\* Both: one home for the machine, and language code on its own resources.
OneHome == HomeKept /\ ResourcesKept

\* The chain of resumers of the running evaluation, 0, or of a stopped one.
Resumers(job) == IF job = 0 THEN held.resumers ELSE suspended[job].resumers

\* Where somebody will answer the evaluation parked under id: the places in the
\* chains that have it, and the open calls it has made.
Chained(job, id) == {<<job, i>> : i \in {k \in DOMAIN Resumers(job) : Resumers(job)[k] = id}}
Called(id) == {i \in DOMAIN stack : stack[i].kind = "control" /\ stack[i].caller = id}
Answers(id) ==
  (UNION {Chained(job, id) : job \in DOMAIN suspended \cup {0}}) \cup {<<-1, i>> : i \in Called(id)}

\* A parked caller will be answered by exactly one party and nobody else is; no
\* caller waits for itself; and the running machine never waits for an answer that
\* nobody gives, unless it was cancelled in a release callback that had called
\* another evaluation (see ShutdownCompletes).
EveryCallIsAnswered ==
  Sound =>
    /\ \A id \in DOMAIN suspended :
         Cardinality(Answers(id)) = IF vm[parked[id]].ask /\ ~suspended[id].pending THEN 1 ELSE 0
    /\ \A chain \in SUBSET DOMAIN suspended : chain # {} =>
         \E id \in chain : \A i \in chain : id \notin ToSet(suspended[i].resumers)
    /\ Driving /\ vm[current].ask => Top.cancel /\ vm[current].phase = "cleanup"

\* A caller is answered when the last evaluation of the job it called is over, and
\* with its result; only a caller cancelled with its callee gets none ("Resumption
\* must continue its expression exactly once", continuation.rs).
AnsweredByCallee ==
  [][\A e \in Entries : callee[e] # 0 /\ callee'[e] = 0 =>
       \/ value = callee[e] /\ vm[value].phase = "over"
       \/ at = "start" /\ Top.cancel]_vars

\* Shutdown ends only when every evaluation has ended, its callers with it, and all
\* they owned is closed.
ShutdownLeavesNothing ==
  at = "ended" /\ Sound => open = {} /\ \A e \in Entries : ~Live(e)

\* What the code says of it: "Shutdown runs each retained release continuation to
\* completion" (continuation.rs).
ShutdownCompletes == at = "shutdown" ~> at = "ended"
================================================================================
