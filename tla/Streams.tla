------------------------------ MODULE Streams ------------------------------
(***************************************************************************)
(* The pull machine of a stream (rill-runtime/src/stream/): a consumer     *)
(* collects, up to a cutoff, what a merge gives it.  A branch of a merge   *)
(* is another merge, the lines of a source of bytes, the lines of what a   *)
(* callback reads from one, or the feed of a process: the merge `through`  *)
(* makes of a process's output and of the stream that is its input.        *)
(*                                                                         *)
(* The engine is one thread.  It pulls down the graph (focus), a branch    *)
(* gives a step back up (step), and a step that needs the host becomes the *)
(* request; the reply travels down again, each merge routing it to the     *)
(* branch that asked.                                                      *)
(***************************************************************************)
EXTENDS Lines, Sources

CONSTANTS
  Root,              \* the outermost merge
  Graphs,            \* the graphs: the inputs of each merge, the kind of each leaf,
                     \* what each key names, the merges that stop with their first
                     \* input, whether the process may exit early, and what the
                     \* descriptors may give
  Takes,             \* the cutoffs of the consumer
  Quantum,           \* the actions of one advance of a task: 64 in the code
  SliceSize          \* the bytes of one chunk to the process: IO_CHUNK_BYTES

ASSUME StreamsAssumption == Quantum \in Nat \ {0} /\ SliceSize \in Nat \ {0}

VARIABLES
  graph,             \* the graph
  data,              \* what its descriptors give
  take,              \* the items the consumer still takes
  merge,             \* each merge: cursor, remaining, reply, pending, ended
  task,              \* the task of each branch: phase and reply
  buffer,            \* the decoder of a leaf; a feed's chunk and end
  callback,          \* the callback of a leaf: state and value
  focus,             \* the branches being advanced, from the root down, and their fuel
  step,              \* what the last of them gives back
  collected,         \* what the consumer has
  closing,           \* how the evaluation is ending
  outcome            \* how it has ended

engineVars == <<graph, data, take, merge, task, buffer, callback, focus, step,
                collected, closing, outcome>>
vars == <<engineVars, sourceVars>>

Merges == DOMAIN graph.inputs
Leaves == DOMAIN graph.kind
Inputs(m) == graph.inputs[m]
Width(m) == Len(Inputs(m))
AfterUnwrapped(m, index) == index + 1
AfterStaying(m, index) == index
After(m, index) == (index % Width(m)) + 1
Top == Last(focus).node
Fuel == Last(focus).fuel
Running == request = None /\ closing = None /\ outcome = None

Pulling == [phase |-> "pull", reply |-> None]
NoCallback == [state |-> "none", value |-> None]
Done(item) == [step |-> "done", item |-> item]
Ask(asked) == [step |-> "request", request |-> asked]
Yield == [step |-> "yield"]
Call == [step |-> "call"]

(* The graph is left: its callbacks go, and all its sources are closed. *)
Leave(fault) ==
  /\ closing' = [fault |-> fault, leaf |-> Top]
  /\ request' = [op |-> "close", keys |-> DOMAIN resource]
  /\ UNCHANGED <<graph, data, take, task, focus, step, collected, outcome>>
  /\ reply' = None
  /\ UNCHANGED <<resource, freezes>> /\ UNCHANGED osVars

(* The engine moves, and asks nothing of the host. *)
Internal == UNCHANGED <<graph, data, closing, outcome, sourceVars>>

-----------------------------------------------------------------------------
(* The task of a leaf.                                                     *)

(* A task gives its step to the merge that advances it. *)
Gives(given) == step' = given /\ focus' = Front(focus)

(* A task goes on, or waits for the reply to what it gives. *)
Goes(phase) ==
  /\ task' = [task EXCEPT ![Top] = [phase |-> phase, reply |-> None]]
  /\ focus' = IF Top = Root THEN focus ELSE [focus EXCEPT ![Len(focus)].fuel = @ - 1]
  /\ step' = None
Stays(phase) ==
  /\ task' = [task EXCEPT ![Top] = [phase |-> phase, reply |-> None]]
  /\ step' = None /\ UNCHANGED focus
Asks(given, phase) ==
  /\ task' = [task EXCEPT ![Top] = [phase |-> phase, reply |-> None]]
  /\ Gives(given)

At(phase) == Running /\ step = None /\ task[Top].phase = phase /\ Fuel > 0

(* Task::advance stops after its quantum. *)
OutOfFuel ==
  /\ Running /\ step = None /\ Fuel = 0 /\ task[Top].phase # "advance"
  /\ Gives(Yield)
  /\ UNCHANGED <<take, merge, task, buffer, callback, collected>> /\ Internal

(* Pull(External): the next chunk of the source. *)
PullBytes ==
  /\ At("pull") /\ Top \in Leaves /\ graph.kind[Top] = "bytes"
  /\ Asks(Ask(Read(<<Top>>, TRUE)), "external")
  /\ UNCHANGED <<take, merge, buffer, callback, collected>> /\ Internal

(* External: the chunk, or the end of the source. *)
External ==
  /\ At("external")
  /\ LET got == task[Top].reply IN
     IF got.kind = "failed" THEN Leave("IOError")
     ELSE /\ Asks(Done(IF got.value = <<>> THEN <<>>
                       ELSE <<[leaf |-> Top, record |-> got.value]>>), "pull")
          /\ UNCHANGED <<take, collected>> /\ Internal
  /\ UNCHANGED <<merge, buffer, callback>>

(* Pull(Lines): a record, the end, another piece, or the next chunk. *)
PullLines ==
  /\ At("pull") /\ Top \in Leaves /\ graph.kind[Top] \in {"lines", "callback"}
  /\ LET polled == Poll(buffer[Top]) IN
     IF polled.poll \in {"LimitExceeded", "DecodeError"} THEN Leave(polled.poll) /\ UNCHANGED <<merge, buffer, callback>>
     ELSE /\ buffer' = [buffer EXCEPT ![Top] = polled.buffer]
          /\ CASE polled.poll = "Item" ->
                    Asks(Done(<<[leaf |-> Top, record |-> polled.record]>>), "pull")
               [] polled.poll = "End" -> Asks(Done(<<>>), "pull")
               [] polled.poll = "Continue" -> Goes("pull")
               [] polled.poll = "NeedInput" ->
                    Asks(IF graph.kind[Top] = "callback" THEN Call
                         ELSE Ask(Read(<<Top>>, TRUE)), "lined")
          /\ UNCHANGED <<take, merge, callback, collected>> /\ Internal

(* External, or Unfolded, and Lined: the chunk, or the end of the input. *)
Lined ==
  /\ At("lined")
  /\ LET got == task[Top].reply IN
     IF got.kind = "failed" THEN Leave("IOError") /\ UNCHANGED <<merge, buffer, callback>>
     ELSE /\ buffer' = [buffer EXCEPT
                ![Top] = IF got.value = <<>> THEN [@ EXCEPT !.ended = TRUE]
                                             ELSE [@ EXCEPT !.chunk = <<got.value>>]]
          /\ Goes("pull")
          /\ UNCHANGED <<take, merge, callback, collected>> /\ Internal

(* Pull(Feed): the end, the next slice of its chunk, or its input. *)
PullFeed ==
  /\ At("pull") /\ Top \in Leaves /\ graph.kind[Top] = "feed"
  /\ LET chunk == buffer[Top].chunk IN
     IF buffer[Top].ended THEN Asks(Done(<<>>), "pull") /\ UNCHANGED buffer
     ELSE IF chunk # <<>>
     THEN /\ Asks(Ask([op |-> "send", bytes |-> SubSeq(chunk[1], 1, SliceSize)]), "queued")
          /\ buffer' = [buffer EXCEPT
                ![Top].chunk = <<SubSeq(chunk[1], SliceSize + 1, Len(chunk[1]))>>]
     ELSE Asks(Ask(Read(<<Top>>, TRUE)), "received") /\ UNCHANGED buffer
  /\ UNCHANGED <<take, merge, callback, collected>> /\ Internal

(* FeedInput: the chunk is kept; the end of the input is the process's. *)
FeedInput ==
  /\ At("received")
  /\ LET got == task[Top].reply IN
     IF got.kind = "failed" THEN Leave("IOError") /\ UNCHANGED <<merge, buffer, callback>>
     ELSE /\ IF got.value = <<>>
             THEN /\ Asks(Ask([op |-> "send", bytes |-> <<>>]), "discard")
                  /\ buffer' = [buffer EXCEPT ![Top].ended = TRUE]
             ELSE /\ Goes("pull")
                  /\ buffer' = [buffer EXCEPT ![Top].chunk = <<got.value>>]
          /\ UNCHANGED <<take, merge, callback, collected>> /\ Internal

FeedQueuedBlindly ==
  /\ At("queued")
  /\ buffer' = [buffer EXCEPT ![Top].chunk = IF @ = <<<<>>>> THEN <<>> ELSE @]
  /\ Goes("pull")
  /\ UNCHANGED <<take, merge, callback, collected>> /\ Internal

(* FeedQueued: the slice is queued, its acknowledgment is waited for. *)
FeedQueued ==
  /\ At("queued")
  /\ Asks(Ask(Read(<<Sink>>, TRUE)), "written")
  /\ UNCHANGED <<take, merge, buffer, callback, collected>> /\ Internal

(* FeedWritten: the chunk ends with its last slice; a process that reads   *)
(* no more ends the feed, whose input is closed with its sink.             *)
FeedWritten ==
  /\ At("written")
  /\ IF task[Top].reply.kind = "open"
     THEN /\ buffer' = [buffer EXCEPT ![Top].chunk = IF @ = <<<<>>>> THEN <<>> ELSE @]
          /\ Goes("pull")
     ELSE /\ buffer' = [buffer EXCEPT ![Top].chunk = <<>>, ![Top].ended = TRUE]
          /\ Asks(Ask([op |-> "close", keys |-> {Top, Sink}]), "discard")
  /\ UNCHANGED <<take, merge, callback, collected>> /\ Internal

(* Discard: the reply to a send or a close says nothing, its failure does. *)
Discard ==
  /\ At("discard")
  /\ IF task[Top].reply.kind = "failed" THEN Leave("IOError")
     ELSE Goes("pull") /\ UNCHANGED <<take, collected>> /\ Internal
  /\ UNCHANGED <<merge, buffer, callback>>

-----------------------------------------------------------------------------
(* The task of a merge: it advances the merge, and gives on what that gives. *)

AtMerge(phase) == Running /\ Top \in Merges /\ task[Top].phase = phase

(* The consumer of the root: an item is collected, the end closes the graph. *)
Consume(item) ==
  IF item = <<>> THEN Leave("none")
  ELSE /\ collected' = Append(collected, item[1])
       /\ take' = take - 1
       /\ Stays("pull")
       /\ Internal

(* Pull(Merge) with what Merge::advance returned. *)
Returns(given) ==
  CASE given.step = "yield" ->
         Stays("pull") /\ UNCHANGED <<take, collected>> /\ Internal
    [] given.step = "done" /\ Top # Root ->
         Asks(given, "pull") /\ UNCHANGED <<take, collected>> /\ Internal
    [] given.step = "done" /\ Top = Root ->
         Consume(given.item)
    [] given.step = "request" /\ Top # Root ->
         Asks(given, "merged") /\ UNCHANGED <<take, collected>> /\ Internal
    [] given.step = "request" /\ Top = Root ->
         /\ request' = given.request
         /\ task' = [task EXCEPT ![Root].phase = "merged"]
         /\ step' = None
         /\ UNCHANGED <<focus, take, collected, graph, data, closing, outcome>>
         /\ UNCHANGED <<resource, reply, freezes>> /\ UNCHANGED osVars

PullMerge ==
  /\ AtMerge("pull") /\ step = None /\ Fuel > 0
  /\ IF Top = Root /\ take = 0 THEN Leave("none")
     ELSE Goes("advance") /\ UNCHANGED <<take, collected>> /\ Internal
  /\ UNCHANGED <<merge, buffer, callback>>

(* A reply reaches a branch: the callback it runs, or its task. *)
Deliver(child, got) ==
  IF child \in Leaves /\ callback[child].state # "none"
  THEN /\ callback' = [callback EXCEPT
             ![child] = IF got.kind = "failed" THEN [state |-> "failed", value |-> None]
                        ELSE [state |-> "got", value |-> got.value]]
       /\ task' = [task EXCEPT ![Top] = Pulling]
  ELSE /\ task' = [task EXCEPT ![Top] = Pulling, ![child].reply = got]
       /\ UNCHANGED callback

(* Merge::resume, resume_error: a reply goes to the branch that asked. *)
Routed ==
  /\ LET m     == Top
         M     == merge[m]
         got   == IF m = Root THEN reply ELSE task[m].reply
         route == IF M.reply.route = "ready" THEN M.reply.routes[got.index]
                  ELSE <<M.reply.branch, got.index>>
         branch == route[1]
         child  == Inputs(m)[branch]
         clear  == [M EXCEPT !.reply = None, !.pending[branch] = <<>>, !.cursor = branch]
         settled ==
           IF got.kind = "failed" \/ M.reply.route = "ready"
           THEN [clear EXCEPT !.remaining = Width(m)]
           ELSE CASE M.reply.route = "callback" ->
                       [M EXCEPT !.reply = None, !.cursor = After(m, branch)]
                  [] M.reply.route = "forward" ->
                       [M EXCEPT !.reply = None, !.remaining = @ + 1]
                  [] M.reply.route = "probe" /\ got.kind = "pending" ->
                       [M EXCEPT !.reply = None, !.pending[branch] = M.reply.keys,
                                 !.cursor = After(m, branch)]
                  [] OTHER -> [clear EXCEPT !.remaining = @ + 1]
     IN  /\ merge' = [merge EXCEPT ![m] = settled]
         /\ IF \/ M.reply.route = "callback"
               \/ M.reply.route = "probe" /\ got.kind = "pending"
            THEN task' = [task EXCEPT ![m] = Pulling] /\ UNCHANGED callback
            ELSE Deliver(child, [got EXCEPT !.index = route[2]])
         /\ IF m = Root THEN reply' = None /\ UNCHANGED focus
            ELSE focus' = [focus EXCEPT ![Len(focus)].fuel = @ - 1] /\ UNCHANGED reply
  /\ UNCHANGED <<graph, data, take, buffer, step, collected, closing, outcome>>
  /\ UNCHANGED <<resource, request, freezes>> /\ UNCHANGED osVars

(* Action::Merged.  The root's reply comes from the host; one that refuses *)
(* the request fails the evaluation.                                       *)
Merged ==
  /\ AtMerge("merged") /\ step = None /\ Fuel > 0
  /\ Top = Root => reply # None
  /\ IF Top = Root /\ reply.kind = "misused"
     THEN Leave("misused") /\ UNCHANGED <<merge, buffer, callback>>
     ELSE Routed

-----------------------------------------------------------------------------
(* Merge::advance.                                                         *)

Cursor == merge[Top].cursor
Branch == Inputs(Top)[Cursor]

(* The merge as it stands when the turn of the branch at its cursor is taken. *)
Spent(m) == [merge[m] EXCEPT !.remaining = @ - 1]
Probing(m, M, keys) ==
  [M EXCEPT !.reply = [route |-> "probe", branch |-> M.cursor, keys |-> keys]]
Calling(m, M) == [M EXCEPT !.reply = [route |-> "callback", branch |-> M.cursor]]

(* A branch that has ended, one whose callback or whose read is under way, *)
(* and one whose task goes on.                                             *)
TakeTurn ==
  /\ AtMerge("advance") /\ step = None
  /\ merge[Top].remaining > 0
  /\ LET m == Top
         M == Spent(m)
         c == IF Branch \in Leaves THEN callback[Branch] ELSE NoCallback
         keys == IF c.state = "wait" THEN <<Branch>> ELSE M.pending[Cursor]
         asked == Ask(Read(keys, FALSE))
         invoked == Ask([op |-> "callback", leaf |-> Branch])
     IN  IF M.ended[Cursor]
         THEN /\ merge' = [merge EXCEPT ![m] = [M EXCEPT !.cursor = After(m, @)]]
              /\ UNCHANGED <<take, task, callback, focus, step, collected>> /\ Internal
         ELSE IF c.state = "failed"
         THEN Leave("IOError") /\ UNCHANGED <<merge, callback>>
         ELSE IF c.state \in {"new", "got"}
         THEN /\ merge' = [merge EXCEPT
                    ![m] = Calling(m, [M EXCEPT !.pending[Cursor] = <<>>])]
              /\ Returns(invoked)
              /\ UNCHANGED callback
         ELSE IF keys # <<>> /\ c.state # "value"
         THEN /\ merge' = [merge EXCEPT
                    ![m] = Probing(m, [M EXCEPT !.pending[Cursor] = keys], keys)]
              /\ Returns(asked)
              /\ UNCHANGED callback
         ELSE /\ merge' = [merge EXCEPT ![m] = [M EXCEPT !.pending[Cursor] = <<>>]]
              /\ focus' = Append(focus, [node |-> Branch, fuel |-> Quantum])
              /\ IF c.state = "value"
                 THEN /\ task' = [task EXCEPT ![Branch].reply = Reply("item", 0, c.value)]
                      /\ callback' = [callback EXCEPT ![Branch] = NoCallback]
                 ELSE UNCHANGED <<task, callback>>
              /\ UNCHANGED <<take, step, collected>> /\ Internal
  /\ UNCHANGED buffer

(* What the branch gives is given on as an item, a probe or a request. *)
Receive ==
  /\ AtMerge("advance") /\ step # None
  /\ LET m == Top
         M == merge[m]
         next == After(m, M.cursor)
         over == step.step = "done" /\ step.item = <<>>
         cut  == over /\ m \in graph.stop /\ M.cursor = 1
     IN  CASE over ->
                /\ merge' = [merge EXCEPT
                      ![m] = [M EXCEPT !.ended[M.cursor] = TRUE,
                                       !.cursor = IF cut THEN @ ELSE next]]
                /\ IF cut THEN Returns(step)
                   ELSE Stays("advance") /\ UNCHANGED <<take, collected>> /\ Internal
                /\ UNCHANGED callback
           [] step.step = "done" /\ ~over ->
                /\ merge' = [merge EXCEPT
                      ![m] = [M EXCEPT !.cursor = next, !.remaining = Width(m)]]
                /\ Returns(step)
                /\ UNCHANGED callback
           [] step.step = "call" ->
                /\ merge' = [merge EXCEPT ![m] = Calling(m, M)]
                /\ callback' = [callback EXCEPT
                      ![Branch] = [state |-> "new", value |-> None]]
                /\ Returns(Ask([op |-> "callback", leaf |-> Branch]))
           [] step.step = "yield" ->
                /\ merge' = [merge EXCEPT ![m].cursor = next]
                /\ Returns(step)
                /\ UNCHANGED callback
           [] step.step = "request" ->
                /\ IF step.request.op = "read" /\ step.request.wait
                   THEN /\ merge' = [merge EXCEPT
                              ![m] = Probing(m, M, step.request.keys)]
                        /\ Returns(Ask(Read(step.request.keys, FALSE)))
                   ELSE /\ merge' = [merge EXCEPT ![m].reply =
                              [route |-> "forward", branch |-> M.cursor]]
                        /\ Returns(step)
                /\ UNCHANGED callback
  /\ UNCHANGED buffer

MovingAll(m) ==
  \A i \in 1 .. Width(m) : ~merge[m].ended[i] => merge[m].pending[i] = <<>>

(* A branch of the merge can still go on without the host. *)
Moving(m) ==
  \E i \in 1 .. Width(m) : ~merge[m].ended[i] /\ merge[m].pending[i] = <<>>

(* settle_pass: the end, another pass, or one wait for all that is pending, *)
(* polled from the cursor on.                                              *)
SettlePass ==
  /\ AtMerge("advance") /\ step = None
  /\ merge[Top].remaining = 0
  /\ LET m     == Top
         M     == merge[m]
         order == [i \in 1 .. Width(m) |-> ((M.cursor + i - 2) % Width(m)) + 1]
         routes == FlattenSeq([i \in 1 .. Width(m) |->
                     [input \in DOMAIN M.pending[order[i]] |-> <<order[i], input>>]])
         keys  == [i \in DOMAIN routes |-> M.pending[routes[i][1]][routes[i][2]]]
         full  == [M EXCEPT !.remaining = Width(m)]
     IN  IF \A i \in 1 .. Width(m) : M.ended[i]
         THEN Returns(Done(<<>>)) /\ UNCHANGED merge
         ELSE IF Moving(m)
         THEN Returns(Yield) /\ merge' = [merge EXCEPT ![m] = full]
         ELSE /\ Returns(Ask(Read(keys, TRUE)))
              /\ merge' = [merge EXCEPT
                    ![m] = [full EXCEPT !.reply = [route |-> "ready", routes |-> routes]]]
  /\ UNCHANGED <<buffer, callback>>

-----------------------------------------------------------------------------
(* The VM runs a callback: it yields, reads its source, or returns what it *)
(* has read.                                                               *)
RunCallback ==
  /\ request # None /\ request.op = "callback"
  /\ LET leaf == request.leaf
         c    == callback[leaf]
     IN  \/ UNCHANGED callback
         \/ c.state = "new" /\ callback' = [callback EXCEPT ![leaf].state = "wait"]
         \/ c.state = "got" /\ callback' = [callback EXCEPT ![leaf].state = "value"]
  /\ request' = None
  /\ reply' = Reply("unit", 0, <<>>)
  /\ UNCHANGED <<graph, data, take, merge, task, buffer, focus, step, collected,
                 closing, outcome, resource, freezes>>
  /\ UNCHANGED osVars

(* All is closed: the evaluation ends as it was ending, or for a failed close. *)
Ends ==
  /\ closing # None /\ request = None /\ reply # None
  /\ outcome' = IF closing.fault = "none" /\ reply.kind = "failed"
                THEN [closing EXCEPT !.fault = "IOError"] ELSE closing
  /\ closing' = None
  /\ reply' = None
  /\ UNCHANGED <<graph, data, take, merge, task, buffer, callback, focus, step, collected,
                 request, resource, freezes>>
  /\ UNCHANGED osVars

-----------------------------------------------------------------------------
Init ==
  /\ graph \in Graphs
  /\ data \in graph.data
  /\ take \in Takes
  /\ merge = [m \in Merges |->
       [cursor |-> 1, remaining |-> Width(m), reply |-> None,
        pending |-> [i \in 1 .. Width(m) |-> <<>>], ended |-> [i \in 1 .. Width(m) |-> FALSE]]]
  /\ task = [n \in Merges \union Leaves |-> Pulling]
  /\ buffer = [leaf \in Leaves |-> EmptyBuffer]
  /\ callback = [leaf \in Leaves |-> NoCallback]
  /\ focus = <<[node |-> Root, fuel |-> Quantum]>>
  /\ step = None /\ collected = <<>> /\ closing = None /\ outcome = None
  /\ resource = graph.resource
  /\ supply = [key \in DOMAIN resource |->
                 IF resource[key] = "input" THEN data[key] ELSE <<>>]
  /\ worker = [key \in DOMAIN resource |-> "idle"]
  /\ result = [key \in DOMAIN resource |-> None]
  /\ held = [key \in DOMAIN resource |-> None]
  /\ outbox = <<>> /\ pipe = <<>> /\ reads = TRUE
  /\ request = None /\ reply = None /\ freezes = 0

Engine ==
  \/ OutOfFuel \/ PullBytes \/ External \/ PullLines \/ Lined \/ PullFeed \/ FeedInput \/ FeedQueued
  \/ FeedWritten \/ Discard \/ PullMerge \/ Merged \/ TakeTurn \/ Receive
  \/ SettlePass \/ RunCallback \/ Ends

Host == (NextReady \/ Send \/ CloseMany) /\ UNCHANGED engineVars

Outside ==
  /\ \/ Freeze
     \/ \E key \in DOMAIN resource : WorkerReads(key)
     \/ ProcessCopies
     \/ ProcessExits(graph.exits)
  /\ UNCHANGED engineVars

(* The evaluation is over. *)
Over == outcome # None /\ UNCHANGED vars

Next == Engine \/ Host \/ Outside \/ Over

Spec == Init /\ [][Next]_vars

(* The coordinator runs the engine and serves its requests, in turns; the  *)
(* blocking workers, the process and the callbacks owe nothing.            *)
FairSpec == Spec /\ WF_vars(Engine \/ Host)

-----------------------------------------------------------------------------
(* What the consumer has of a leaf, and what it may have in the end.       *)
Records(leaf) ==
  LET own == SelectSeq(collected, LAMBDA item : item.leaf = leaf)
  IN  [i \in DOMAIN own |-> own[i].record]

Origin(leaf) ==
  IF graph.resource[leaf] = "process"
  THEN CHOOSE feed \in Leaves : graph.kind[feed] = "feed" ELSE leaf

Whole(leaf) == Decoded(data[leaf]).records

(* The leaves whose branch has not ended, nor the branch of a merge above. *)
Live ==
  LET Under[n \in Merges \union Leaves] ==
        IF n \in Leaves THEN {n} ELSE UNION {Under[Inputs(n)[i]] : i \in 1 .. Width(n)}
  IN  {leaf \in Leaves : \A m \in Merges : \A i \in 1 .. Width(m) :
                           merge[m].ended[i] => leaf \notin Under[Inputs(m)[i]]}

(* The key a leaf waits for. *)
Awaited(leaf) ==
  CASE callback[leaf].state = "wait" -> leaf
    [] task[leaf].phase \in {"lined", "external", "received"}
         /\ callback[leaf].state = "none" -> leaf
    [] task[leaf].phase = "written" -> Sink
    [] OTHER -> None

-----------------------------------------------------------------------------
(* The cursors stay in their merges, no queue exceeds its bound, and the   *)
(* engine is always somewhere on a path of the graph.                      *)
TypeOK ==
  /\ resource \in [DOMAIN graph.resource -> {"input", "process", "output", "closed"}]
  /\ worker \in [DOMAIN graph.resource -> {"idle", "reading", "done"}]
  /\ Len(pipe) =< PipeSize
  /\ Len(outbox) =< SliceSize
  /\ \A m \in Merges : merge[m].cursor \in 1 .. Width(m) /\ merge[m].remaining \in 0 .. Width(m)
  /\ focus # <<>> /\ focus[1].node = Root
  /\ \A i \in 2 .. Len(focus) :
        \E b \in 1 .. Width(focus[i - 1].node) : Inputs(focus[i - 1].node)[b] = focus[i].node

(* What is collected of an input is what its own bytes decode to, in their *)
(* order, each record once, however they were cut into chunks, whichever   *)
(* inputs were ready and however often the evaluation was parked.          *)
InOrder ==
  \A leaf \in Leaves :
    CASE graph.kind[leaf] \in {"lines", "callback"} -> IsPrefix(Records(leaf), Whole(leaf))
      [] graph.kind[leaf] = "bytes" ->
           IsPrefix(FlattenSeq(Records(leaf)), data[Origin(leaf)])
      [] OTHER -> Records(leaf) = <<>>

(* A stream that ends without a cutoff has given all of every input; what  *)
(* passed through a process too, unless the process left early.            *)
Complete ==
  outcome # None /\ outcome.fault = "none" /\ take > 0 =>
    \A leaf \in Leaves :
      CASE graph.kind[leaf] \in {"lines", "callback"} ->
             Records(leaf) = Whole(leaf) /\ Decoded(data[leaf]).fault = "none"
        [] graph.kind[leaf] = "bytes" ->
             \/ FlattenSeq(Records(leaf)) = data[Origin(leaf)]
             \/ Origin(leaf) # leaf /\ graph.exits
        [] OTHER -> TRUE

(* A failure is the one the bytes of its own input call for. *)
Genuine ==
  outcome # None =>
    CASE outcome.fault \in {"LimitExceeded", "DecodeError"} ->
           Decoded(data[outcome.leaf]).fault = outcome.fault
      [] outcome.fault = "IOError" -> Breakable \cap DOMAIN resource # {}
      [] OTHER -> TRUE

Faithful == InOrder /\ Complete /\ Genuine

(* The engine waits only for all at once: a request that may block names   *)
(* the key of every input that is still live, and no input has work left.  *)
WaitsForAll ==
  Reading /\ request.wait =>
    /\ \A leaf \in Live : Awaited(leaf) # None
    /\ {Awaited(leaf) : leaf \in Live} = ToSet(request.keys)

(* No request names a source that has ended or been closed, names one      *)
(* twice, or gives the process a chunk before it took the last.            *)
NothingStale ==
  /\ Reading => ~Stale(request.keys)
  /\ closing # None => closing.fault # "misused"

(* What an input has given, and how much of it its branch owes: a line     *)
(* once its LF has been read, a byte of a bare source at once.             *)
Given(leaf) ==
  IF graph.resource[leaf] = "input"
  THEN SubSeq(data[leaf], 1, Len(data[leaf]) - Len(supply[leaf]))
  ELSE FlattenSeq(Records(leaf)) \o supply[leaf]

Paid(leaf) ==
  CASE graph.kind[leaf] = "lines" ->
         Len(Records(leaf)) >= Settled(Given(leaf)) \/ Records(leaf) = Whole(leaf)
    [] graph.kind[leaf] = "bytes" -> FlattenSeq(Records(leaf)) = Given(leaf)
    [] OTHER -> TRUE

(* A branch that is not running a callback is being read for: its reader   *)
(* is at work, however long the callbacks of other branches run.           *)
Attended(leaf) ==
  leaf \in Live /\ callback[leaf].state \in {"none", "wait"} =>
    LET key == Awaited(leaf) IN key # None /\ (resource[key] = "input" => worker[key] # "idle")

(* What an input has given is delivered and more is asked of it, whatever  *)
(* the other inputs, the callbacks and the process do: no branch keeps     *)
(* another's items waiting.                                                *)
Flows == []<>(outcome # None \/ \A leaf \in Leaves : Paid(leaf) /\ Attended(leaf))
=============================================================================
