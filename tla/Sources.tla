------------------------------ MODULE Sources ------------------------------
(***************************************************************************)
(* The registry of an evaluation's sources (rill-system/src/resources.rs)  *)
(* with the three resources its streams are made of: the cancellable       *)
(* reader of a descriptor (input.rs), whose blocking worker outlives the   *)
(* poll that started it; the output of a process read as it comes; and the *)
(* writable end of that process's stdin (output.rs).  The coordinator      *)
(* serves one request of the engine at a time, polling the selected        *)
(* sources in the caller's order (continuation.rs, read_sources).          *)
(*                                                                         *)
(* A worker and the process run by themselves, but nothing of what they do *)
(* is seen before the next poll: their actions wait for a read request.    *)
(***************************************************************************)
EXTENDS Integers, Sequences, FiniteSets

CONSTANTS
  None,              \* no value
  Broken,            \* what a failing read returns
  Sink,              \* the key of the process's stdin
  Breakable,         \* the sources whose reads may fail
  PipeSize,          \* the bytes the pipe to the process holds
  MaxFreezes         \* how often the evaluation may be parked and resumed

ASSUME SourcesAssumption == PipeSize \in Nat \ {0} /\ MaxFreezes \in Nat

VARIABLES
  resource,          \* what a key names: "input", "process", "output" or "closed"
  supply,            \* the bytes a descriptor still has to give
  worker,            \* a reader's worker: "idle", "reading" or "done"
  result,            \* what a worker that is done read; <<>> is the end of file
  held,              \* what a pause kept of it
  outbox,            \* the bytes queued for the process
  pipe,              \* the bytes in the pipe to it
  reads,             \* the process reads its stdin
  request,           \* the request being served
  reply,             \* the reply the engine has not taken
  freezes

sourceVars == <<resource, supply, worker, result, held, outbox, pipe, reads,
                request, reply, freezes>>
osVars == <<supply, worker, result, held, outbox, pipe, reads>>

Read(keys, wait) == [op |-> "read", keys |-> keys, wait |-> wait, at |-> 1]
Reply(kind, index, value) == [kind |-> kind, index |-> index, value |-> value]

Reading == request # None /\ request.op = "read"
Key == request.keys[request.at]
Polling == Reading /\ request.at =< Len(request.keys)

(* A selection that is empty, repeats a key or names a closed one. *)
Stale(keys) ==
  \/ keys = <<>>
  \/ \E i \in DOMAIN keys : resource[keys[i]] = "closed"
  \/ \E i, j \in DOMAIN keys : i # j /\ keys[i] = keys[j]

(* The reply for the key being polled: an item, the end of the source, or  *)
(* its failure.  A source that ends leaves the registry.                   *)
Selected(value) ==
  /\ request' = None
  /\ reply' = IF value = Broken THEN Reply("failed", request.at, <<>>)
                                ELSE Reply("item", request.at, value)
  /\ resource' = IF value = <<>> THEN [resource EXCEPT ![Key] = "closed"] ELSE resource

(* Nothing is ready under this key: the next one is polled. *)
Passed == request' = [request EXCEPT !.at = @ + 1] /\ UNCHANGED <<resource, reply>>

(* Input::next.  The worker outlives the poll that finds it reading. *)
PollInput ==
  /\ Polling /\ resource[Key] = "input"
  /\ \/ /\ held[Key] # None
        /\ Selected(held[Key])
        /\ held' = [held EXCEPT ![Key] = None]
        /\ UNCHANGED <<worker, result>>
     \/ /\ held[Key] = None /\ worker[Key] = "idle"
        /\ worker' = [worker EXCEPT ![Key] = "reading"]
        /\ UNCHANGED <<resource, result, held, request, reply>>
     \/ /\ held[Key] = None /\ worker[Key] = "reading"
        /\ Passed
        /\ UNCHANGED <<worker, result, held>>
     \/ /\ held[Key] = None /\ worker[Key] = "done"
        /\ Selected(result[Key])
        /\ worker' = [worker EXCEPT ![Key] = "idle"]
        /\ result' = [result EXCEPT ![Key] = None]
        /\ UNCHANGED held
  /\ UNCHANGED <<supply, outbox, pipe, reads, freezes>>

(* The process's output: what it has written so far, or its end. *)
PollProcess ==
  /\ Polling /\ resource[Key] = "process"
  /\ IF supply[Key] = <<>> /\ reads
     THEN Passed /\ UNCHANGED supply
     ELSE Selected(supply[Key]) /\ supply' = [supply EXCEPT ![Key] = <<>>]
  /\ UNCHANGED <<worker, result, held, outbox, pipe, reads, freezes>>

(* Output::flush: as much as the pipe takes; "open" once all is written,   *)
(* "shut" when nobody reads.                                               *)
PollOutput ==
  /\ Polling /\ resource[Key] = "output"
  /\ LET room  == PipeSize - Len(pipe)
         count == IF Len(outbox) < room THEN Len(outbox) ELSE room
     IN  IF outbox # <<>> /\ ~reads
         THEN /\ outbox' = <<>>
              /\ reply' = Reply("shut", request.at, <<>>)
              /\ request' = None
              /\ UNCHANGED <<pipe, resource>>
         ELSE /\ outbox' = SubSeq(outbox, count + 1, Len(outbox))
              /\ pipe' = pipe \o SubSeq(outbox, 1, count)
              /\ IF count = Len(outbox)
                 THEN /\ reply' = Reply("open", request.at, <<>>)
                      /\ request' = None
                      /\ UNCHANGED resource
                 ELSE Passed
  /\ UNCHANGED <<supply, worker, result, held, reads, freezes>>

(* No key was ready: a probe says so, a wait begins again when one is. *)
Ready(key) ==
  CASE resource[key] = "input" -> worker[key] = "done" \/ held[key] # None
    [] resource[key] = "process" -> supply[key] # <<>> \/ ~reads
    [] resource[key] = "output" -> outbox = <<>> \/ ~reads \/ Len(pipe) < PipeSize
    [] OTHER -> FALSE

PollEnds ==
  /\ Reading /\ request.at > Len(request.keys)
  /\ \/ /\ ~request.wait
        /\ request' = None
        /\ reply' = Reply("pending", 0, <<>>)
     \/ /\ request.wait
        /\ \E i \in DOMAIN request.keys : Ready(request.keys[i])
        /\ request' = [request EXCEPT !.at = 1]
        /\ UNCHANGED reply
  /\ UNCHANGED <<resource, freezes>> /\ UNCHANGED osVars

(* Sources::next_ready, and the select loop of read_sources around it. *)
NextReady ==
  IF Reading /\ Stale(request.keys)
  THEN /\ request' = None
       /\ reply' = Reply("misused", 0, <<>>)
       /\ UNCHANGED <<resource, freezes>> /\ UNCHANGED osVars
  ELSE PollInput \/ PollProcess \/ PollOutput \/ PollEnds

-----------------------------------------------------------------------------
(* Sources::send: one chunk for the process, or <<>> to end its input. *)
Send ==
  /\ request # None /\ request.op = "send"
  /\ request' = None
  /\ IF resource[Sink] = "closed" \/ (request.bytes # <<>> /\ outbox # <<>>)
     THEN reply' = Reply("misused", 0, <<>>) /\ UNCHANGED <<resource, outbox>>
     ELSE /\ reply' = Reply("unit", 0, <<>>)
          /\ outbox' = request.bytes
          /\ resource' = IF request.bytes = <<>> THEN [resource EXCEPT ![Sink] = "closed"]
                                                 ELSE resource
  /\ UNCHANGED <<supply, worker, result, held, pipe, reads, freezes>>

(* close_many: every key leaves the registry and every worker is joined;   *)
(* a read that had failed is reported.                                     *)
CloseMany ==
  /\ request # None /\ request.op = "close"
  /\ LET keys    == {key \in request.keys : resource[key] # "closed"}
         inputs  == {key \in keys : resource[key] = "input"}
         failing == \E key \in inputs : Broken \in {result[key], held[key]}
     IN  /\ resource' = [key \in DOMAIN resource |->
                            IF key \in keys THEN "closed" ELSE resource[key]]
         /\ worker' = [key \in DOMAIN worker |->
                            IF key \in inputs THEN "idle" ELSE worker[key]]
         /\ result' = [key \in DOMAIN result |->
                            IF key \in inputs THEN None ELSE result[key]]
         /\ held' = [key \in DOMAIN held |-> IF key \in inputs THEN None ELSE held[key]]
         /\ outbox' = IF Sink \in keys THEN <<>> ELSE outbox
         /\ reply' = Reply(IF failing THEN "failed" ELSE "unit", 0, <<>>)
  /\ request' = None
  /\ UNCHANGED <<supply, pipe, reads, freezes>>

FreezeDropping ==
  /\ Reading /\ freezes < MaxFreezes
  /\ freezes' = freezes + 1
  /\ result' = [key \in DOMAIN result |-> None]
  /\ worker' = [key \in DOMAIN worker |-> "idle"]
  /\ request' = [request EXCEPT !.at = 1]
  /\ UNCHANGED <<resource, supply, held, outbox, pipe, reads, reply>>

(* The evaluation is parked and resumed while it reads: every reader is    *)
(* paused, what its worker had read is held, and the read begins again.    *)
Freeze ==
  /\ Reading /\ freezes < MaxFreezes
  /\ freezes' = freezes + 1
  /\ held' = [key \in DOMAIN held |->
                IF worker[key] = "done" THEN result[key] ELSE held[key]]
  /\ result' = [key \in DOMAIN result |-> None]
  /\ worker' = [key \in DOMAIN worker |-> "idle"]
  /\ request' = [request EXCEPT !.at = 1]
  /\ UNCHANGED <<resource, supply, outbox, pipe, reads, reply>>

-----------------------------------------------------------------------------
(* read_ready on the blocking worker: some of the bytes there are, the end *)
(* of the file, or a failure.                                              *)
WorkerReads(key) ==
  /\ Reading /\ worker[key] = "reading"
  /\ worker' = [worker EXCEPT ![key] = "done"]
  /\ \/ \E count \in 1 .. Len(supply[key]) :
           /\ result' = [result EXCEPT ![key] = SubSeq(supply[key], 1, count)]
           /\ supply' = [supply EXCEPT ![key] = SubSeq(@, count + 1, Len(@))]
     \/ supply[key] = <<>> /\ result' = [result EXCEPT ![key] = <<>>] /\ UNCHANGED supply
     \/ key \in Breakable /\ result' = [result EXCEPT ![key] = Broken] /\ UNCHANGED supply
  /\ UNCHANGED <<resource, held, outbox, pipe, reads, request, reply, freezes>>

(* The process copies its stdin to its output, as long as that takes it,   *)
(* and exits at its end or before.                                         *)
Outputs == {key \in DOMAIN resource : resource[key] = "process"}

ProcessCopies ==
  /\ Reading /\ reads /\ pipe # <<>>
  /\ \E key \in Outputs : supply[key] = <<>> /\ supply' = [supply EXCEPT ![key] = pipe]
  /\ pipe' = <<>>
  /\ UNCHANGED <<resource, worker, result, held, outbox, reads, request, reply, freezes>>

ProcessExits(early) ==
  /\ Reading /\ reads /\ Sink \in DOMAIN resource
  /\ early \/ (pipe = <<>> /\ resource[Sink] = "closed")
  /\ reads' = FALSE
  /\ pipe' = <<>>
  /\ UNCHANGED <<resource, supply, worker, result, held, outbox, request, reply, freezes>>
=============================================================================
