------------------------------- MODULE Writer -------------------------------
(***************************************************************************)
(* Output to an inherited descriptor through a supervised helper process:  *)
(* crates/rill-system/src/writer.rs (Writer and the helper's worker),      *)
(* output.rs (the transport chunk) and crates/rillsh/src/session/output.rs *)
(* (the cached writer of one stream of an evaluation), with the part of    *)
(* session.rs and session/continuation.rs that parks, resumes, cancels and *)
(* ends the evaluation around it.                                          *)
(*                                                                         *)
(* A byte on the wire is <<f, k>>: byte k of the transmission of frame f,  *)
(* whose first Header bytes encode the length and the rest are the text.   *)
(* The helper's process group is the Job module's business; here commit,   *)
(* cancel and wait are what that module shows them to be.                  *)
(***************************************************************************)
EXTENDS Integers, Sequences

CONSTANTS
  Length,     \* Length[f] is the number of bytes of the f-th output request
  Header,     \* bytes of a frame header (size_of::<u64>())
  Chunk,      \* IO_CHUNK_BYTES
  Capacity    \* bytes the transport pipe holds

ASSUME Lengths == Length \in Seq(Nat)
ASSUME Sizes == /\ Header \in Nat \ {0} /\ Chunk \in Nat \ {0} /\ Capacity \in Nat \ {0}
                /\ Header <= Chunk

Frames == DOMAIN Length

VARIABLES
  \* the helper process
  helper,     \* what it is doing
  halted,     \* stopped by job control
  head,       \* the header bytes read so far
  remaining,  \* text bytes of the frame not yet read into the buffer
  buffer,     \* the bytes to be written next
  code,       \* the first error of the frame
  \* the pipes and the inherited descriptor
  pipe,       \* transport bytes not yet read
  replies,    \* acknowledgements not yet read
  sink,       \* what has reached the inherited descriptor: <<frame, index>>
  \* Writer and its Output
  held,       \* the evaluation's slot holds a writer
  inputOpen,  \* input is Some: the transport's write end is open
  committed,
  pending,    \* frame is Some
  sent,       \* frame.sent: text bytes handed to the transport
  chunk, offset,
  \* the evaluation
  call, at,   \* what it awaits
  after,      \* where a cancellation returns
  cleaning,   \* the engine runs cleanup; interrupts and stops wait
  request,    \* the frame being written, or 0
  next,       \* the next output request
  outcome     \* what the evaluation was told of each frame

helperVars == <<helper, halted, head, remaining, buffer, code>>
transportVars == <<held, inputOpen, committed, pending, sent, chunk, offset>>
evaluationVars == <<call, at, after, cleaning, request, next, outcome>>
vars == <<helperVars, pipe, replies, sink, transportVars, evaluationVars>>

Byte == Frames \X Nat
Working == {"header", "body", "write", "reply"}

TypeOK ==
  /\ helper \in Working \cup {"none", "gated", "ended"}
  /\ halted \in BOOLEAN
  /\ head \in Seq(Byte) /\ Len(head) <= Header
  /\ remaining \in Nat
  /\ buffer \in Seq(Byte) /\ Len(buffer) <= Chunk
  /\ code \in {"ok", "bad"}
  /\ pipe \in Seq(Byte) /\ Len(pipe) <= Capacity
  /\ replies \in Seq({"ok", "bad"})
  /\ sink \in Seq(Frames \X Int)
  /\ held \in BOOLEAN /\ inputOpen \in BOOLEAN /\ committed \in BOOLEAN
  /\ pending \in BOOLEAN
  /\ sent \in Nat
  /\ chunk \in Seq(Byte) /\ Len(chunk) <= Chunk
  /\ offset \in 0..Len(chunk)
  /\ call \in {"idle", "flush", "stopping", "freezing", "parked", "cancel",
               "closing", "over"}
  /\ at \in {"none", "commit", "write", "read"}
  /\ after \in {"none", "idle", "over"}
  /\ cleaning \in BOOLEAN
  /\ request \in Frames \cup {0}
  /\ next \in 1..(Len(Length) + 1)
  /\ outcome \in [Frames -> {"none", "ok", "error"}]

Init ==
  /\ helper = "none" /\ halted = FALSE
  /\ head = <<>> /\ remaining = 0 /\ buffer = <<>> /\ code = "ok"
  /\ pipe = <<>> /\ replies = <<>> /\ sink = <<>>
  /\ held = FALSE /\ inputOpen = FALSE /\ committed = FALSE
  /\ pending = FALSE /\ sent = 0 /\ chunk = <<>> /\ offset = 0
  /\ call = "idle" /\ at = "none" /\ after = "none" /\ cleaning = FALSE
  /\ request = 0 /\ next = 1
  /\ outcome = [f \in Frames |-> "none"]

-----------------------------------------------------------------------------
(* The helper: worker.                                                     *)

Steps(state) == helper = state /\ ~halted

\* The next frame begins; its error state is fresh.
NextFrame == helper' = "header" /\ head' = <<>> /\ code' = "ok"

\* A text chunk is dealt with: on to the next one, or to the acknowledgement.
AfterChunk(left) == helper' = IF left = 0 THEN "reply" ELSE "body"

\* What a header decodes to; only a frame's own header bytes mean its length.
Decoded(bytes) ==
  {n \in {Length[f] : f \in Frames} :
     \A f \in Frames : bytes = [k \in 1..Header |-> <<f, k>>] => n = Length[f]}

HelperReadsHeader ==
  /\ Steps("header") /\ pipe # <<>>
  /\ head' = Append(head, Head(pipe))
  /\ pipe' = Tail(pipe)
  /\ IF Len(head') = Header
     THEN /\ remaining' \in Decoded(head')
          /\ AfterChunk(remaining')
     ELSE UNCHANGED <<remaining, helper>>
  /\ UNCHANGED <<halted, buffer, code, replies, sink, transportVars, evaluationVars>>

\* read_exact: a chunk is collected before any of it is written.  After an error
\* the rest of the frame is read and dropped.
HelperReadsText ==
  /\ Steps("body") /\ pipe # <<>>
  /\ LET text == Append(buffer, Head(pipe))
         whole == Len(text) = remaining \/ Len(text) = Chunk IN
       /\ IF whole THEN /\ remaining' = remaining - Len(text)
                        /\ IF code = "ok" THEN helper' = "write" /\ buffer' = text
                           ELSE AfterChunk(remaining') /\ buffer' = <<>>
          ELSE buffer' = text /\ UNCHANGED <<helper, remaining>>
  /\ pipe' = Tail(pipe)
  /\ UNCHANGED <<halted, head, code, replies, sink, transportVars, evaluationVars>>

\* End of input: between frames the helper leaves, inside one it fails.
HelperLeaves ==
  /\ Steps("header") \/ Steps("body")
  /\ pipe = <<>> /\ ~inputOpen
  /\ helper' = "ended"
  /\ UNCHANGED <<halted, head, remaining, buffer, code, pipe, replies, sink,
                 transportVars, evaluationVars>>

\* write_all makes progress byte by byte, or fails for the rest of the frame.
HelperWrites ==
  /\ Steps("write")
  /\ sink' = Append(sink, <<Head(buffer)[1], Head(buffer)[2] - Header>>)
  /\ buffer' = Tail(buffer)
  /\ IF buffer' = <<>> THEN AfterChunk(remaining) ELSE UNCHANGED helper
  /\ UNCHANGED <<halted, head, remaining, code, pipe, replies, transportVars,
                 evaluationVars>>

\* Mistaken variant: a failed write is acknowledged without reading the rest.
HelperWriteFailsEarly ==
  /\ Steps("write")
  /\ code' = "bad" /\ buffer' = <<>>
  /\ helper' = "reply"
  /\ UNCHANGED <<halted, head, remaining, pipe, replies, sink, transportVars,
                 evaluationVars>>

HelperWriteFails ==
  /\ Steps("write")
  /\ code' = "bad" /\ buffer' = <<>>
  /\ AfterChunk(remaining)
  /\ UNCHANGED <<halted, head, remaining, pipe, replies, sink, transportVars,
                 evaluationVars>>

HelperReplies ==
  /\ Steps("reply")
  /\ replies' = Append(replies, code)
  /\ NextFrame
  /\ UNCHANGED <<halted, remaining, buffer, pipe, sink, transportVars, evaluationVars>>

\* Somebody kills the helper, or the cancellation's signals do.
HelperKilled ==
  /\ helper \in Working \cup {"gated"}
  /\ helper' = "ended" /\ halted' = FALSE
  /\ UNCHANGED <<head, remaining, buffer, code, pipe, replies, sink,
                 transportVars, evaluationVars>>

\* The helper stops: suspend's SIGSTOP arrives.
HelperStops ==
  /\ call = "freezing" /\ helper \in Working \cup {"gated"} /\ ~halted
  /\ halted' = TRUE
  /\ UNCHANGED <<helper, head, remaining, buffer, code, pipe, replies, sink,
                 transportVars, evaluationVars>>

Worker ==
  \/ HelperReadsHeader \/ HelperReadsText \/ HelperLeaves
  \/ HelperWrites \/ HelperWriteFails \/ HelperReplies

-----------------------------------------------------------------------------
(* Writer and Output: begin, flush, suspend, resume, cancel and finish.    *)

Alive == helper \in Working \cup {"gated"}

\* The write end is dropped; job.cancel signals the group and waits for its end.
StartCancel(back) ==
  /\ inputOpen' = FALSE
  /\ call' = "cancel" /\ at' = "none" /\ after' = back

\* The transmission of a chunk of text, or of the header when k is 0.
TextChunk(f, k) ==
  LET end == IF Length[f] - k < Chunk THEN Length[f] - k ELSE Chunk IN
  [i \in 1..end |-> <<f, Header + k + i>>]

HeaderChunk(f) == [i \in 1..Header |-> <<f, i>>]

\* output and begin: the next frame is handed to the slot's writer, which is
\* prepared when there is none.
Output ==
  /\ call = "idle" /\ next <= Len(Length)
  /\ request' = next /\ next' = next + 1
  /\ ~pending /\ offset = Len(chunk)
  /\ IF held THEN UNCHANGED <<held, inputOpen, committed, helper, pipe, replies>>
     ELSE /\ held' = TRUE /\ inputOpen' = TRUE /\ committed' = FALSE
          /\ helper' = "gated" /\ pipe' = <<>> /\ replies' = <<>>
  /\ pending' = TRUE /\ sent' = 0
  /\ chunk' = HeaderChunk(next) /\ offset' = 0
  /\ call' = "flush"
  /\ at' = IF committed' THEN "write" ELSE "commit"
  /\ UNCHANGED <<halted, head, remaining, buffer, code, sink, after, cleaning, outcome>>

\* The helper cannot be made: the request fails and the slot stays empty.
OutputFails ==
  /\ call = "idle" /\ next <= Len(Length) /\ ~held
  /\ next' = next + 1
  /\ outcome' = [outcome EXCEPT ![next] = "error"]
  /\ UNCHANGED <<helperVars, pipe, replies, sink, transportVars, call, at, after,
                 cleaning, request>>

\* job.commit releases the helper, which executes its worker ...
HelperStarts ==
  /\ call = "flush" /\ at = "commit" /\ Steps("gated")
  /\ helper' = "header" /\ head' = <<>> /\ code' = "ok" /\ buffer' = <<>>
  /\ UNCHANGED <<halted, remaining, pipe, replies, sink, transportVars, evaluationVars>>

\* ... and returns; or the launch fails and the writer is cancelled.
Committed ==
  /\ call = "flush" /\ at = "commit" /\ helper \in Working \cup {"ended"}
  /\ committed' = TRUE
  /\ at' = "write"
  /\ UNCHANGED <<helperVars, pipe, replies, sink, held, inputOpen, pending, sent,
                 chunk, offset, call, after, cleaning, request, next, outcome>>

CommitFails ==
  /\ call = "flush" /\ at = "commit" /\ helper = "ended"
  /\ StartCancel("idle")
  /\ UNCHANGED <<helperVars, pipe, replies, sink, held, committed, pending, sent,
                 chunk, offset, cleaning, request, next, outcome>>

\* Mistaken variant: the next chunk is not started from its beginning.
FlushWritesOn(n) ==
  /\ call = "flush" /\ at = "write" /\ Alive
  /\ n <= Len(chunk) - offset /\ Len(pipe) + n <= Capacity
  /\ pipe' = pipe \o SubSeq(chunk, offset + 1, offset + n)
  /\ offset' = offset + n
  /\ IF offset + n < Len(chunk) THEN UNCHANGED <<chunk, sent, at>>
     ELSE /\ chunk' = TextChunk(request, sent)
          /\ sent' = sent + Len(chunk')
          /\ at' = IF chunk' = <<>> THEN "read" ELSE "write"
  /\ UNCHANGED <<helperVars, replies, sink, held, inputOpen, committed, pending,
                 call, after, cleaning, request, next, outcome>>

\* Output::flush writes what fits; a finished chunk is followed by the next one
\* without suspending, and the last by the wait for the acknowledgement.
FlushWrites(n) ==
  /\ call = "flush" /\ at = "write" /\ Alive
  /\ n <= Len(chunk) - offset /\ Len(pipe) + n <= Capacity
  /\ pipe' = pipe \o SubSeq(chunk, offset + 1, offset + n)
  /\ IF offset + n < Len(chunk)
     THEN offset' = offset + n /\ UNCHANGED <<chunk, sent, at>>
     ELSE /\ offset' = 0
          /\ chunk' = TextChunk(request, sent)
          /\ sent' = sent + Len(chunk')
          /\ at' = IF chunk' = <<>> THEN "read" ELSE "write"
  /\ UNCHANGED <<helperVars, replies, sink, held, inputOpen, committed, pending,
                 call, after, cleaning, request, next, outcome>>

\* The reader is gone: the transport drops its chunk and the writer is cancelled.
FlushBroken ==
  /\ call = "flush" /\ at = "write" /\ helper = "ended"
  /\ chunk' = <<>> /\ offset' = 0
  /\ StartCancel("idle")
  /\ UNCHANGED <<helperVars, pipe, replies, sink, held, committed, pending, sent,
                 cleaning, request, next, outcome>>

\* The acknowledgement ends the frame.
FlushAcknowledged ==
  /\ call = "flush" /\ at = "read" /\ replies # <<>>
  /\ replies' = Tail(replies)
  /\ pending' = FALSE
  /\ IF Head(replies) = "ok"
     THEN /\ outcome' = [outcome EXCEPT ![request] = "ok"]
          /\ request' = 0
          /\ call' = "idle" /\ at' = "none"
          /\ UNCHANGED <<after, inputOpen>>
     ELSE StartCancel("idle") /\ UNCHANGED <<outcome, request>>
  /\ UNCHANGED <<helperVars, pipe, sink, held, committed, sent, chunk, offset,
                 cleaning, next>>

\* The helper ended without one.
FlushEnds ==
  /\ call = "flush" /\ at = "read" /\ replies = <<>> /\ helper = "ended"
  /\ StartCancel("idle")
  /\ UNCHANGED <<helperVars, pipe, replies, sink, held, committed, pending, sent,
                 chunk, offset, cleaning, request, next, outcome>>

\* Mistaken variant: the cancellation waits for the outstanding acknowledgement.
CancelledAcknowledged ==
  /\ call = "cancel" /\ helper = "ended" /\ replies # <<>>
  /\ helper' = "none" /\ halted' = FALSE
  /\ held' = FALSE /\ pending' = FALSE /\ chunk' = <<>> /\ offset' = 0
  /\ pipe' = <<>> /\ replies' = <<>>
  /\ outcome' = IF request = 0 THEN outcome
                ELSE [outcome EXCEPT ![request] = "error"]
  /\ request' = 0
  /\ call' = after /\ after' = "none"
  /\ UNCHANGED <<head, remaining, buffer, code, sink, inputOpen, committed, sent,
                 at, cleaning, next>>

\* The helper is reaped: the writer is dropped and its request has failed.
Cancelled ==
  /\ call = "cancel" /\ helper = "ended"
  /\ helper' = "none" /\ halted' = FALSE
  /\ held' = FALSE /\ pending' = FALSE /\ chunk' = <<>> /\ offset' = 0
  /\ pipe' = <<>> /\ replies' = <<>>
  /\ outcome' = IF request = 0 THEN outcome
                ELSE [outcome EXCEPT ![request] = "error"]
  /\ request' = 0
  /\ call' = after /\ after' = "none"
  /\ UNCHANGED <<head, remaining, buffer, code, sink, inputOpen, committed, sent,
                 at, cleaning, next>>

\* Mistaken variant: the idle helper is awaited with its input still open.
FinishOpen ==
  /\ call = "idle"
  /\ IF ~held THEN call' = "over" /\ UNCHANGED <<inputOpen, at, after>>
     ELSE IF ~committed \/ pending THEN StartCancel("over")
     ELSE call' = "closing" /\ UNCHANGED <<inputOpen, at, after>>
  /\ UNCHANGED <<helperVars, pipe, replies, sink, held, committed, pending, sent,
                 chunk, offset, cleaning, request, next, outcome>>

\* finish: an idle helper is asked to leave, anything else is cancelled.
Finish ==
  /\ call = "idle"
  /\ IF ~held THEN call' = "over" /\ UNCHANGED <<inputOpen, at, after>>
     ELSE IF ~committed \/ pending THEN StartCancel("over")
     ELSE inputOpen' = FALSE /\ call' = "closing" /\ UNCHANGED <<at, after>>
  /\ UNCHANGED <<helperVars, pipe, replies, sink, held, committed, pending, sent,
                 chunk, offset, cleaning, request, next, outcome>>

Finished ==
  /\ call = "closing" /\ helper = "ended"
  /\ helper' = "none" /\ held' = FALSE
  /\ pipe' = <<>> /\ replies' = <<>>
  /\ call' = "over"
  /\ UNCHANGED <<halted, head, remaining, buffer, code, sink, inputOpen,
                 committed, pending, sent, chunk, offset, at, after, cleaning,
                 request, next, outcome>>

FinishCancels ==
  /\ call = "closing" /\ helper # "ended" /\ halted
  /\ StartCancel("over")
  /\ UNCHANGED <<helperVars, pipe, replies, sink, held, committed, pending, sent,
                 chunk, offset, cleaning, request, next, outcome>>

-----------------------------------------------------------------------------
(* The evaluation: interrupts, stops, fg and cancel.                       *)

\* Mistaken variant: an interrupted write is abandoned where it is.
InterruptAbandoning ==
  /\ call \in {"idle", "flush"} /\ ~cleaning
  /\ cleaning' = TRUE
  /\ call' = "idle" /\ at' = "none" /\ UNCHANGED <<inputOpen, after>>
  /\ UNCHANGED <<helperVars, pipe, replies, sink, held, committed, pending, sent,
                 chunk, offset, request, next, outcome>>

\* An interrupt outside cleanup: a pending write is cancelled, then the engine
\* runs cleanup.
Interrupt ==
  /\ call \in {"idle", "flush"} /\ ~cleaning
  /\ cleaning' = TRUE
  /\ IF call = "flush" THEN StartCancel("idle")
     ELSE UNCHANGED <<inputOpen, call, at, after>>
  /\ UNCHANGED <<helperVars, pipe, replies, sink, held, committed, pending, sent,
                 chunk, offset, request, next, outcome>>

\* A stop request outside cleanup: park begins; a pending write is retained.
Stop ==
  /\ call \in {"idle", "flush"} /\ ~cleaning
  /\ call' = "stopping" /\ at' = "none"
  /\ UNCHANGED <<helperVars, pipe, replies, sink, transportVars, after, cleaning,
                 request, next, outcome>>

\* freeze_active: the writer is stopped and its stop or end awaited.
Freeze ==
  /\ call = "stopping"
  /\ call' = IF held THEN "freezing" ELSE "parked"
  /\ UNCHANGED <<helperVars, pipe, replies, sink, transportVars, at, after, cleaning,
                 request, next, outcome>>

\* Mistaken variant: the signal is sent and its effect not awaited.
FrozenBlindly ==
  /\ call = "freezing"
  /\ call' = "parked"
  /\ UNCHANGED <<helperVars, pipe, replies, sink, transportVars, at, after, cleaning,
                 request, next, outcome>>

Frozen ==
  /\ call = "freezing" /\ (halted \/ helper = "ended")
  /\ call' = "parked"
  /\ UNCHANGED <<helperVars, pipe, replies, sink, transportVars, at, after, cleaning,
                 request, next, outcome>>

\* Where flush takes up a retained frame.
Retained ==
  IF ~committed THEN "commit" ELSE IF offset < Len(chunk) THEN "write" ELSE "read"

\* Mistaken variants: the chunk in transit is sent again from its start, or the
\* helper is not continued.
ResumeRewinding ==
  /\ call = "parked"
  /\ halted' = FALSE
  /\ offset' = 0
  /\ IF request = 0 THEN call' = "idle" /\ UNCHANGED at
     ELSE call' = "flush" /\ at' = Retained
  /\ UNCHANGED <<helper, head, remaining, buffer, code, pipe, replies, sink, held,
                 inputOpen, committed, pending, sent, chunk, after, cleaning,
                 request, next, outcome>>

ResumeStopped ==
  /\ call = "parked"
  /\ IF request = 0 THEN call' = "idle" /\ UNCHANGED at
     ELSE call' = "flush" /\ at' = Retained
  /\ UNCHANGED <<helperVars, pipe, replies, sink, transportVars, after, cleaning,
                 request, next, outcome>>

\* fg: the helper continues and the pending write, if any, is taken up.
Resume ==
  /\ call = "parked"
  /\ halted' = FALSE
  /\ IF request = 0 THEN call' = "idle" /\ UNCHANGED at
     ELSE call' = "flush" /\ at' = Retained
  /\ UNCHANGED <<helper, head, remaining, buffer, code, pipe, replies, sink,
                 transportVars, after, cleaning, request, next, outcome>>

\* cancel of a parked evaluation: its pending write is cancelled and the engine
\* runs cleanup; nothing else is resumed.
CancelParked ==
  /\ call = "parked"
  /\ cleaning' = TRUE
  /\ IF request # 0 THEN StartCancel("idle")
     ELSE call' = "idle" /\ UNCHANGED <<inputOpen, at, after>>
  /\ UNCHANGED <<helperVars, pipe, replies, sink, held, committed, pending, sent,
                 chunk, offset, request, next, outcome>>

\* The next entry of the session.
NextEntry ==
  /\ call = "over"
  /\ call' = "idle" /\ cleaning' = FALSE
  /\ UNCHANGED <<helperVars, pipe, replies, sink, transportVars, at, after, request,
                 next, outcome>>

\* The coordinator's own progress inside a call.
Progress ==
  \/ Committed \/ CommitFails \/ (\E n \in 1..Chunk : FlushWrites(n)) \/ FlushBroken
  \/ FlushAcknowledged \/ FlushEnds \/ Cancelled \/ Finished \/ FinishCancels
  \/ Freeze \/ Frozen

User == Interrupt \/ Stop \/ Resume \/ CancelParked

Evaluation == Output \/ OutputFails \/ Finish \/ NextEntry

Next == Worker \/ HelperStarts \/ HelperStops \/ HelperKilled \/ Progress \/ User
        \/ Evaluation

Spec == Init /\ [][Next]_vars

\* The event loop runs, a stop arrives, and a cancelled helper ends (Job shows
\* that).  The descriptor may block for ever.
Fairness ==
  /\ WF_vars(Progress) /\ WF_vars(HelperStops)
  /\ WF_vars(call = "cancel" /\ HelperKilled)

FairSpec == Spec /\ Fairness

\* The helper runs, and its descriptor accepts or refuses bytes.
SinkRuns == WF_vars(Worker \/ HelperStarts)

SinkSpec == FairSpec /\ SinkRuns

-----------------------------------------------------------------------------
(* Safety.                                                                 *)

\* Every byte reaches the descriptor once and in order, and a frame is reported
\* written only after its last byte, over any suspension, kill or cancellation.
Outputs == INSTANCE Delivery WITH current <- request

ImplementsDelivery == Outputs!Spec

\* The helper never takes text for a header or a header for text, whatever was
\* retained, dropped or cancelled before (begin, flush and worker).
PartsInStep ==
  /\ \A k \in DOMAIN head : head[k][2] = k
  /\ \A k \in DOMAIN buffer : buffer[k][2] > Header
  /\ helper = "header" /\ pipe # <<>> => Head(pipe)[2] = Len(head) + 1
  /\ helper = "body" /\ pipe # <<>> => Head(pipe)[2] > Header

\* A frame is retained exactly while its request is; an idle or finished
\* evaluation holds neither half-sent bytes nor an unread acknowledgement
\* (begin's "output already has a pending write" never happens).
FrameKept ==
  /\ call \in {"idle", "closing", "over"} =>
       ~pending /\ offset = Len(chunk) /\ replies = <<>>
  /\ pending => request # 0
  /\ request # 0 /\ ~pending => call = "cancel"
  /\ call = "over" => helper = "none"

\* Both ends agree on the frame that is under way, and there is at most one.
OneFrame == PartsInStep /\ FrameKept

\* While an evaluation is parked nothing it wrote moves (suspend's stop barrier).
ParkedIsStill == [][call = "parked" /\ call' = "parked" => UNCHANGED <<sink, pipe, replies>>]_vars

-----------------------------------------------------------------------------
(* Liveness.                                                               *)

\* While the helper runs, a write returns when the descriptor takes or refuses its
\* bytes, unless the evaluation was cancelled while parked; and an evaluation always
\* ends with its helper reaped, whether it is idle, stopped or dead (Writer::finish).
\* Cancellation does not depend on the descriptor, which may block for ever
\* (Writer::cancel kills the helper instead of waiting for its write).
OutputReturns ==
  /\ (call = "cancel" ~> call \in {"idle", "over"})
  /\ SinkRuns => /\ (call = "flush" /\ ~cleaning ~> call # "flush")
                 /\ (call = "closing" ~> call = "over")

\* docs/execution.md: "`cancel handle`: Cancel and await cleanup", and "Always
\* attempt remaining cleanup after a failure".  The writes of a release callback
\* return like any other, also when the evaluation was cancelled while parked.
CleanupReturns == call = "flush" /\ cleaning ~> call # "flush"
=============================================================================
