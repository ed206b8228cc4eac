----------------------------- MODULE WriterProofs -----------------------------
(***************************************************************************)
(* Proofs about Writer, for frames of any number and length and for every  *)
(* size of the header, of a chunk and of the transport pipe.               *)
(***************************************************************************)
EXTENDS Writer, SequenceTheorems, TLAPS

-----------------------------------------------------------------------------
(* The inductive invariant.                                                *)

\* The transmission of frame f after its first base bytes begins with s.
Run(s, f, base) == \A k \in 1..Len(s) : s[k] = <<f, base + k>>

\* How much of the retained frame's transmission the coordinator has put into the
\* transport, and how much of it the helper has taken out.
Handed == Header + sent - (Len(chunk) - offset)

Taken ==
  IF helper = "header"
  THEN IF replies = <<>> THEN Len(head) ELSE Header + Length[request]
  ELSE Header + Length[request] - remaining + (IF helper = "body" THEN Len(buffer) ELSE 0)

\* The text bytes of frame f at the descriptor, while f is the last one there.
Arrived(f) ==
  IF sink # <<>> /\ sink[Len(sink)][1] = f THEN sink[Len(sink)][2] ELSE 0

\* What the evaluation awaits, and what it therefore holds.
CallInv ==
  /\ call \in {"idle", "closing", "over"} => ~pending
  /\ call = "flush" => pending
  /\ call = "cancel" => after \in {"idle", "over"}
  /\ call = "over" => helper = "none"
  /\ call = "parked" => halted \/ ~Alive
  /\ at # "none" => call = "flush"
  /\ at \in {"write", "read"} => committed
  /\ at = "read" => offset = Len(chunk)
  /\ ~held => helper = "none"

\* The frame under way is the last one begun, and nothing is said of it yet.
RequestInv ==
  /\ request # 0 => request < next /\ outcome[request] = "none"
  /\ \A f \in Frames : f >= next => outcome[f] = "none"
  /\ \A k \in 1..Len(sink) : sink[k][1] < next
  /\ pending => request # 0
  /\ request # 0 /\ ~pending => call = "cancel"
  /\ ~pending => offset = Len(chunk) /\ replies = <<>>

\* An acknowledgement is unread only while its frame is retained.
ReplyInv ==
  /\ Len(replies) <= 1
  /\ replies # <<>> /\ replies[1] = "ok" => Arrived(request) = Length[request]

\* A helper behind the gate has been sent nothing; one without a frame is waiting
\* for the next header.
RestInv ==
  /\ helper = "gated" =>
       /\ pending /\ ~committed /\ pipe = <<>> /\ replies = <<>>
       /\ Handed = 0 /\ Arrived(request) = 0
  /\ helper \in Working /\ ~pending =>
       helper = "header" /\ head = <<>> /\ pipe = <<>> /\ buffer = <<>> /\ code = "ok"

\* The chunk being sent is the transmission's next part, the pipe holds the part
\* between the two ends, and the buffer the part before the helper's position.
StreamInv ==
  /\ Alive /\ pending =>
       /\ Run(chunk, request, Header + sent - Len(chunk))
       /\ Len(chunk) <= Header + sent
       /\ sent <= Length[request]
  /\ helper \in Working /\ pending =>
       /\ Len(pipe) = Handed - Taken
       /\ Run(pipe, request, Taken)

HelperInv ==
  helper \in Working /\ pending =>
    /\ helper = "header" =>
         /\ Run(head, request, 0) /\ Len(head) < Header
         /\ buffer = <<>> /\ code = "ok"
         /\ replies # <<>> => head = <<>>
    /\ helper # "header" =>
         /\ replies = <<>>
         /\ remaining <= Length[request]
         /\ Run(buffer, request, Taken - Len(buffer))
    /\ helper = "body" => Len(buffer) < remaining /\ Len(buffer) < Chunk
    /\ helper = "write" =>
         buffer # <<>> /\ code = "ok" /\ Len(buffer) <= Length[request] - remaining
    /\ helper = "reply" => remaining = 0 /\ buffer = <<>>
    /\ code = "ok" /\ replies = <<>> =>
         Arrived(request) =
           IF helper = "header" THEN 0 ELSE Taken - Header - Len(buffer)

\* What a helper that is gone has left behind.
LeftInv ==
  /\ \A k \in 1..Len(head) : head[k][2] = k
  /\ \A k \in 1..Len(buffer) : buffer[k][2] > Header

IInv ==
  /\ TypeOK /\ CallInv /\ RequestInv /\ ReplyInv
  /\ RestInv /\ StreamInv /\ HelperInv /\ LeftInv

-----------------------------------------------------------------------------
(* Sequences that are a part of a transmission.                            *)

\* A part grows at its end by the next byte.
LEMMA RunAppend ==
  ASSUME NEW S, NEW s \in Seq(S), NEW f, NEW base \in Int, NEW e \in S,
         Run(s, f, base), e = <<f, base + Len(s) + 1>>
  PROVE  Run(Append(s, e), f, base)
  <1>1. /\ Len(Append(s, e)) = Len(s) + 1 /\ Len(s) \in Nat
        /\ \A k \in 1..Len(s) : Append(s, e)[k] = s[k]
        /\ Append(s, e)[Len(s) + 1] = e
    BY AppendProperties
  <1>2. ASSUME NEW k \in 1..(Len(s) + 1) PROVE Append(s, e)[k] = <<f, base + k>>
    <2>1. CASE k = Len(s) + 1 BY <1>1, <2>1
    <2>2. CASE k \in 1..Len(s) BY <1>1, <2>2 DEF Run
    <2>3. QED BY <1>1, <2>1, <2>2
  <1>3. QED BY <1>1, <1>2 DEF Run

\* A part without its first byte is the part that begins one byte later.
LEMMA RunTail ==
  ASSUME NEW S, NEW s \in Seq(S), NEW f, NEW base \in Int, s # <<>>, Run(s, f, base)
  PROVE  /\ Head(s) = <<f, base + 1>> /\ Head(s) \in S
         /\ Tail(s) \in Seq(S) /\ Len(Tail(s)) = Len(s) - 1
         /\ Run(Tail(s), f, base + 1)
  <1>1. /\ Len(s) \in Nat \ {0} /\ Head(s) = s[1]
        /\ Tail(s) \in Seq(S) /\ Len(Tail(s)) = Len(s) - 1
        /\ \A k \in 1..(Len(s) - 1) : Tail(s)[k] = s[k + 1]
    BY HeadTailProperties, EmptySeq, LenProperties
  <1>2. Head(s) = <<f, base + 1>> BY <1>1 DEF Run
  <1>3. Head(s) \in S BY <1>1, ElementOfSeq
  <1>4. ASSUME NEW k \in 1..(Len(s) - 1) PROVE Tail(s)[k] = <<f, base + 1 + k>>
    <2>1. k + 1 \in 1..Len(s) BY <1>1
    <2>2. s[k + 1] = <<f, base + (k + 1)>> BY <2>1 DEF Run
    <2>3. base + (k + 1) = base + 1 + k OBVIOUS
    <2>4. QED BY <1>1, <2>2, <2>3
  <1>5. QED BY <1>1, <1>2, <1>3, <1>4 DEF Run

\* Two consecutive parts make one.
LEMMA RunConcat ==
  ASSUME NEW S, NEW s \in Seq(S), NEW t \in Seq(S), NEW f, NEW base \in Int,
         Run(s, f, base), Run(t, f, base + Len(s))
  PROVE  Run(s \o t, f, base)
  <1>1. /\ Len(s) \in Nat /\ Len(t) \in Nat /\ Len(s \o t) = Len(s) + Len(t)
        /\ \A k \in 1..(Len(s) + Len(t)) :
             (s \o t)[k] = IF k <= Len(s) THEN s[k] ELSE t[k - Len(s)]
    BY ConcatProperties, LenProperties
  <1>2. ASSUME NEW k \in 1..(Len(s) + Len(t)) PROVE (s \o t)[k] = <<f, base + k>>
    <2>1. CASE k <= Len(s) BY <1>1, <2>1 DEF Run
    <2>2. CASE k > Len(s)
      <3>1. k - Len(s) \in 1..Len(t) BY <1>1, <2>2
      <3>2. t[k - Len(s)] = <<f, base + Len(s) + (k - Len(s))>> BY <3>1 DEF Run
      <3>3. base + Len(s) + (k - Len(s)) = base + k BY <1>1
      <3>4. QED BY <1>1, <2>2, <3>2, <3>3
    <2>3. QED BY <1>1, <2>1, <2>2
  <1>3. QED BY <1>1, <1>2 DEF Run

\* The bytes of a part from one place to another are themselves one.
LEMMA RunSub ==
  ASSUME NEW S, NEW s \in Seq(S), NEW f, NEW base \in Int, Run(s, f, base),
         NEW m \in Nat, NEW n \in Nat \ {0}, m + n <= Len(s)
  PROVE  /\ SubSeq(s, m + 1, m + n) \in Seq(S)
         /\ Len(SubSeq(s, m + 1, m + n)) = n
         /\ Run(SubSeq(s, m + 1, m + n), f, base + m)
  <1>1. /\ Len(s) \in Nat /\ m + 1 \in 1..Len(s) /\ m + n \in (m + 1)..Len(s)
    BY LenProperties
  <1>2. \A k \in (m + 1)..(m + n) : s[k] \in S BY <1>1, ElementOfSeq
  <1>3. /\ SubSeq(s, m + 1, m + n) \in Seq(S)
        /\ Len(SubSeq(s, m + 1, m + n)) = (m + n) - (m + 1) + 1
        /\ \A k \in 1..((m + n) - (m + 1) + 1) :
             SubSeq(s, m + 1, m + n)[k] = s[(m + 1) + k - 1]
    BY <1>1, <1>2, SubSeqProperties
  <1>4. ASSUME NEW k \in 1..n PROVE SubSeq(s, m + 1, m + n)[k] = <<f, base + m + k>>
    <2>1. m + k \in 1..Len(s) BY <1>1
    <2>2. s[m + k] = <<f, base + (m + k)>> BY <2>1 DEF Run
    <2>3. /\ base + (m + k) = base + m + k
          /\ (m + 1) + k - 1 = m + k
          /\ k \in 1..((m + n) - (m + 1) + 1)
      OBVIOUS
    <2>4. QED BY <1>3, <2>2, <2>3
  <1>5. QED BY <1>3, <1>4 DEF Run

\* Headers and text chunks are parts of the transmission, of the right size.
LEMMA ChunkParts ==
  ASSUME NEW f \in Frames, NEW k \in Nat, k <= Length[f]
  PROVE  /\ HeaderChunk(f) \in Seq(Byte) /\ Len(HeaderChunk(f)) = Header
         /\ Run(HeaderChunk(f), f, 0)
         /\ TextChunk(f, k) \in Seq(Byte) /\ Len(TextChunk(f, k)) <= Chunk
         /\ k + Len(TextChunk(f, k)) <= Length[f]
         /\ Run(TextChunk(f, k), f, Header + k)
  <1>1. Length[f] \in Nat BY Lengths, ElementOfSeq DEF Frames
  <1>2. ASSUME NEW n \in Nat, NEW base \in Nat
        PROVE  /\ [i \in 1..n |-> <<f, base + i>>] \in Seq(Byte)
               /\ Len([i \in 1..n |-> <<f, base + i>>]) = n
               /\ Run([i \in 1..n |-> <<f, base + i>>], f, base)
    <2>1. \A i \in 1..n : <<f, base + i>> \in Byte BY DEF Byte
    <2>2. [i \in 1..n |-> <<f, base + i>>] \in Seq(Byte) BY <2>1, IsASeq
    <2>3. Len([i \in 1..n |-> <<f, base + i>>]) = n BY <2>2, LenProperties
    <2>4. QED BY <2>2, <2>3 DEF Run
  <1>3. HeaderChunk(f) = [i \in 1..Header |-> <<f, 0 + i>>] BY DEF HeaderChunk
  <1>4. PICK n \in Nat :
          /\ n <= Chunk /\ k + n <= Length[f]
          /\ TextChunk(f, k) = [i \in 1..n |-> <<f, Header + k + i>>]
    BY <1>1, Sizes DEF TextChunk
  <1>5. /\ HeaderChunk(f) \in Seq(Byte) /\ Len(HeaderChunk(f)) = Header
        /\ Run(HeaderChunk(f), f, 0)
    <2>1. Header \in Nat /\ 0 \in Nat BY Sizes
    <2>2. QED BY <1>2, <1>3, <2>1
  <1>6. /\ TextChunk(f, k) \in Seq(Byte) /\ Len(TextChunk(f, k)) = n
        /\ Run(TextChunk(f, k), f, Header + k)
    <2>1. Header + k \in Nat BY Sizes
    <2>2. QED BY <1>2, <1>4, <2>1
  <1>7. QED BY <1>4, <1>5, <1>6

-----------------------------------------------------------------------------
(* What the invariant says of lengths and positions.                       *)

\* Frames are numbered from one.
LEMMA FrameNumbers ==
  /\ Len(Length) \in Nat /\ Frames = 1..Len(Length)
  /\ \A f \in Frames : f \in Nat \ {0} /\ Length[f] \in Nat
  <1>1. Len(Length) \in Nat /\ Frames = 1..Len(Length)
    BY Lengths, LenProperties DEF Frames
  <1>2. QED BY <1>1, Lengths, ElementOfSeq

\* Every byte at the descriptor belongs to a frame that was begun.
LEMMA SinkFrames ==
  ASSUME IInv
  PROVE  /\ Len(sink) \in Nat /\ (sink # <<>> => Len(sink) \in 1..Len(sink))
         /\ \A k \in 1..Len(sink) : sink[k][1] \in Nat /\ sink[k][2] \in Int
         /\ \A f \in Frames : Arrived(f) \in Int /\ (f >= next => Arrived(f) = 0)
  <1>1. sink \in Seq(Frames \X Int) BY DEF IInv, TypeOK
  <1>2. Len(sink) \in Nat /\ (sink # <<>> => Len(sink) \in 1..Len(sink))
    BY <1>1, LenProperties, EmptySeq
  <1>3. \A k \in 1..Len(sink) : sink[k][1] \in Frames /\ sink[k][2] \in Int
    BY <1>1, ElementOfSeq
  <1>4. \A k \in 1..Len(sink) : sink[k][1] < next BY DEF IInv, RequestInv
  <1>5. next \in Nat BY FrameNumbers DEF IInv, TypeOK
  <1>6. ASSUME NEW f \in Frames
        PROVE  Arrived(f) \in Int /\ (f >= next => Arrived(f) = 0)
    BY <1>2, <1>3, <1>4, <1>5, FrameNumbers DEF Arrived
  <1>7. QED BY <1>2, <1>3, <1>6, FrameNumbers

\* Lengths and positions are numbers.
LEMMA Numbers ==
  ASSUME IInv
  PROVE  /\ Header \in Nat \ {0} /\ Chunk \in Nat \ {0} /\ Header <= Chunk
         /\ Len(pipe) \in Nat /\ Len(head) \in Nat /\ Len(buffer) \in Nat
         /\ Len(chunk) \in Nat /\ Len(replies) \in Nat /\ Len(sink) \in Nat
         /\ sent \in Nat /\ offset \in Nat /\ offset <= Len(chunk) /\ remaining \in Nat
         /\ Handed \in Int
         /\ request # 0 => request \in Frames /\ Length[request] \in Nat /\ Taken \in Int
         /\ pending => request # 0
  <1>1. /\ pipe \in Seq(Byte) /\ head \in Seq(Byte) /\ buffer \in Seq(Byte)
        /\ chunk \in Seq(Byte) /\ replies \in Seq({"ok", "bad"})
        /\ sink \in Seq(Frames \X Int)
        /\ sent \in Nat /\ offset \in 0..Len(chunk) /\ remaining \in Nat
        /\ request \in Frames \cup {0}
    BY DEF IInv, TypeOK
  <1>2. /\ Len(pipe) \in Nat /\ Len(head) \in Nat /\ Len(buffer) \in Nat
        /\ Len(chunk) \in Nat /\ Len(replies) \in Nat /\ Len(sink) \in Nat
    BY <1>1, LenProperties
  <1>3. request # 0 => request \in Frames /\ Length[request] \in Nat
    BY <1>1, Lengths, ElementOfSeq DEF Frames
  <1>4. Header \in Nat \ {0} /\ Chunk \in Nat \ {0} /\ Header <= Chunk BY Sizes
  <1>5. offset \in Nat /\ offset <= Len(chunk) BY <1>1, <1>2
  <1>6. Handed \in Int BY <1>1, <1>2, <1>4, <1>5 DEF Handed
  <1>7. request # 0 => Taken \in Int BY <1>1, <1>2, <1>3, <1>4 DEF Taken
  <1>8. pending => request # 0 BY DEF IInv, RequestInv
  <1>9. QED BY <1>1, <1>2, <1>3, <1>4, <1>5, <1>6, <1>7, <1>8

\* No more than the frame's transmission is handed to the transport.
LEMMA HandedBound ==
  ASSUME IInv, Alive, pending
  PROVE  Handed <= Header + Length[request]
  <1>1. sent <= Length[request] BY DEF IInv, StreamInv
  <1>2. /\ sent \in Nat /\ Header \in Nat /\ offset \in Nat /\ Len(chunk) \in Nat
        /\ offset <= Len(chunk) /\ Length[request] \in Nat
    BY Numbers DEF IInv, RequestInv
  <1>3. Header + sent - (Len(chunk) - offset) <= Header + Length[request]
    BY <1>1, <1>2
  <1>4. QED BY <1>3 DEF Handed

\* What is in the pipe belongs to a retained frame that is not acknowledged, and
\* its first byte is the next one of its transmission.
LEMMA PipeHead ==
  ASSUME IInv, helper \in Working, pipe # <<>>
  PROVE  /\ pending /\ request \in Frames /\ replies = <<>>
         /\ Head(pipe) = <<request, Taken + 1>> /\ Head(pipe) \in Byte
         /\ Tail(pipe) \in Seq(Byte) /\ Len(Tail(pipe)) = Len(pipe) - 1
         /\ Run(Tail(pipe), request, Taken + 1)
  <1>1. pending BY DEF IInv, RestInv
  <1>2. request \in Frames /\ Taken \in Int BY <1>1, Numbers
  <1>3. pipe \in Seq(Byte) /\ Run(pipe, request, Taken) BY <1>1 DEF IInv, TypeOK, StreamInv
  <1>4. replies = <<>>
    <2>1. Len(pipe) > 0 BY <1>3, EmptySeq, LenProperties
    <2>2. Len(pipe) = Handed - Taken BY <1>1 DEF IInv, StreamInv
    <2>3. Handed <= Header + Length[request] BY <1>1, HandedBound DEF Alive
    <2>4. replies # <<>> => helper = "header" BY <1>1 DEF IInv, HelperInv
    <2>5. replies # <<>> => Taken = Header + Length[request] BY <2>4 DEF Taken
    <2>6. QED BY <1>1, <2>1, <2>2, <2>3, <2>5, Numbers
  <1>5. QED BY <1>1, <1>2, <1>3, <1>4, RunTail

-----------------------------------------------------------------------------
(* The invariant holds initially.                                          *)

\* The writer starts inside the invariant.
LEMMA WriterInit == Init => IInv
  <1> SUFFICES ASSUME Init PROVE IInv OBVIOUS
  <1>1. /\ <<>> \in Seq(Byte) /\ <<>> \in Seq({"ok", "bad"})
        /\ <<>> \in Seq(Frames \X Int) /\ Len(<<>>) = 0
    OBVIOUS
  <1>2. Len(Length) \in Nat BY Lengths, LenProperties
  <1>3. TypeOK
    <2>1. /\ 0 <= Header /\ 0 <= Chunk /\ 0 <= Capacity /\ 0 \in 0..0
          /\ 1 \in 1..(Len(Length) + 1)
      BY <1>2, Sizes
    <2>2. outcome \in [Frames -> {"none", "ok", "error"}] BY DEF Init
    <2>3. QED BY <1>1, <2>1, <2>2 DEF Init, TypeOK
  <1>4. CallInv BY <1>1 DEF Init, CallInv, Alive, Working
  <1>5. RequestInv BY <1>1 DEF Init, RequestInv
  <1>6. ReplyInv BY <1>1 DEF Init, ReplyInv
  <1>7. RestInv /\ StreamInv /\ HelperInv
    BY DEF Init, RestInv, StreamInv, HelperInv, Working, Alive
  <1>8. LeftInv BY <1>1 DEF Init, LeftInv
  <1>9. QED BY <1>3, <1>4, <1>5, <1>6, <1>7, <1>8 DEF IInv

-----------------------------------------------------------------------------
(* Steps that move no byte.                                                *)

byteVars == <<helper, head, remaining, buffer, code, pipe, replies, sink, committed,
              pending, sent, chunk, offset, request, next, outcome>>

\* What is said of bytes depends on nothing else.
LEMMA BytesKept ==
  ASSUME IInv, UNCHANGED byteVars
  PROVE  ReplyInv' /\ RestInv' /\ StreamInv' /\ HelperInv' /\ LeftInv'
  <1>1. ReplyInv' BY DEF IInv, byteVars, ReplyInv, Arrived
  <1>2. RestInv' BY DEF IInv, byteVars, RestInv, Handed, Arrived
  <1>3. StreamInv' BY DEF IInv, byteVars, StreamInv, Handed, Taken, Alive, Run
  <1>4. HelperInv' BY DEF IInv, byteVars, HelperInv, Taken, Run, Arrived
  <1>5. LeftInv' BY DEF IInv, byteVars, LeftInv
  <1>6. QED BY <1>1, <1>2, <1>3, <1>4, <1>5

\* The calls that only change what is awaited.
LEMMA QuietStep ==
  ASSUME IInv,
         \/ HelperStops \/ CommitFails \/ FlushEnds \/ Finish \/ FinishCancels
         \/ Interrupt \/ Stop \/ Freeze \/ Frozen \/ Resume \/ CancelParked \/ NextEntry
  PROVE  IInv'
  <1> USE DEF HelperStops, CommitFails, FlushEnds, Finish, FinishCancels, Interrupt,
              Stop, Freeze, Frozen, Resume, CancelParked, NextEntry, StartCancel,
              helperVars, transportVars, evaluationVars
  <1>1. UNCHANGED byteVars BY DEF byteVars
  <1>2. TypeOK'
    <2>1. /\ halted' \in BOOLEAN /\ inputOpen' \in BOOLEAN /\ cleaning' \in BOOLEAN
          /\ held' = held
      BY DEF IInv, TypeOK
    <2>2. /\ call' \in {"idle", "flush", "stopping", "freezing", "parked", "cancel",
                        "closing", "over"}
          /\ at' \in {"none", "commit", "write", "read"}
          /\ after' \in {"none", "idle", "over"}
      BY DEF IInv, TypeOK, Retained
    <2>3. QED BY <1>1, <2>1, <2>2 DEF IInv, TypeOK, byteVars
  <1>3. CallInv'
    <2>1. CASE CommitFails \/ FlushEnds \/ FinishCancels \/ Interrupt
      BY <2>1 DEF IInv, CallInv, RequestInv, Alive
    <2>2. CASE Finish \/ NextEntry
      BY <2>2 DEF IInv, CallInv, RequestInv, Alive
    <2>3. CASE HelperStops \/ Stop \/ Freeze \/ Frozen
      BY <2>3 DEF IInv, CallInv, RequestInv, Alive, Working
    <2>4. CASE Resume
      BY <2>4, Numbers DEF IInv, CallInv, RequestInv, Alive, Retained
    <2>5. CASE CancelParked
      BY <2>5 DEF IInv, CallInv, RequestInv, Alive
    <2>6. QED BY <2>1, <2>2, <2>3, <2>4, <2>5
  <1>4. RequestInv'
    <2>1. request' # 0 /\ ~pending' => call' = "cancel"
      BY DEF IInv, RequestInv, CallInv
    <2>2. QED BY <1>1, <2>1 DEF IInv, RequestInv, byteVars
  <1>5. QED BY <1>1, <1>2, <1>3, <1>4, BytesKept DEF IInv

-----------------------------------------------------------------------------
(* The helper goes, or its writer does.                                    *)

\* A helper that is not alive is owed nothing: only what was said stays true.
LEMMA GoneKeeps ==
  ASSUME IInv, ~Alive', UNCHANGED <<head, buffer>>
  PROVE  RestInv' /\ StreamInv' /\ HelperInv' /\ LeftInv'
  BY DEF IInv, RestInv, StreamInv, HelperInv, LeftInv, Alive, Working

\* The helper is killed or leaves, and the coordinator notices in the midst of a
\* chunk.
LEMMA LeavesStep ==
  ASSUME IInv, HelperKilled \/ HelperLeaves \/ FlushBroken
  PROVE  IInv'
  <1> USE DEF HelperKilled, HelperLeaves, FlushBroken, StartCancel,
              helperVars, transportVars, evaluationVars
  <1>1. helper' = "ended" /\ UNCHANGED <<head, buffer, replies, sink, request, next,
                                         outcome, pending>>
    OBVIOUS
  <1>2. TypeOK'
    <2>1. chunk' \in Seq(Byte) /\ Len(chunk') <= Chunk /\ offset' \in 0..Len(chunk')
      <3>1. <<>> \in Seq(Byte) /\ Len(<<>>) = 0 /\ 0 <= Chunk /\ 0 \in 0..0 BY Sizes
      <3>2. CASE FlushBroken BY <3>1, <3>2
      <3>3. CASE UNCHANGED <<chunk, offset>> BY <3>3 DEF IInv, TypeOK
      <3>4. QED BY <3>2, <3>3
    <2>2. /\ inputOpen' \in BOOLEAN /\ halted' \in BOOLEAN
          /\ call' \in {call, "cancel"} /\ at' \in {at, "none"} /\ after' \in {after, "idle"}
      BY DEF IInv, TypeOK
    <2>3. UNCHANGED <<remaining, code, pipe, held, committed, sent, cleaning>> OBVIOUS
    <2>4. QED BY <1>1, <2>1, <2>2, <2>3 DEF IInv, TypeOK
  <1>3. CallInv'
    <2>1. CASE FlushBroken BY <2>1 DEF IInv, CallInv, Alive, Working
    <2>2. CASE HelperKilled \/ HelperLeaves
      BY <2>2 DEF IInv, CallInv, Alive, Working, Steps
    <2>3. QED BY <2>1, <2>2
  <1>4. RequestInv'
    <2>1. CASE FlushBroken BY <2>1 DEF IInv, RequestInv, CallInv
    <2>2. CASE HelperKilled \/ HelperLeaves BY <2>2 DEF IInv, RequestInv
    <2>3. QED BY <2>1, <2>2
  <1>5. ReplyInv' BY <1>1 DEF IInv, ReplyInv, Arrived
  <1>6. ~Alive' BY <1>1 DEF Alive, Working
  <1>7. QED BY <1>1, <1>2, <1>3, <1>4, <1>5, <1>6, GoneKeeps DEF IInv

\* A writer whose helper was reaped is dropped with its pipes, and its request
\* has failed.
LEMMA DroppedStep ==
  ASSUME IInv, Cancelled \/ Finished
  PROVE  IInv'
  <1> USE DEF Cancelled, Finished
  <1>1. /\ helper' = "none" /\ held' = FALSE /\ pipe' = <<>> /\ replies' = <<>>
        /\ UNCHANGED <<head, buffer, sink, next>>
    OBVIOUS
  <1>2. call' \in {"idle", "over"} BY DEF IInv, CallInv
  <1>3. /\ outcome' \in [Frames -> {"none", "ok", "error"}]
        /\ \A f \in Frames : f >= next => outcome'[f] = "none"
    <2>1. CASE request = 0 \/ outcome' = outcome
      BY <2>1 DEF IInv, TypeOK, RequestInv
    <2>2. CASE request # 0 /\ outcome' = [outcome EXCEPT ![request] = "error"]
      <3>1. request \in Frames /\ request < next BY <2>2 DEF IInv, TypeOK, RequestInv
      <3>2. next \in Nat BY FrameNumbers DEF IInv, TypeOK
      <3>3. \A f \in Frames : f >= next => f # request BY <3>1, <3>2, FrameNumbers
      <3>4. QED BY <2>2, <3>1, <3>3 DEF IInv, TypeOK, RequestInv
    <2>3. QED BY <2>1, <2>2
  <1>4. at' # "none" => FALSE BY DEF IInv, CallInv
  <1>5. ~pending' /\ request' = 0 /\ offset' = Len(chunk')
    BY DEF IInv, CallInv, RequestInv
  <1>6. TypeOK'
    <2>1. /\ <<>> \in Seq(Byte) /\ <<>> \in Seq({"ok", "bad"}) /\ Len(<<>>) = 0
          /\ 0 <= Chunk /\ 0 <= Capacity
      BY Sizes
    <2>2. chunk' \in Seq(Byte) /\ Len(chunk') <= Chunk /\ offset' \in 0..Len(chunk')
      <3>1. CASE Cancelled
        <4>1. chunk' = <<>> /\ offset' = 0 BY <3>1
        <4>2. QED BY <2>1, <4>1
      <3>2. CASE Finished BY <3>2 DEF IInv, TypeOK
      <3>3. QED BY <3>1, <3>2
    <2>3. after' \in {"none", "idle", "over"} /\ halted' \in BOOLEAN /\ pending' \in BOOLEAN
      BY DEF IInv, TypeOK
    <2>4. QED BY <1>1, <1>2, <1>3, <1>5, <2>1, <2>2, <2>3 DEF IInv, TypeOK
  <1>7. CallInv' BY <1>1, <1>2, <1>4, <1>5 DEF CallInv
  <1>8. RequestInv' BY <1>1, <1>3, <1>5 DEF IInv, RequestInv
  <1>9. ReplyInv'
    <2>1. Len(<<>>) = 0 OBVIOUS
    <2>2. QED BY <1>1, <2>1 DEF ReplyInv
  <1>10. ~Alive' BY <1>1 DEF Alive, Working
  <1>11. QED BY <1>1, <1>6, <1>7, <1>8, <1>9, <1>10, GoneKeeps DEF IInv

\* The request fails before a helper exists.
LEMMA OutputFailsStep ==
  ASSUME IInv, OutputFails
  PROVE  IInv'
  <1> USE DEF OutputFails, helperVars, transportVars
  <1>1. next \in Nat /\ next \in Frames /\ next' = next + 1 /\ next' \in 1..(Len(Length) + 1)
    BY FrameNumbers DEF IInv, TypeOK
  <1>2. helper = "none" BY DEF IInv, CallInv
  <1>3. outcome' = [outcome EXCEPT ![next] = "error"] OBVIOUS
  <1>4. TypeOK' BY <1>1, <1>3 DEF IInv, TypeOK
  <1>5. CallInv' BY DEF IInv, CallInv, Alive
  <1>6. RequestInv'
    <2>1. request = 0 BY DEF IInv, CallInv, RequestInv
    <2>2. \A f \in Frames : f >= next' => outcome'[f] = "none"
      <3>1. \A f \in Frames : f >= next' => f >= next /\ f # next BY <1>1, FrameNumbers
      <3>2. QED BY <1>1, <1>3, <3>1 DEF IInv, TypeOK, RequestInv
    <2>3. \A k \in 1..Len(sink) : sink[k][1] < next'
      BY <1>1, SinkFrames DEF IInv, RequestInv
    <2>4. QED BY <2>1, <2>2, <2>3 DEF IInv, RequestInv
  <1>7. ReplyInv' BY DEF IInv, ReplyInv, Arrived
  <1>8. ~Alive' BY <1>2 DEF Alive, Working
  <1>9. QED BY <1>4, <1>5, <1>6, <1>7, <1>8, GoneKeeps DEF IInv

\* The gate is opened: the helper begins with nothing read.
LEMMA StartsStep ==
  ASSUME IInv, HelperStarts \/ Committed
  PROVE  IInv'
  <1> USE DEF HelperStarts, Committed, Steps, helperVars, transportVars, evaluationVars
  <1>1. TypeOK'
    <2>1. <<>> \in Seq(Byte) /\ Len(<<>>) = 0 /\ 0 <= Header /\ 0 <= Chunk BY Sizes
    <2>2. CASE HelperStarts BY <2>1, <2>2 DEF IInv, TypeOK, Working
    <2>3. CASE Committed BY <2>3 DEF IInv, TypeOK
    <2>4. QED BY <2>2, <2>3
  <1>2. CallInv' BY DEF IInv, CallInv, Alive, Working
  <1>3. RequestInv' BY DEF IInv, RequestInv
  <1>4. ReplyInv' BY DEF IInv, ReplyInv, Arrived
  <1>5. CASE Committed
    <2>1. RestInv' BY <1>5 DEF IInv, RestInv, Handed, Working
    <2>2. StreamInv' BY <1>5 DEF IInv, StreamInv, Handed, Taken, Alive, Run
    <2>3. HelperInv' BY <1>5 DEF IInv, HelperInv, Taken, Run, Arrived
    <2>4. LeftInv' BY <1>5 DEF IInv, LeftInv
    <2>5. QED BY <1>1, <1>2, <1>3, <1>4, <2>1, <2>2, <2>3, <2>4 DEF IInv
  <1>6. CASE HelperStarts
    <2>1. /\ pending /\ ~committed /\ pipe = <<>> /\ replies = <<>> /\ Handed = 0
          /\ Alive /\ request # 0
      BY <1>6 DEF IInv, RestInv, RequestInv, Alive
    <2>2. /\ head' = <<>> /\ buffer' = <<>> /\ code' = "ok" /\ helper' = "header"
          /\ pipe' = <<>> /\ replies' = <<>> /\ Handed' = 0
          /\ UNCHANGED <<sink, request, pending, sent, chunk, offset, next>>
      BY <1>6, <2>1 DEF Handed
    <2>3. Len(<<>>) = 0 OBVIOUS
    <2>4. Taken' = 0 BY <2>2, <2>3 DEF Taken
    <2>5. RestInv' BY <2>1, <2>2 DEF RestInv
    <2>6. StreamInv'
      BY <2>1, <2>2, <2>3, <2>4 DEF IInv, StreamInv, Alive, Run
    <2>7. Arrived(request) = 0 BY <1>6 DEF IInv, RestInv
    <2>8. HelperInv'
      BY <2>2, <2>3, <2>7, Numbers DEF HelperInv, Run, Arrived
    <2>9. LeftInv' BY <2>2, <2>3 DEF LeftInv
    <2>10. QED BY <1>1, <1>2, <1>3, <1>4, <2>5, <2>6, <2>8, <2>9 DEF IInv
  <1>7. QED BY <1>5, <1>6

-----------------------------------------------------------------------------
(* The helper reads, writes and answers.                                   *)

\* The transport and the evaluation are not the worker's to change.
workerFrame == <<halted, held, inputOpen, committed, pending, sent, chunk, offset,
                 call, at, after, cleaning, request, next, outcome>>

\* A step of the working helper changes nothing that calls depend on.
LEMMA WorkerCalls ==
  ASSUME IInv, helper \in Working, helper' \in Working,
         UNCHANGED workerFrame
  PROVE  CallInv'
  BY DEF IInv, CallInv, Alive, Working, workerFrame

\* A type-correct step of the working helper.
LEMMA WorkerTypes ==
  ASSUME IInv, UNCHANGED workerFrame,
         helper' \in Working,
         head' \in Seq(Byte), Len(head') <= Header, remaining' \in Nat,
         buffer' \in Seq(Byte), Len(buffer') <= Chunk, code' \in {"ok", "bad"},
         pipe' \in Seq(Byte), Len(pipe') <= Capacity,
         replies' \in Seq({"ok", "bad"}), sink' \in Seq(Frames \X Int)
  PROVE  TypeOK'
  BY DEF IInv, TypeOK, workerFrame

\* The helper pulls bytes into its header buffer.
LEMMA ReadsHeaderStep ==
  ASSUME IInv, HelperReadsHeader
  PROVE  IInv'
  <1>1. /\ helper = "header" /\ helper \in Working /\ pipe # <<>>
        /\ head' = Append(head, Head(pipe)) /\ pipe' = Tail(pipe)
        /\ UNCHANGED <<buffer, code, replies, sink>> /\ UNCHANGED workerFrame
    BY DEF HelperReadsHeader, Steps, transportVars, evaluationVars, workerFrame, Working
  <1>2. IF Len(head') = Header
        THEN /\ remaining' \in Decoded(head')
             /\ helper' = IF remaining' = 0 THEN "reply" ELSE "body"
        ELSE UNCHANGED <<remaining, helper>>
    BY DEF HelperReadsHeader, AfterChunk
  <1>3. /\ pending /\ request \in Frames /\ replies = <<>>
        /\ Head(pipe) = <<request, Taken + 1>> /\ Head(pipe) \in Byte
        /\ pipe' \in Seq(Byte) /\ Len(pipe') = Len(pipe) - 1
        /\ Run(pipe', request, Taken + 1)
    BY <1>1, PipeHead
  <1>4. /\ Taken = Len(head) /\ head \in Seq(Byte) /\ buffer \in Seq(Byte)
        /\ Run(head, request, 0) /\ Len(head) < Header /\ buffer = <<>> /\ code = "ok"
        /\ Arrived(request) = 0
    BY <1>1, <1>3 DEF IInv, TypeOK, HelperInv, Taken
  <1>5. /\ Length[request] \in Nat /\ Len(<<>>) = 0
        /\ Len(head) \in Nat /\ Header \in Nat /\ Len(pipe) \in Nat /\ Handed \in Int
    BY <1>3, FrameNumbers, Numbers
  <1>6. /\ head' \in Seq(Byte) /\ Len(head') = Len(head) + 1 /\ Len(head') <= Header
        /\ Run(head', request, 0)
    <2>1. Head(pipe) = <<request, 0 + Len(head) + 1>> BY <1>3, <1>4, <1>5
    <2>2. 0 \in Int /\ Run(head, request, 0) BY <1>4
    <2>3. Run(Append(head, Head(pipe)), request, 0) BY <1>3, <1>4, <2>1, <2>2, RunAppend, Zenon
    <2>4. QED BY <1>1, <1>3, <1>4, <1>5, <2>3, AppendProperties
  <1>7. Handed' = Handed /\ Arrived(request)' = 0
    BY <1>1, <1>4 DEF Handed, Arrived, workerFrame
  <1>8. Taken' = Taken + 1 /\ remaining' \in Nat /\ helper' \in Working /\ HelperInv'
    <2>1. CASE Len(head') # Header
      <3>1. UNCHANGED <<remaining, helper>> /\ Len(head') < Header
        BY <1>2, <1>5, <1>6, <2>1
      <3>2. Taken' = Taken + 1 BY <1>1, <1>3, <1>4, <1>6, <3>1 DEF Taken
      <3>3. HelperInv'
        BY <1>1, <1>3, <1>4, <1>6, <1>7, <3>1 DEF HelperInv, workerFrame
      <3>4. QED BY <1>1, <3>1, <3>2, <3>3 DEF IInv, TypeOK
    <2>2. CASE Len(head') = Header
      <3>1. head' = [k \in 1..Header |-> <<request, k>>]
        <4>1. head' = [k \in 1..Len(head') |-> head'[k]] BY <1>6, LenProperties
        <4>2. \A k \in 1..Header : head'[k] = <<request, k>>
          BY <1>6, <2>2 DEF Run
        <4>3. QED BY <2>2, <4>1, <4>2
      <3>2. remaining' = Length[request] BY <1>2, <1>3, <2>2, <3>1 DEF Decoded
      <3>3. helper' = (IF Length[request] = 0 THEN "reply" ELSE "body") BY <1>2, <2>2, <3>2
      <3>4. Taken' = Header /\ Header = Taken + 1
        BY <1>1, <1>4, <1>5, <1>6, <2>2, <3>2, <3>3 DEF Taken, workerFrame
      <3>5. Run(<<>>, request, Header) BY <1>5 DEF Run
      <3>6. HelperInv'
        <4>1. /\ helper' # "header" /\ helper' # "write" /\ buffer' = <<>> /\ replies' = <<>>
              /\ request' = request /\ Len(buffer') = 0 /\ Taken' - Len(buffer') = Header
              /\ 0 < Chunk
          BY <1>1, <1>3, <1>4, <1>5, <3>3, <3>4, Numbers DEF workerFrame
        <4>2. Run(buffer', request', Taken' - Len(buffer')) BY <3>5, <4>1
        <4>3. Arrived(request)' = Taken' - Header - Len(buffer')
          BY <1>5, <1>7, <3>4, <4>1
        <4>4. /\ remaining' <= Length[request']
              /\ helper' = "body" => Len(buffer') < remaining' /\ Len(buffer') < Chunk
              /\ helper' = "reply" => remaining' = 0
          BY <1>5, <3>2, <3>3, <4>1
        <4>5. QED BY <4>1, <4>2, <4>3, <4>4 DEF HelperInv
      <3>7. QED BY <1>5, <3>2, <3>3, <3>4, <3>6 DEF Working
    <2>3. QED BY <2>1, <2>2
  <1>9. TypeOK'
    <2>1. Len(pipe') <= Capacity BY <1>3, <1>5, Sizes DEF IInv, TypeOK
    <2>2. code' \in {"ok", "bad"} /\ replies' \in Seq({"ok", "bad"})
          /\ sink' \in Seq(Frames \X Int) /\ Len(buffer') <= Chunk
      BY <1>1 DEF IInv, TypeOK
    <2>3. QED BY <1>1, <1>3, <1>4, <1>6, <1>8, <2>1, <2>2, WorkerTypes
  <1>10. CallInv' BY <1>1, <1>8, WorkerCalls
  <1>11. RequestInv' /\ ReplyInv'
    BY <1>1 DEF IInv, RequestInv, ReplyInv, Arrived, workerFrame
  <1>12. RestInv' BY <1>1, <1>3, <1>8 DEF RestInv, workerFrame, Working
  <1>13. StreamInv'
    <2>1. Len(pipe) = Handed - Taken BY <1>1, <1>3 DEF IInv, StreamInv
    <2>2. Len(pipe') = Handed' - Taken' BY <1>3, <1>4, <1>5, <1>7, <1>8, <2>1
    <2>3. Run(pipe', request', Taken') BY <1>1, <1>3, <1>8 DEF workerFrame
    <2>4. QED BY <1>1, <1>3, <2>2, <2>3 DEF IInv, StreamInv, Alive, workerFrame
  <1>14. LeftInv' BY <1>1, <1>4, <1>5, <1>6 DEF LeftInv, Run
  <1>15. QED BY <1>9, <1>10, <1>11, <1>12, <1>13, <1>14, <1>8 DEF IInv

\* The helper pulls bytes into its chunk buffer.
LEMMA ReadsTextStep ==
  ASSUME IInv, HelperReadsText
  PROVE  IInv'
  <1>0. PICK text, left, length, from :
          /\ text = Append(buffer, Head(pipe))
          /\ left = remaining - Len(text)
          /\ length = Length[request]
          /\ from = Header + length - remaining
    OBVIOUS
  <1> DEFINE whole == Len(text) = remaining \/ Len(text) = Chunk
  <1>1. /\ helper = "body" /\ helper \in Working /\ pipe # <<>> /\ pipe' = Tail(pipe)
        /\ UNCHANGED <<head, code, replies, sink>> /\ UNCHANGED workerFrame
    BY DEF HelperReadsText, Steps, transportVars, evaluationVars, workerFrame, Working
  <1>2. /\ ~whole => buffer' = text /\ UNCHANGED <<helper, remaining>>
        /\ whole /\ code = "ok" => remaining' = left /\ helper' = "write" /\ buffer' = text
        /\ whole /\ code # "ok" =>
             /\ remaining' = left /\ buffer' = <<>>
             /\ helper' = IF left = 0 THEN "reply" ELSE "body"
    BY <1>0 DEF HelperReadsText, AfterChunk
  <1>3. /\ pending /\ request \in Frames /\ replies = <<>>
        /\ Head(pipe) = <<request, Taken + 1>> /\ Head(pipe) \in Byte
        /\ pipe' \in Seq(Byte) /\ Len(pipe') = Len(pipe) - 1
        /\ Run(pipe', request, Taken + 1)
    BY <1>1, PipeHead
  <1>4. /\ buffer \in Seq(Byte) /\ remaining <= length
        /\ Run(buffer, request, Taken - Len(buffer))
        /\ Len(buffer) < remaining /\ Len(buffer) < Chunk
        /\ Taken = Header + length - remaining + Len(buffer)
        /\ code = "ok" => Arrived(request) = Taken - Header - Len(buffer)
    BY <1>0, <1>1, <1>3 DEF IInv, TypeOK, HelperInv, Taken
  <1>5. /\ length \in Nat /\ Taken \in Int /\ Arrived(request) \in Int
        /\ Len(buffer) \in Nat /\ remaining \in Nat /\ Chunk \in Nat /\ Header \in Nat
        /\ Len(pipe) \in Nat /\ Handed \in Int /\ from \in Int
    <2>1. length \in Nat BY <1>0, <1>3, FrameNumbers
    <2>2. /\ Taken \in Int /\ Len(buffer) \in Nat /\ remaining \in Nat /\ Chunk \in Nat
          /\ Header \in Nat /\ Len(pipe) \in Nat /\ Handed \in Int
      BY <1>3, Numbers
    <2>3. Arrived(request) \in Int BY <1>3, SinkFrames
    <2>4. from \in Int BY <1>0, <2>1, <2>2
    <2>5. QED BY <2>1, <2>2, <2>3, <2>4
  <1>6. /\ text \in Seq(Byte) /\ Len(text) = Len(buffer) + 1 /\ Run(text, request, from)
    <2>1. Taken - Len(buffer) = from BY <1>0, <1>4, <1>5
    <2>2. Head(pipe) = <<request, from + Len(buffer) + 1>> BY <1>3, <1>5, <2>1
    <2>3. Run(buffer, request, from) BY <1>4, <2>1
    <2>4. Run(text, request, from)
      BY <1>0, <1>3, <1>4, <1>5, <2>2, <2>3, RunAppend, Zenon
    <2>5. QED BY <1>0, <1>3, <1>4, <2>4, AppendProperties
  <1>7. /\ Len(text) \in Nat /\ Len(text) <= remaining /\ Len(text) <= Chunk
        /\ Len(text) > 0 /\ text # <<>>
        /\ left \in Nat /\ left <= length /\ Len(text) = remaining - left
        /\ Len(text) <= length - left
    <2>1. Len(text) \in Nat /\ Len(text) <= remaining /\ Len(text) <= Chunk /\ Len(text) > 0
      BY <1>4, <1>5, <1>6
    <2>2. text # <<>>
      <3>1. Len(<<>>) = 0 OBVIOUS
      <3>2. QED BY <2>1, <3>1
    <2>3. left \in Nat /\ left = remaining - Len(text) BY <1>0, <1>5, <2>1
    <2>4. QED BY <1>4, <1>5, <2>1, <2>2, <2>3
  <1>8. /\ Handed' = Handed /\ Arrived(request)' = Arrived(request) /\ request' = request
        /\ replies' = replies
    BY <1>1 DEF Handed, Arrived, workerFrame
  <1>e. <<>> \in Seq(Byte) /\ Len(<<>>) = 0 OBVIOUS
  <1>9. /\ Taken' = Taken + 1 /\ remaining' \in Nat /\ helper' \in {"body", "write", "reply"}
        /\ buffer' \in {text, <<>>} /\ HelperInv'
    <2>1. CASE ~whole
      <3>1. buffer' = text /\ helper' = "body" /\ remaining' = remaining
        BY <1>1, <1>2, <2>1
      <3>2. Len(text) < remaining /\ Len(text) < Chunk BY <1>5, <1>7, <2>1
      <3>3. /\ Taken' = Taken + 1 /\ Taken' - Len(buffer') = from
        <4>1. Taken' = Header + length - remaining + Len(text)
          BY <1>0, <1>8, <3>1 DEF Taken
        <4>2. Taken' = Taken + 1 BY <1>4, <1>5, <1>6, <4>1
        <4>3. Taken' - Len(text) = from BY <1>0, <1>5, <1>7, <4>1
        <4>4. QED BY <3>1, <4>2, <4>3
      <3>4. code' = "ok" => Arrived(request)' = Taken' - Header - Len(buffer')
        <4>1. code = "ok" => Arrived(request) = Taken' - Header - Len(text)
          BY <1>4, <1>5, <1>6, <3>3
        <4>2. QED BY <1>1, <1>8, <3>1, <4>1
      <3>5. HelperInv'
        BY <1>0, <1>1, <1>3, <1>4, <1>6, <1>8, <3>1, <3>2, <3>3, <3>4 DEF HelperInv, workerFrame
      <3>6. QED BY <1>5, <3>1, <3>3, <3>5
    <2>2. CASE whole /\ code = "ok"
      <3>1. remaining' = left /\ helper' = "write" /\ buffer' = text
        BY <1>2, <2>2
      <3>2. /\ Taken' = Taken + 1 /\ Taken' - Len(buffer') = from
        <4>1. Taken' = Header + length - left + 0 BY <1>0, <1>8, <3>1 DEF Taken
        <4>2. /\ Taken = Header + length - remaining + Len(buffer)
              /\ Len(text) = Len(buffer) + 1 /\ Len(text) = remaining - left
          BY <1>4, <1>6, <1>7
        <4>3. /\ length \in Nat /\ remaining \in Nat /\ Header \in Nat /\ left \in Nat
              /\ Len(buffer) \in Nat /\ Len(text) \in Nat
          BY <1>5, <1>7
        <4>4. Taken' = Taken + 1 BY <4>1, <4>2, <4>3
        <4>5. from = Header + length - remaining BY <1>0
        <4>6. Taken' - Len(text) = from BY <4>1, <4>2, <4>3, <4>5
        <4>7. QED BY <3>1, <4>4, <4>6
      <3>3. Arrived(request)' = Taken' - Header - Len(buffer')
        <4>1. Arrived(request) = Taken - Header - Len(buffer) BY <1>4, <2>2
        <4>2. Taken' = Taken + 1 /\ buffer' = text /\ Len(text) = Len(buffer) + 1
              /\ Arrived(request)' = Arrived(request)
          BY <1>6, <1>8, <3>1, <3>2
        <4>3. Taken \in Int /\ Header \in Nat /\ Len(buffer) \in Nat BY <1>5
        <4>4. QED BY <4>1, <4>2, <4>3
      <3>4. HelperInv'
        BY <1>0, <1>1, <1>3, <1>6, <1>7, <1>8, <2>2, <3>1, <3>2, <3>3 DEF HelperInv, workerFrame
      <3>5. QED BY <1>7, <3>1, <3>2, <3>4
    <2>3. CASE whole /\ code # "ok"
      <3>1. /\ remaining' = left /\ buffer' = <<>>
            /\ helper' = (IF left = 0 THEN "reply" ELSE "body")
        BY <1>2, <2>3
      <3>2. Taken' = Taken + 1 /\ Len(buffer') = 0
        <4>1. Taken' = Header + length - left + 0 BY <1>0, <1>e, <1>8, <3>1 DEF Taken
        <4>2. Taken = Header + length - remaining + Len(buffer) BY <1>4
        <4>3. Len(text) = Len(buffer) + 1 /\ Len(text) = remaining - left BY <1>6, <1>7
        <4>4. /\ length \in Nat /\ remaining \in Nat /\ Header \in Nat /\ left \in Nat
              /\ Len(buffer) \in Nat /\ Len(text) \in Nat
          BY <1>5, <1>7
        <4>5. Taken' = Taken + 1 BY <4>1, <4>2, <4>3, <4>4
        <4>6. QED BY <1>e, <3>1, <4>5
      <3>3. HelperInv'
        <4>1. helper' = "body" => Len(buffer') < remaining' /\ Len(buffer') < Chunk
          BY <1>7, <3>1, <3>2, Sizes
        <4>2. /\ helper' # "header" /\ helper' # "write" /\ code' # "ok"
              /\ replies' = <<>> /\ remaining' <= Length[request']
              /\ helper' = "reply" => remaining' = 0
          BY <1>0, <1>1, <1>3, <1>7, <1>8, <2>3, <3>1
        <4>3. Run(buffer', request', Taken' - Len(buffer')) BY <3>2 DEF Run
        <4>4. QED BY <3>1, <4>1, <4>2, <4>3 DEF HelperInv
      <3>4. QED BY <1>7, <3>1, <3>2, <3>3
    <2>4. QED BY <2>1, <2>2, <2>3
  <1>10. TypeOK'
    <2>1. Len(pipe') <= Capacity BY <1>3, <1>5, Sizes DEF IInv, TypeOK
    <2>2. /\ code' \in {"ok", "bad"} /\ replies' \in Seq({"ok", "bad"})
          /\ sink' \in Seq(Frames \X Int) /\ head' \in Seq(Byte) /\ Len(head') <= Header
      BY <1>1 DEF IInv, TypeOK
    <2>3. buffer' \in Seq(Byte) /\ Len(buffer') <= Chunk
      <3>1. CASE buffer' = text BY <1>6, <1>7, <3>1
      <3>2. CASE buffer' = <<>> BY <1>e, <3>2, Sizes
      <3>3. QED BY <1>9, <3>1, <3>2
    <2>4. helper' \in Working BY <1>9 DEF Working
    <2>5. QED BY <1>1, <1>3, <1>9, <2>1, <2>2, <2>3, <2>4, WorkerTypes
  <1>11. CallInv' BY <1>1, <1>9, WorkerCalls DEF Working
  <1>12. RequestInv' /\ ReplyInv'
    BY <1>1 DEF IInv, RequestInv, ReplyInv, Arrived, workerFrame
  <1>13. RestInv' BY <1>1, <1>3, <1>9 DEF RestInv, workerFrame
  <1>14. StreamInv'
    <2>1. Len(pipe) = Handed - Taken BY <1>1, <1>3 DEF IInv, StreamInv
    <2>2. Len(pipe') = Handed' - Taken' BY <1>3, <1>5, <1>8, <1>9, <2>1
    <2>3. Run(pipe', request', Taken') BY <1>3, <1>8, <1>9
    <2>4. QED BY <1>1, <1>3, <2>2, <2>3 DEF IInv, StreamInv, Alive, workerFrame
  <1>15. LeftInv'
    <2>1. \A k \in 1..Len(text) : text[k][2] > Header
      <3>1. from >= Header
        <4>1. from = Header + length - remaining BY <1>0
        <4>2. remaining <= length /\ length \in Nat /\ remaining \in Nat /\ Header \in Nat
          BY <1>4, <1>5
        <4>3. QED BY <4>1, <4>2
      <3>2. \A k \in 1..Len(text) : text[k][2] = from + k BY <1>6 DEF Run
      <3>3. QED BY <1>5, <1>7, <3>1, <3>2
    <2>2. QED BY <1>1, <1>e, <1>9, <2>1 DEF IInv, LeftInv
  <1>16. QED BY <1>9, <1>10, <1>11, <1>12, <1>13, <1>14, <1>15 DEF IInv

\* The next byte of the frame arrives at the descriptor.
LEMMA WrittenByte ==
  ASSUME IInv, HelperWrites
  PROVE  /\ pending /\ request \in Frames /\ Length[request] \in Nat
         /\ Arrived(request) \in Int /\ Arrived(request) < Length[request]
         /\ sink' = Append(sink, <<request, Arrived(request) + 1>>)
         /\ sink' \in Seq(Frames \X Int) /\ Len(sink') = Len(sink) + 1
         /\ Arrived(request)' = Arrived(request) + 1
         /\ buffer' \in Seq(Byte) /\ Len(buffer') = Len(buffer) - 1
         /\ Run(buffer', request, Taken - Len(buffer'))
  <1>1. helper = "write" /\ helper \in Working BY DEF HelperWrites, Steps, Working
  <1>2. /\ pending /\ request \in Frames /\ Length[request] \in Nat /\ Taken \in Int
        /\ Arrived(request) \in Int
    <2>1. pending BY <1>1 DEF IInv, RestInv
    <2>2. QED BY <2>1, FrameNumbers, Numbers, SinkFrames
  <1>3. /\ buffer \in Seq(Byte) /\ buffer # <<>> /\ code = "ok"
        /\ Run(buffer, request, Taken - Len(buffer))
        /\ Arrived(request) = Taken - Header - Len(buffer)
        /\ remaining <= Length[request]
        /\ Len(buffer) <= Length[request] - remaining
        /\ Taken = Header + Length[request] - remaining
    <2>1. Taken = Header + Length[request] - remaining
      BY <1>1, <1>2, Numbers DEF Taken
    <2>2. QED BY <1>1, <1>2, <2>1 DEF IInv, TypeOK, HelperInv
  <1>4. Len(buffer) \in Nat /\ Header \in Nat /\ remaining \in Nat BY Numbers
  <1>5. /\ Head(buffer) = <<request, (Taken - Len(buffer)) + 1>>
        /\ Tail(buffer) \in Seq(Byte) /\ Len(Tail(buffer)) = Len(buffer) - 1
        /\ Run(Tail(buffer), request, (Taken - Len(buffer)) + 1)
    <2>1. Taken - Len(buffer) \in Int BY <1>2, <1>4
    <2>2. QED BY <1>3, <2>1, RunTail
  <1>6. Arrived(request) < Length[request]
    <2>1. Len(buffer) > 0 BY <1>3, <1>4, EmptySeq
    <2>2. QED BY <1>2, <1>3, <1>4, <2>1
  <1>7. sink' = Append(sink, <<request, Arrived(request) + 1>>)
    <2>1. sink' = Append(sink, <<Head(buffer)[1], Head(buffer)[2] - Header>>)
      BY DEF HelperWrites
    <2>2. /\ Head(buffer)[1] = request
          /\ Head(buffer)[2] - Header = Arrived(request) + 1
      <3>1. Head(buffer)[1] = request /\ Head(buffer)[2] = (Taken - Len(buffer)) + 1
        BY <1>5
      <3>2. Arrived(request) = Taken - Header - Len(buffer) BY <1>3
      <3>3. Taken \in Int /\ Len(buffer) \in Nat /\ Header \in Nat BY <1>2, <1>4
      <3>4. QED BY <3>1, <3>2, <3>3
    <2>3. QED BY <2>1, <2>2
  <1>8. /\ sink' \in Seq(Frames \X Int) /\ Len(sink') = Len(sink) + 1
        /\ sink'[Len(sink) + 1] = <<request, Arrived(request) + 1>>
    <2>1. sink \in Seq(Frames \X Int) BY DEF IInv, TypeOK
    <2>2. <<request, Arrived(request) + 1>> \in Frames \X Int BY <1>2
    <2>3. QED BY <1>7, <2>1, <2>2, AppendProperties
  <1>9. request' = request BY DEF HelperWrites, evaluationVars
  <1>10. Arrived(request)' = Arrived(request) + 1
    <2>1. sink' # <<>>
      <3>1. Len(sink) \in Nat /\ Len(<<>>) = 0 BY SinkFrames
      <3>2. QED BY <1>8, <3>1
    <2>2. sink'[Len(sink')] = <<request, Arrived(request) + 1>> BY <1>8
    <2>3. sink'[Len(sink')][1] = request /\ sink'[Len(sink')][2] = Arrived(request) + 1
      BY <2>2
    <2>4. QED BY <1>9, <2>1, <2>3 DEF Arrived
  <1>11. /\ buffer' \in Seq(Byte) /\ Len(buffer') = Len(buffer) - 1
         /\ Run(buffer', request, Taken - Len(buffer'))
    <2>1. buffer' = Tail(buffer) BY DEF HelperWrites
    <2>2. (Taken - Len(buffer)) + 1 = Taken - Len(buffer') BY <1>2, <1>4, <1>5, <2>1
    <2>3. QED BY <1>5, <2>1, <2>2
  <1>12. QED BY <1>2, <1>6, <1>7, <1>8, <1>10, <1>11

\* The helper writes a part of its chunk to the output.
LEMMA WritesStep ==
  ASSUME IInv, HelperWrites
  PROVE  IInv'
  <1>0. PICK length, arrived : length = Length[request] /\ arrived = Arrived(request)
    OBVIOUS
  <1>1. /\ helper = "write" /\ helper \in Working
        /\ UNCHANGED <<head, remaining, code, pipe, replies>> /\ UNCHANGED workerFrame
        /\ helper' = IF buffer' = <<>> THEN IF remaining = 0 THEN "reply" ELSE "body"
                     ELSE "write"
    BY DEF HelperWrites, AfterChunk, Steps, transportVars, evaluationVars, workerFrame, Working
  <1>2. /\ pending /\ request \in Frames /\ length \in Nat
        /\ arrived \in Int /\ Arrived(request)' = arrived + 1
        /\ sink' = Append(sink, <<request, arrived + 1>>)
        /\ sink' \in Seq(Frames \X Int) /\ Len(sink') = Len(sink) + 1
        /\ buffer' \in Seq(Byte) /\ Len(buffer') = Len(buffer) - 1
        /\ Run(buffer', request, Taken - Len(buffer'))
    BY <1>0, WrittenByte
  <1>3. /\ code = "ok" /\ replies = <<>> /\ remaining <= length
        /\ Len(buffer) <= length - remaining
        /\ arrived = Taken - Header - Len(buffer)
        /\ Taken = Header + length - remaining
    <2>1. Taken = Header + length - remaining + 0 BY <1>0, <1>1 DEF Taken
    <2>2. Taken = Header + length - remaining
      <3>1. Header \in Nat /\ remaining \in Nat BY Numbers
      <3>2. QED BY <1>2, <2>1, <3>1
    <2>3. QED BY <1>0, <1>1, <1>2, <2>2 DEF IInv, HelperInv
  <1>4. /\ Taken \in Int /\ Len(buffer) \in Nat /\ remaining \in Nat /\ Chunk \in Nat
        /\ Header \in Nat /\ Handed \in Int /\ Len(sink) \in Nat
    BY <1>2, Numbers
  <1>e. <<>> \in Seq(Byte) /\ Len(<<>>) = 0 OBVIOUS
  <1>5. helper' \in {"body", "write", "reply"} /\ request' = request /\ Handed' = Handed
    BY <1>1 DEF Handed, workerFrame
  <1>6. Taken' = Taken
    <2>1. helper' = "body" => Len(buffer') = 0 BY <1>1, <1>e
    <2>2. Taken' = Header + length - remaining + 0
      BY <1>0, <1>1, <1>5, <2>1 DEF Taken
    <2>3. QED BY <1>3, <1>2, <1>4, <2>2
  <1>7. TypeOK'
    <2>1. Len(buffer') <= Chunk BY <1>2, <1>4 DEF IInv, TypeOK
    <2>2. /\ head' \in Seq(Byte) /\ Len(head') <= Header /\ code' \in {"ok", "bad"}
          /\ replies' \in Seq({"ok", "bad"}) /\ pipe' \in Seq(Byte) /\ Len(pipe') <= Capacity
          /\ remaining' \in Nat
      BY <1>1 DEF IInv, TypeOK
    <2>3. helper' \in Working BY <1>5 DEF Working
    <2>4. QED BY <1>1, <1>2, <2>1, <2>2, <2>3, WorkerTypes
  <1>8. CallInv' BY <1>1, <1>5, WorkerCalls DEF Working
  <1>9. RequestInv'
    <2>1. \A k \in 1..Len(sink') : sink'[k][1] < next
      <3>1. sink \in Seq(Frames \X Int) /\ <<request, arrived + 1>> \in Frames \X Int
        BY <1>2 DEF IInv, TypeOK
      <3>2. /\ \A k \in 1..Len(sink) : sink'[k] = sink[k]
            /\ sink'[Len(sink) + 1] = <<request, arrived + 1>>
        BY <1>2, <3>1, AppendProperties
      <3>3. request < next /\ \A k \in 1..Len(sink) : sink[k][1] < next
        BY <1>2, Numbers DEF IInv, RequestInv
      <3>4. \A k \in 1..(Len(sink) + 1) : k \in 1..Len(sink) \/ k = Len(sink) + 1
        BY <1>4
      <3>5. QED BY <1>2, <3>2, <3>3, <3>4
    <2>2. QED BY <1>1, <2>1 DEF IInv, RequestInv, workerFrame
  <1>10. ReplyInv' BY <1>1, <1>3, <1>e DEF ReplyInv
  <1>11. RestInv' BY <1>1, <1>2, <1>5 DEF RestInv, workerFrame
  <1>12. StreamInv'
    BY <1>1, <1>2, <1>5, <1>6 DEF IInv, StreamInv, Alive, workerFrame
  <1>13. HelperInv'
    <2>1. Arrived(request)' = Taken' - Header - Len(buffer')
      BY <1>2, <1>3, <1>4, <1>6
    <2>2. /\ helper' = "write" => buffer' # <<>>
          /\ helper' = "body" => buffer' = <<>> /\ remaining # 0
          /\ helper' = "reply" => buffer' = <<>> /\ remaining = 0
      BY <1>1
    <2>3. Len(buffer') <= length - remaining BY <1>2, <1>3, <1>4
    <2>4. helper' = "body" => Len(buffer') < remaining /\ Len(buffer') < Chunk
      BY <1>4, <1>e, <2>2, Sizes
    <2>5. Run(buffer', request', Taken' - Len(buffer')) BY <1>2, <1>5, <1>6
    <2>6. QED
      BY <1>0, <1>1, <1>3, <1>5, <2>1, <2>2, <2>3, <2>4, <2>5 DEF HelperInv
  <1>14. LeftInv'
    <2>1. \A k \in 1..Len(buffer') : buffer'[k][2] = Taken - Len(buffer') + k
      BY <1>2 DEF Run
    <2>2. Taken - Len(buffer') >= Header BY <1>2, <1>3, <1>4
    <2>3. \A k \in 1..Len(buffer') : buffer'[k][2] > Header
      BY <1>2, <1>4, <2>1, <2>2
    <2>4. QED BY <1>1, <2>3 DEF IInv, LeftInv
  <1>15. QED BY <1>7, <1>8, <1>9, <1>10, <1>11, <1>12, <1>13, <1>14 DEF IInv

\* The write fails for the rest of the frame, or the frame is answered.
LEMMA EndsChunkStep ==
  ASSUME IInv, HelperWriteFails \/ HelperReplies
  PROVE  IInv'
  <1>0. PICK length : length = Length[request] OBVIOUS
  <1>1. /\ helper \in {"write", "reply"} /\ helper \in Working
        /\ UNCHANGED <<remaining, pipe, sink>> /\ UNCHANGED workerFrame
    BY DEF HelperWriteFails, HelperReplies, Steps, transportVars, evaluationVars,
           workerFrame, Working
  <1>2. /\ pending /\ request \in Frames /\ length \in Nat
        /\ Handed <= Header + length
    <2>1. pending BY <1>1 DEF IInv, RestInv
    <2>2. QED BY <1>0, <1>1, <2>1, FrameNumbers, Numbers, HandedBound DEF Alive
  <1>3. /\ replies = <<>> /\ remaining <= length
        /\ helper = "reply" => remaining = 0 /\ buffer = <<>>
        /\ Len(pipe) = Handed - Taken /\ Run(pipe, request, Taken)
    BY <1>0, <1>1, <1>2 DEF IInv, HelperInv, StreamInv
  <1>4. /\ Taken \in Int /\ remaining \in Nat /\ Header \in Nat \ {0} /\ Handed \in Int
        /\ Len(pipe) \in Nat /\ Chunk \in Nat
    BY <1>2, Numbers
  <1>5. Taken = Header + length - remaining
    <2>1. Taken = Header + length - remaining + 0 BY <1>0, <1>1 DEF Taken
    <2>2. QED BY <1>2, <1>4, <2>1
  <1>6. Handed' = Handed /\ request' = request /\ Arrived(request)' = Arrived(request)
    BY <1>1 DEF Handed, Arrived, workerFrame
  <1>e. /\ <<>> \in Seq(Byte) /\ Len(<<>>) = 0
    OBVIOUS
  <1>7. CASE HelperWriteFails
    <2>1. /\ code' = "bad" /\ buffer' = <<>> /\ UNCHANGED <<head, replies>>
          /\ helper' = IF remaining = 0 THEN "reply" ELSE "body"
      BY <1>7 DEF HelperWriteFails, AfterChunk
    <2>2. Taken' = Taken /\ Len(buffer') = 0
      <3>1. Taken' = Header + length - remaining + 0
        BY <1>0, <1>1, <1>6, <1>e, <2>1 DEF Taken
      <3>2. QED BY <1>e, <1>2, <1>4, <1>5, <2>1, <3>1
    <2>3. TypeOK'
      <3>1. /\ head' \in Seq(Byte) /\ Len(head') <= Header
            /\ replies' \in Seq({"ok", "bad"}) /\ pipe' \in Seq(Byte) /\ Len(pipe') <= Capacity
            /\ remaining' \in Nat /\ sink' \in Seq(Frames \X Int)
        BY <1>1, <2>1 DEF IInv, TypeOK
      <3>2. buffer' \in Seq(Byte) /\ Len(buffer') <= Chunk BY <1>e, <2>1, Sizes
      <3>3. helper' \in Working BY <2>1 DEF Working
      <3>4. QED BY <1>1, <2>1, <3>1, <3>2, <3>3, WorkerTypes
    <2>4. CallInv' BY <1>1, <2>1, WorkerCalls DEF Working
    <2>5. RequestInv' /\ ReplyInv' /\ RestInv'
      BY <1>1, <1>2, <2>1 DEF IInv, RequestInv, ReplyInv, RestInv, Arrived, workerFrame
    <2>6. StreamInv'
      BY <1>1, <1>2, <1>3, <1>6, <2>1, <2>2 DEF IInv, StreamInv, Alive, workerFrame
    <2>7. HelperInv'
      <3>1. helper' = "body" => Len(buffer') < remaining' /\ Len(buffer') < Chunk
        BY <1>1, <1>4, <2>1, <2>2, Sizes
      <3>2. /\ helper' # "header" /\ helper' # "write" /\ code' # "ok" /\ replies' = <<>>
            /\ remaining' <= Length[request']
            /\ helper' = "reply" => remaining' = 0
        BY <1>0, <1>1, <1>3, <1>6, <2>1
      <3>3. Run(buffer', request', Taken' - Len(buffer')) BY <2>2 DEF Run
      <3>4. QED BY <2>1, <3>1, <3>2, <3>3 DEF HelperInv
    <2>8. LeftInv' BY <1>e, <2>1 DEF IInv, LeftInv
    <2>9. QED BY <2>3, <2>4, <2>5, <2>6, <2>7, <2>8 DEF IInv
  <1>8. CASE HelperReplies
    <2>1. /\ helper = "reply" /\ helper' = "header" /\ head' = <<>> /\ code' = "ok"
          /\ replies' = Append(replies, code) /\ buffer' = buffer
      BY <1>8 DEF HelperReplies, NextFrame, Steps
    <2>2. buffer = <<>> /\ remaining = 0 /\ pipe = <<>> /\ Len(pipe) = 0
      <3>1. buffer = <<>> /\ remaining = 0 BY <1>3, <2>1
      <3>2. Len(pipe) <= 0 BY <1>2, <1>3, <1>4, <1>5, <3>1
      <3>3. pipe \in Seq(Byte) BY DEF IInv, TypeOK
      <3>4. QED BY <1>4, <3>1, <3>2, <3>3, EmptySeq
    <2>3. /\ replies' \in Seq({"ok", "bad"}) /\ Len(replies') = 1 /\ replies'[1] = code
          /\ replies' # <<>>
      <3>1. replies \in Seq({"ok", "bad"}) /\ code \in {"ok", "bad"} /\ Len(replies) = 0
        BY <1>3, <1>e DEF IInv, TypeOK
      <3>2. /\ replies' \in Seq({"ok", "bad"}) /\ Len(replies') = 1 /\ replies'[1] = code
        BY <2>1, <3>1, AppendProperties
      <3>3. QED BY <1>e, <3>2
    <2>4. Taken' = Taken
      <3>1. Taken' = Header + length BY <1>0, <1>6, <2>1, <2>3 DEF Taken
      <3>2. QED BY <1>2, <1>4, <1>5, <2>2, <3>1
    <2>5. TypeOK'
      <3>1. /\ pipe' \in Seq(Byte) /\ Len(pipe') <= Capacity /\ buffer' \in Seq(Byte)
            /\ Len(buffer') <= Chunk /\ remaining' \in Nat /\ sink' \in Seq(Frames \X Int)
        BY <1>1, <2>1 DEF IInv, TypeOK
      <3>2. head' \in Seq(Byte) /\ Len(head') <= Header BY <1>e, <2>1, Sizes
      <3>3. helper' \in Working BY <2>1 DEF Working
      <3>4. QED BY <1>1, <2>1, <2>3, <3>1, <3>2, <3>3, WorkerTypes
    <2>6. CallInv' BY <1>1, <2>1, WorkerCalls DEF Working
    <2>7. RequestInv' BY <1>1, <1>2 DEF IInv, RequestInv, workerFrame
    <2>8. ReplyInv'
      <3>1. code = "ok" => Arrived(request) = Length[request]
        <4>1. code = "ok" => Arrived(request) = Taken - Header - Len(buffer)
          BY <1>1, <1>2, <1>3, <2>1 DEF IInv, HelperInv
        <4>2. Len(buffer) = 0 BY <1>e, <2>2
        <4>3. Taken - Header - 0 = length BY <1>2, <1>4, <1>5, <2>2
        <4>4. QED BY <1>0, <4>1, <4>2, <4>3
      <3>2. QED BY <1>6, <2>3, <3>1 DEF ReplyInv
    <2>9. RestInv' BY <1>1, <1>2, <2>1 DEF RestInv, workerFrame
    <2>10. StreamInv'
      BY <1>1, <1>2, <1>3, <1>6, <2>1, <2>4 DEF IInv, StreamInv, Alive, workerFrame
    <2>11. HelperInv'
      BY <1>e, <1>4, <2>1, <2>2, <2>3 DEF HelperInv, Run
    <2>12. LeftInv' BY <1>e, <2>1, <2>2 DEF LeftInv
    <2>13. QED BY <2>5, <2>6, <2>7, <2>8, <2>9, <2>10, <2>11, <2>12 DEF IInv
  <1>9. QED BY <1>7, <1>8

-----------------------------------------------------------------------------
(* The coordinator begins a frame, fills the transport and is answered.    *)

\* The next frame: nothing of it is in the transport or at the descriptor.
LEMMA OutputStep ==
  ASSUME IInv, Output
  PROVE  IInv'
  <1>1. /\ call = "idle" /\ ~pending /\ offset = Len(chunk) /\ replies = <<>> /\ request = 0
        /\ next \in Frames /\ request' = next /\ next' = next + 1
        /\ pending' = TRUE /\ sent' = 0 /\ chunk' = HeaderChunk(next) /\ offset' = 0
        /\ call' = "flush" /\ at' = (IF committed' THEN "write" ELSE "commit")
        /\ UNCHANGED <<halted, head, remaining, buffer, code, sink, after, cleaning, outcome>>
    <2>1. next \in 1..(Len(Length) + 1) BY DEF IInv, TypeOK
    <2>2. call = "idle" /\ next <= Len(Length) BY DEF Output
    <2>3. next \in Frames BY <2>1, <2>2, FrameNumbers
    <2>4. ~pending /\ offset = Len(chunk) /\ replies = <<>> /\ request = 0
      BY <2>2 DEF IInv, CallInv, RequestInv
    <2>5. QED BY <2>2, <2>3, <2>4 DEF Output
  <1>2. IF held THEN UNCHANGED <<held, inputOpen, committed, helper, pipe, replies>>
        ELSE /\ held' = TRUE /\ inputOpen' = TRUE /\ committed' = FALSE
             /\ helper' = "gated" /\ pipe' = <<>> /\ replies' = <<>>
    BY DEF Output
  <1>3. next \in Nat \ {0} /\ next' \in 1..(Len(Length) + 1) /\ next < next'
        /\ Length[next] \in Nat
    BY <1>1, FrameNumbers
  <1>4. /\ chunk' \in Seq(Byte) /\ Len(chunk') = Header /\ Run(chunk', next, 0)
        /\ Header \in Nat \ {0} /\ Header <= Chunk /\ Chunk \in Nat
    <2>1. 0 \in Nat /\ 0 <= Length[next] BY <1>3
    <2>2. QED BY <1>1, <2>1, ChunkParts, Sizes
  <1>e. <<>> \in Seq(Byte) /\ <<>> \in Seq({"ok", "bad"}) /\ Len(<<>>) = 0 OBVIOUS
  <1>5. Handed' = 0
    <2>1. Handed' = Header + 0 - (Header - 0) BY <1>1, <1>4 DEF Handed
    <2>2. QED BY <1>4, <2>1
  <1>6. replies' = <<>> /\ Len(replies') = 0 BY <1>1, <1>2, <1>e
  <1>7. Arrived(request)' = 0
    <2>1. Arrived(next) = 0 BY <1>1, <1>3, SinkFrames
    <2>2. QED BY <1>1, <2>1 DEF Arrived
  <1>8. TypeOK'
    <2>1. /\ helper' \in Working \cup {"none", "gated", "ended"}
          /\ pipe' \in Seq(Byte) /\ Len(pipe') <= Capacity
          /\ held' \in BOOLEAN /\ inputOpen' \in BOOLEAN /\ committed' \in BOOLEAN
      <3>1. CASE held BY <1>2, <3>1 DEF IInv, TypeOK
      <3>2. CASE ~held
        <4>1. /\ helper' = "gated" /\ pipe' = <<>> /\ held' = TRUE /\ inputOpen' = TRUE
              /\ committed' = FALSE
          BY <1>2, <3>2
        <4>2. Len(pipe') <= Capacity BY <1>e, <4>1, Sizes
        <4>3. QED BY <1>e, <4>1, <4>2
      <3>3. QED BY <3>1, <3>2
    <2>2. offset' \in 0..Len(chunk') /\ Len(chunk') <= Chunk /\ sent' \in Nat
      BY <1>1, <1>4
    <2>3. replies' \in Seq({"ok", "bad"}) BY <1>6, <1>e
    <2>4. QED BY <1>1, <1>3, <1>4, <2>1, <2>2, <2>3 DEF IInv, TypeOK
  <1>9. CallInv' BY <1>1, <1>2 DEF IInv, CallInv
  <1>10. RequestInv'
    <2>1. \A k \in 1..Len(sink) : sink[k][1] < next' BY <1>3, SinkFrames DEF IInv, RequestInv
    <2>2. \A f \in Frames : f >= next' => outcome[f] = "none"
      <3>1. \A f \in Frames : f >= next' => f >= next BY <1>3, FrameNumbers
      <3>2. QED BY <3>1 DEF IInv, RequestInv
    <2>3. outcome[next] = "none" BY <1>1, <1>3 DEF IInv, RequestInv
    <2>4. next # 0 BY <1>3
    <2>5. QED BY <1>1, <1>3, <2>1, <2>2, <2>3, <2>4 DEF RequestInv
  <1>11. ReplyInv' BY <1>6 DEF ReplyInv
  <1>12. /\ Run(chunk', request', Header' + sent' - Len(chunk')) /\ Len(chunk') <= Header' + sent'
         /\ sent' <= Length[request']
    <2>1. Header + 0 - Len(chunk') = 0 /\ Len(chunk') <= Header + 0 /\ 0 <= Length[next]
      BY <1>3, <1>4
    <2>2. QED BY <1>1, <1>4, <2>1
  <1>13. CASE helper' \in Working
    <2>1. held /\ helper \in Working /\ helper' = helper /\ pipe' = pipe
      BY <1>2, <1>13 DEF Working
    <2>2. helper' = "header" /\ head' = <<>> /\ pipe' = <<>> /\ buffer' = <<>> /\ code' = "ok"
      BY <1>1, <2>1 DEF IInv, RestInv
    <2>3. Taken' = 0 BY <1>6, <1>e, <2>2 DEF Taken
    <2>4. RestInv' BY <1>1, <2>2 DEF RestInv
    <2>5. StreamInv'
      <3>1. Len(pipe') = Handed' - Taken' BY <1>5, <1>e, <2>2, <2>3
      <3>2. Run(pipe', request', Taken') BY <1>e, <2>2 DEF Run
      <3>3. QED BY <1>12, <3>1, <3>2 DEF StreamInv
    <2>6. HelperInv' BY <1>1, <1>4, <1>6, <1>7, <1>e, <2>2 DEF HelperInv, Run
    <2>7. LeftInv' BY <1>e, <2>2 DEF LeftInv
    <2>8. QED BY <1>8, <1>9, <1>10, <1>11, <2>4, <2>5, <2>6, <2>7 DEF IInv
  <1>14. CASE helper' \notin Working
    <2>1. RestInv'
      <3>1. CASE held
        <4>1. helper # "gated" BY <1>1 DEF IInv, RestInv
        <4>2. QED BY <1>2, <1>14, <3>1, <4>1 DEF RestInv
      <3>2. CASE ~held BY <1>1, <1>2, <1>5, <1>7, <1>14, <3>2 DEF RestInv
      <3>3. QED BY <3>1, <3>2
    <2>2. StreamInv' BY <1>12, <1>14 DEF StreamInv
    <2>3. HelperInv' BY <1>14 DEF HelperInv
    <2>4. LeftInv' BY <1>1 DEF IInv, LeftInv
    <2>5. QED BY <1>8, <1>9, <1>10, <1>11, <2>1, <2>2, <2>3, <2>4 DEF IInv
  <1>15. QED BY <1>13, <1>14

\* More of the chunk is in the transport, and the next chunk follows the last.
LEMMA FlushStep ==
  ASSUME IInv, NEW n \in 1..Chunk, FlushWrites(n)
  PROVE  IInv'
  <1>1. /\ call = "flush" /\ at = "write" /\ Alive /\ pending
        /\ n <= Len(chunk) - offset /\ Len(pipe) + n <= Capacity
        /\ pipe' = pipe \o SubSeq(chunk, offset + 1, offset + n)
        /\ UNCHANGED <<helper, halted, head, remaining, buffer, code, replies, sink, held,
                       inputOpen, committed, pending, call, after, cleaning, request,
                       next, outcome>>
    BY DEF FlushWrites, helperVars, IInv, CallInv
  <1>2. IF offset + n < Len(chunk)
        THEN offset' = offset + n /\ UNCHANGED <<chunk, sent, at>>
        ELSE /\ offset' = 0
             /\ chunk' = TextChunk(request, sent)
             /\ sent' = sent + Len(chunk')
             /\ at' = IF chunk' = <<>> THEN "read" ELSE "write"
    BY DEF FlushWrites
  <1>0. PICK length : length = Length[request] OBVIOUS
  <1>3. /\ request \in Frames /\ length \in Nat /\ n \in Nat \ {0}
        /\ Header \in Nat \ {0} /\ sent \in Nat /\ offset \in Nat /\ Len(chunk) \in Nat
        /\ Len(pipe) \in Nat /\ Handed \in Int /\ Taken \in Int
        /\ chunk \in Seq(Byte) /\ pipe \in Seq(Byte)
    BY <1>0, <1>1, FrameNumbers, Numbers DEF IInv, TypeOK
  <1>4. committed /\ helper \in Working
    <2>1. committed BY <1>1 DEF IInv, CallInv
    <2>2. helper # "gated" BY <2>1 DEF IInv, RestInv
    <2>3. QED BY <1>1, <2>1, <2>2 DEF Alive
  <1>5. /\ Run(chunk, request, Header + sent - Len(chunk)) /\ Len(chunk) <= Header + sent
        /\ sent <= length /\ Len(pipe) = Handed - Taken /\ Run(pipe, request, Taken)
        /\ Handed = Header + sent - (Len(chunk) - offset)
    BY <1>0, <1>1, <1>4 DEF IInv, StreamInv, Handed
  <1>6. /\ pipe' \in Seq(Byte) /\ Len(pipe') = Len(pipe) + n /\ Run(pipe', request, Taken)
    <2>1. /\ SubSeq(chunk, offset + 1, offset + n) \in Seq(Byte)
          /\ Len(SubSeq(chunk, offset + 1, offset + n)) = n
          /\ Run(SubSeq(chunk, offset + 1, offset + n), request,
                 (Header + sent - Len(chunk)) + offset)
      <3>1. offset + n <= Len(chunk) /\ Header + sent - Len(chunk) \in Int BY <1>1, <1>3
      <3>2. QED BY <1>3, <1>5, <3>1, RunSub
    <2>2. (Header + sent - Len(chunk)) + offset = Taken + Len(pipe) BY <1>3, <1>5
    <2>3. Run(SubSeq(chunk, offset + 1, offset + n), request, Taken + Len(pipe))
      BY <2>1, <2>2
    <2>4. Run(pipe', request, Taken) BY <1>1, <1>3, <1>5, <2>1, <2>3, RunConcat
    <2>5. pipe' \in Seq(Byte) /\ Len(pipe') = Len(pipe) + n
      BY <1>1, <1>3, <2>1, ConcatProperties
    <2>6. QED BY <2>4, <2>5
  <1>7. Taken' = Taken BY <1>1 DEF Taken
  <1>8. /\ chunk' \in Seq(Byte) /\ Len(chunk') <= Chunk /\ offset' \in 0..Len(chunk')
        /\ sent' \in Nat /\ at' \in {"write", "read"} /\ (at' = "read" => offset' = Len(chunk'))
        /\ Run(chunk', request, Header + sent' - Len(chunk')) /\ Len(chunk') <= Header + sent'
        /\ sent' <= length /\ Handed' = Handed + n
    <2>1. CASE offset + n < Len(chunk)
      <3>1. offset' = offset + n /\ UNCHANGED <<chunk, sent, at>> BY <1>2, <2>1
      <3>2. offset' \in 0..Len(chunk') BY <1>3, <2>1, <3>1
      <3>3. Handed' = Handed + n
        <4>1. Handed' = Header + sent - (Len(chunk) - (offset + n)) BY <3>1 DEF Handed
        <4>2. QED BY <1>3, <1>5, <4>1
      <3>4. QED BY <1>1, <1>5, <3>1, <3>2, <3>3 DEF IInv, TypeOK
    <2>2. CASE ~(offset + n < Len(chunk))
      <3>1. offset + n = Len(chunk) BY <1>1, <1>3, <2>2
      <3>2. /\ offset' = 0 /\ chunk' = TextChunk(request, sent) /\ sent' = sent + Len(chunk')
            /\ at' = IF chunk' = <<>> THEN "read" ELSE "write"
        BY <1>2, <2>2
      <3>3. /\ chunk' \in Seq(Byte) /\ Len(chunk') <= Chunk /\ sent + Len(chunk') <= length
            /\ Run(chunk', request, Header + sent)
        BY <1>0, <1>3, <1>5, <3>2, ChunkParts
      <3>4. Len(chunk') \in Nat /\ Len(<<>>) = 0 BY <3>3, LenProperties
      <3>5. sent' \in Nat /\ offset' \in 0..Len(chunk') /\ Len(chunk') <= Header + sent'
        BY <1>3, <3>2, <3>4
      <3>6. Header + sent' - Len(chunk') = Header + sent BY <1>3, <3>2, <3>4
      <3>7. Handed' = Handed + n
        <4>1. Handed' = Header + sent' - (Len(chunk') - 0) BY <3>2 DEF Handed
        <4>2. sent' = sent + Len(chunk') /\ Len(chunk') \in Nat BY <3>2, <3>4
        <4>3. Handed = Header + sent - (Len(chunk) - offset) BY <1>5
        <4>4. Header \in Nat /\ sent \in Nat /\ offset \in Nat /\ Len(chunk) \in Nat /\ n \in Nat
          BY <1>3
        <4>5. QED BY <3>1, <4>1, <4>2, <4>3, <4>4
      <3>8. /\ at' \in {"write", "read"} /\ (at' = "read" => offset' = Len(chunk'))
        BY <3>2, <3>4
      <3>9. QED BY <3>2, <3>3, <3>5, <3>6, <3>7, <3>8
    <2>3. QED BY <2>1, <2>2
  <1>9. TypeOK'
    <2>1. Len(pipe') <= Capacity /\ pipe' \in Seq(Byte)
      <3>1. Len(pipe') = Len(pipe) + n /\ Len(pipe) + n <= Capacity BY <1>1, <1>6
      <3>2. QED BY <1>6, <3>1
    <2>2. /\ chunk' \in Seq(Byte) /\ Len(chunk') <= Chunk /\ offset' \in 0..Len(chunk')
          /\ sent' \in Nat /\ at' \in {"write", "read"}
      BY <1>8
    <2>3. TypeOK BY DEF IInv
    <2>4. QED BY <1>1, <2>1, <2>2, <2>3 DEF TypeOK
  <1>10. CallInv' BY <1>1, <1>4, <1>8 DEF IInv, CallInv, Alive
  <1>11. RequestInv' /\ ReplyInv' BY <1>1 DEF IInv, RequestInv, ReplyInv, Arrived
  <1>12. RestInv' BY <1>1, <1>4 DEF RestInv, Working
  <1>13. StreamInv'
    <2>1. Len(pipe') = Handed' - Taken'
      <3>1. Len(pipe) = Handed - Taken BY <1>5
      <3>2. Len(pipe') = Len(pipe) + n BY <1>6
      <3>3. Handed' = Handed + n BY <1>8
      <3>4. QED BY <1>3, <1>7, <3>1, <3>2, <3>3
    <2>2. Run(pipe', request', Taken') BY <1>1, <1>6, <1>7
    <2>3. QED BY <1>0, <1>1, <1>8, <2>1, <2>2 DEF StreamInv
  <1>14. HelperInv' BY <1>1, <1>7 DEF IInv, HelperInv, Arrived
  <1>15. LeftInv' BY <1>1 DEF IInv, LeftInv
  <1>16. QED BY <1>9, <1>10, <1>11, <1>12, <1>13, <1>14, <1>15 DEF IInv

\* The answer is taken: the frame is over, or its writer is cancelled.
LEMMA AcknowledgedStep ==
  ASSUME IInv, FlushAcknowledged
  PROVE  IInv'
  <1>1. /\ call = "flush" /\ at = "read" /\ replies # <<>> /\ pending
        /\ replies' = Tail(replies) /\ pending' = FALSE
        /\ UNCHANGED <<helper, halted, head, remaining, buffer, code, pipe, sink, held,
                       committed, sent, chunk, offset, cleaning, next>>
    BY DEF FlushAcknowledged, helperVars, IInv, CallInv
  <1>2. \/ /\ Head(replies) = "ok"
           /\ outcome' = [outcome EXCEPT ![request] = "ok"]
           /\ request' = 0 /\ call' = "idle" /\ at' = "none" /\ UNCHANGED <<after, inputOpen>>
        \/ /\ inputOpen' = FALSE /\ call' = "cancel" /\ at' = "none" /\ after' = "idle"
           /\ UNCHANGED <<outcome, request>>
    BY DEF FlushAcknowledged, StartCancel
  <1>3. /\ replies \in Seq({"ok", "bad"}) /\ Len(replies) = 1 /\ replies' = <<>>
        /\ offset = Len(chunk) /\ request \in Frames /\ request < next /\ request # 0
    <2>1. replies \in Seq({"ok", "bad"}) /\ Len(replies) <= 1 BY DEF IInv, TypeOK, ReplyInv
    <2>2. Len(replies) = 1
      <3>1. PICK n \in Nat : n = Len(replies) BY <2>1, LenProperties
      <3>2. n # 0 BY <1>1, <2>1, <3>1, EmptySeq
      <3>3. n <= 1 BY <2>1, <3>1
      <3>4. n = 1 BY <3>2, <3>3
      <3>5. QED BY <3>1, <3>4
    <2>3. replies' \in Seq({"ok", "bad"}) /\ Len(replies') = 0
      BY <1>1, <2>1, <2>2, HeadTailProperties
    <2>4. replies' = <<>> BY <2>3, EmptySeq
    <2>5. offset = Len(chunk) BY <1>1 DEF IInv, CallInv
    <2>6. QED BY <1>1, <2>1, <2>2, <2>4, <2>5, Numbers DEF IInv, RequestInv
  <1>e. <<>> \in Seq({"ok", "bad"}) /\ Len(<<>>) = 0 OBVIOUS
  <1>4. helper \in Working =>
          /\ helper = "header" /\ head = <<>> /\ pipe = <<>> /\ buffer = <<>> /\ code = "ok"
    <2> SUFFICES ASSUME helper \in Working
                 PROVE /\ helper = "header" /\ head = <<>> /\ pipe = <<>>
                       /\ buffer = <<>> /\ code = "ok"
      OBVIOUS
    <2>1. /\ helper = "header" /\ head = <<>> /\ buffer = <<>> /\ code = "ok"
      BY <1>1 DEF IInv, HelperInv
    <2>2. pipe = <<>> BY <1>1, PipeHead
    <2>3. QED BY <2>1, <2>2
  <1>5. helper # "gated" BY <1>1 DEF IInv, RestInv
  <1>6. TypeOK'
    <2>1. outcome' \in [Frames -> {"none", "ok", "error"}] /\ request' \in Frames \cup {0}
      BY <1>2, <1>3 DEF IInv, TypeOK
    <2>2. /\ call' \in {"idle", "cancel"} /\ at' = "none" /\ after' \in {"none", "idle", "over"}
          /\ inputOpen' \in BOOLEAN /\ pending' \in BOOLEAN
      BY <1>1, <1>2 DEF IInv, TypeOK
    <2>3. QED BY <1>1, <1>3, <1>e, <2>1, <2>2 DEF IInv, TypeOK
  <1>7. CallInv' BY <1>1, <1>2 DEF IInv, CallInv
  <1>8. RequestInv'
    <2>1. \A f \in Frames : f >= next => outcome'[f] = "none"
      <3>1. next \in Nat BY FrameNumbers DEF IInv, TypeOK
      <3>2. \A f \in Frames : f >= next => f # request BY <1>3, <3>1, FrameNumbers
      <3>3. QED BY <1>2, <3>2 DEF IInv, TypeOK, RequestInv
    <2>2. QED BY <1>1, <1>2, <1>3, <2>1 DEF IInv, RequestInv
  <1>9. ReplyInv' BY <1>3, <1>e DEF ReplyInv
  <1>10. RestInv' /\ StreamInv' /\ HelperInv'
    BY <1>1, <1>4, <1>5 DEF RestInv, StreamInv, HelperInv
  <1>11. LeftInv' BY <1>1 DEF IInv, LeftInv
  <1>12. QED BY <1>6, <1>7, <1>8, <1>9, <1>10, <1>11 DEF IInv

-----------------------------------------------------------------------------
(* The theorems.                                                           *)

\* Every step keeps the invariant.
LEMMA WriterStep == IInv /\ [Next]_vars => IInv'
  <1> SUFFICES ASSUME IInv, [Next]_vars PROVE IInv' OBVIOUS
  <1>1. CASE UNCHANGED vars
    <2>1. UNCHANGED byteVars /\ UNCHANGED workerFrame
      BY <1>1 DEF vars, helperVars, transportVars, evaluationVars, byteVars, workerFrame
    <2>2. TypeOK' BY <2>1 DEF IInv, TypeOK, byteVars, workerFrame
    <2>3. CallInv' BY <2>1 DEF IInv, CallInv, Alive, byteVars, workerFrame
    <2>4. RequestInv' BY <2>1 DEF IInv, RequestInv, byteVars, workerFrame
    <2>5. QED BY <2>1, <2>2, <2>3, <2>4, BytesKept DEF IInv
  <1>2. CASE Worker
    BY <1>2, ReadsHeaderStep, ReadsTextStep, LeavesStep, WritesStep, EndsChunkStep DEF Worker
  <1>3. CASE HelperStarts \/ HelperStops \/ HelperKilled
    BY <1>3, StartsStep, QuietStep, LeavesStep
  <1>4. CASE Progress
    BY <1>4, StartsStep, QuietStep, LeavesStep, FlushStep, AcknowledgedStep, DroppedStep
    DEF Progress
  <1>5. CASE User BY <1>5, QuietStep DEF User
  <1>6. CASE Evaluation BY <1>6, OutputStep, OutputFailsStep, QuietStep DEF Evaluation
  <1>7. QED BY <1>1, <1>2, <1>3, <1>4, <1>5, <1>6 DEF Next

\* The inductive invariant holds in every reachable state.
LEMMA WriterInvariant == Spec => []IInv
  BY WriterInit, WriterStep, PTL DEF Spec

\* Every reachable state of a writer is well typed, whatever the frames and sizes
\* (writer.rs, output.rs and session/output.rs).
THEOREM WriterTypes == Spec => []TypeOK
  <1>1. IInv => TypeOK BY DEF IInv
  <1>2. QED BY <1>1, WriterInvariant, PTL

\* The helper and its writer agree on the frame that is under way: headers are
\* never taken for text, and a frame is retained exactly while its request is
\* (begin, flush and worker).
THEOREM OneFrameAlways == Spec => []OneFrame
  <1>1. IInv => OneFrame
    <2> SUFFICES ASSUME IInv PROVE PartsInStep /\ FrameKept BY DEF OneFrame
    <2>1. PartsInStep
      <3>1. head \in Seq(Byte) /\ buffer \in Seq(Byte) BY DEF IInv, TypeOK
      <3>2. /\ \A k \in DOMAIN head : head[k][2] = k
            /\ \A k \in DOMAIN buffer : buffer[k][2] > Header
        BY <3>1, LenProperties DEF IInv, LeftInv
      <3>3. ASSUME helper \in Working, pipe # <<>>
            PROVE  Head(pipe)[2] = Taken + 1 /\ pending /\ replies = <<>> /\ request \in Frames
                   /\ Taken \in Int
        BY <3>3, PipeHead, Numbers
      <3>4. helper = "header" /\ pipe # <<>> => Head(pipe)[2] = Len(head) + 1
        <4>1. ASSUME helper = "header", pipe # <<>>
              PROVE  Head(pipe)[2] = Taken + 1 /\ Taken = Len(head)
          BY <3>3, <4>1 DEF Taken, Working
        <4>2. QED BY <4>1
      <3>5. helper = "body" /\ pipe # <<>> => Head(pipe)[2] > Header
        <4> SUFFICES ASSUME helper = "body", pipe # <<>> PROVE Head(pipe)[2] > Header
          OBVIOUS
        <4>0. PICK length : length = Length[request] OBVIOUS
        <4>1. Head(pipe)[2] = Taken + 1 /\ pending /\ request \in Frames
          BY <3>3 DEF Working
        <4>2. Taken = Header + length - remaining + Len(buffer) BY <4>0 DEF Taken
        <4>3. remaining <= length BY <4>0, <4>1 DEF IInv, HelperInv, Working
        <4>4. length \in Nat BY <4>0, <4>1, FrameNumbers
        <4>5. Header \in Nat /\ remaining \in Nat /\ Len(buffer) \in Nat BY Numbers
        <4>6. QED BY <4>1, <4>2, <4>3, <4>4, <4>5
      <3>6. QED BY <3>2, <3>4, <3>5 DEF PartsInStep
    <2>2. FrameKept BY DEF IInv, CallInv, RequestInv, FrameKept
    <2>3. QED BY <2>1, <2>2
  <1>2. QED BY <1>1, WriterInvariant, PTL

\* A parked evaluation's output is still: suspend returns only when the helper is
\* stopped or gone, and nothing continues it but resume or a kill.
THEOREM ParkedStaysStill == Spec => ParkedIsStill
  <1>1. IInv /\ [Next]_vars =>
          [call = "parked" /\ call' = "parked" => UNCHANGED <<sink, pipe, replies>>]_vars
    <2> SUFFICES ASSUME IInv, Next, call = "parked", call' = "parked"
                 PROVE  UNCHANGED <<sink, pipe, replies>>
      OBVIOUS
    <2>1. halted \/ ~Alive BY DEF IInv, CallInv
    <2>2. CASE Worker \/ HelperStarts \/ HelperStops \/ HelperKilled
      BY <2>1, <2>2
      DEF Worker, HelperReadsHeader, HelperReadsText, HelperLeaves, HelperWrites,
          HelperWriteFails, HelperReplies, HelperStarts, HelperStops, HelperKilled,
          Steps, Alive, Working
    <2>3. CASE Progress
      BY <2>3
      DEF Progress, Committed, CommitFails, FlushWrites, FlushBroken, FlushAcknowledged,
          FlushEnds, Cancelled, Finished, FinishCancels, Freeze, Frozen
    <2>4. CASE User \/ Evaluation
      BY <2>4
      DEF User, Interrupt, Stop, Resume, CancelParked, Evaluation, Output, OutputFails,
          Finish, NextEntry
    <2>5. QED BY <2>2, <2>3, <2>4 DEF Next
  <1>2. QED BY <1>1, WriterInvariant, PTL DEF Spec, ParkedIsStill

-----------------------------------------------------------------------------
(* Writer implements Delivery.                                             *)

\* A step that begins, ends, writes or fails no frame.
LEMMA UnseenStep ==
  ASSUME UNCHANGED <<request, outcome, sink>>
  PROVE  UNCHANGED Outputs!vars
  BY DEF Outputs!vars

\* Both modules count the bytes that arrived in the same way.
LEMMA SameCount == \A f : Outputs!Arrived(f) = Arrived(f)
  BY DEF Outputs!Arrived, Arrived

\* Every step of the writer is a step of the abstract delivery, or none.
LEMMA StepDelivers ==
  ASSUME IInv, Next
  PROVE  Outputs!Next \/ UNCHANGED Outputs!vars
  <1> USE DEF Outputs!Frames
  <1>1. CASE Worker
    <2>1. CASE HelperWrites
      <3>1. /\ request \in Frames /\ Arrived(request) < Length[request]
            /\ sink' = Append(sink, <<request, Arrived(request) + 1>>)
        BY <2>1, WrittenByte
      <3>2. UNCHANGED <<request, outcome>> BY <2>1 DEF HelperWrites, evaluationVars
      <3>3. Outputs!Arrive(request) BY <3>1, <3>2, SameCount DEF Outputs!Arrive
      <3>4. QED BY <3>1, <3>3 DEF Outputs!Next, Frames
    <2>2. CASE ~HelperWrites
      <3>1. UNCHANGED <<request, outcome, sink>>
        BY <1>1, <2>2
        DEF Worker, HelperReadsHeader, HelperReadsText, HelperLeaves, HelperWriteFails,
            HelperReplies, evaluationVars
      <3>2. QED BY <3>1, UnseenStep
    <2>3. QED BY <2>1, <2>2
  <1>2. CASE HelperStarts \/ HelperStops \/ HelperKilled \/ User
    <2>1. UNCHANGED <<request, outcome, sink>>
      BY <1>2
      DEF HelperStarts, HelperStops, HelperKilled, User, Interrupt, Stop, Resume,
          CancelParked, evaluationVars
    <2>2. QED BY <2>1, UnseenStep
  <1>3. CASE Progress
    <2>1. CASE FlushAcknowledged
      <3>1. replies # <<>> /\ pending /\ request \in Frames
        BY <2>1, Numbers DEF FlushAcknowledged, IInv, CallInv
      <3>2. CASE Head(replies) = "ok"
        <4>1. replies[1] = "ok" BY <3>1, <3>2, HeadTailProperties DEF IInv, TypeOK
        <4>2. Arrived(request) = Length[request] BY <3>1, <4>1 DEF IInv, ReplyInv
        <4>3. /\ outcome' = [outcome EXCEPT ![request] = "ok"] /\ request' = 0
              /\ sink' = sink
          BY <2>1, <3>2 DEF FlushAcknowledged
        <4>4. Outputs!Written(request) BY <4>2, <4>3, SameCount DEF Outputs!Written
        <4>5. QED BY <3>1, <4>4 DEF Outputs!Next, Frames
      <3>3. CASE Head(replies) # "ok"
        <4>1. UNCHANGED <<request, outcome, sink>> BY <2>1, <3>3 DEF FlushAcknowledged
        <4>2. QED BY <4>1, UnseenStep
      <3>4. QED BY <3>2, <3>3
    <2>2. CASE Cancelled
      <3>1. request' = 0 /\ sink' = sink BY <2>2 DEF Cancelled
      <3>2. CASE request = 0
        <4>1. outcome' = outcome BY <2>2, <3>2 DEF Cancelled
        <4>2. QED BY <3>1, <3>2, <4>1, UnseenStep
      <3>3. CASE request # 0
        <4>1. outcome' = [outcome EXCEPT ![request] = "error"] BY <2>2, <3>3 DEF Cancelled
        <4>2. outcome[request] = "none" /\ request \in Frames
          BY <3>3, Numbers DEF IInv, RequestInv
        <4>3. Outputs!Fails(request) BY <3>1, <4>1, <4>2 DEF Outputs!Fails
        <4>4. QED BY <4>2, <4>3 DEF Outputs!Next, Frames
      <3>4. QED BY <3>2, <3>3
    <2>3. CASE ~FlushAcknowledged /\ ~Cancelled
      <3>1. UNCHANGED <<request, outcome, sink>>
        BY <1>3, <2>3
        DEF Progress, Committed, CommitFails, FlushWrites, FlushBroken, FlushEnds,
            Finished, FinishCancels, Freeze, Frozen, evaluationVars
      <3>2. QED BY <3>1, UnseenStep
    <2>4. QED BY <2>1, <2>2, <2>3
  <1>4. CASE Evaluation
    <2>1. CASE Finish \/ NextEntry
      <3>1. UNCHANGED <<request, outcome, sink>> BY <2>1 DEF Finish, NextEntry
      <3>2. QED BY <3>1, UnseenStep
    <2>2. CASE Output \/ OutputFails
      <3>1. /\ next \in Frames /\ outcome[next] = "none" /\ request = 0
        <4>1. call = "idle" /\ next <= Len(Length) BY <2>2 DEF Output, OutputFails
        <4>2. next \in 1..(Len(Length) + 1) BY DEF IInv, TypeOK
        <4>3. next \in Frames BY <4>1, <4>2, FrameNumbers
        <4>4. QED BY <4>1, <4>3, FrameNumbers DEF IInv, CallInv, RequestInv
      <3>2. CASE Output
        <4>1. Outputs!Begin(next) BY <3>1, <3>2 DEF Output, Outputs!Begin
        <4>2. QED BY <3>1, <4>1 DEF Outputs!Next, Frames
      <3>3. CASE OutputFails
        <4>1. Outputs!Fails(next) BY <3>1, <3>3 DEF OutputFails, Outputs!Fails
        <4>2. QED BY <3>1, <4>1 DEF Outputs!Next, Frames
      <3>4. QED BY <2>2, <3>2, <3>3
    <2>3. QED BY <1>4, <2>1, <2>2 DEF Evaluation
  <1>5. QED BY <1>1, <1>2, <1>3, <1>4 DEF Next

\* Over any suspension, kill or cancellation, the bytes of a frame reach the
\* descriptor once and in order, and a frame is reported written only after its
\* last byte: every behaviour of the writer is one of Delivery.
THEOREM WriterImplementsDelivery == Spec => ImplementsDelivery
  <1>1. Init => Outputs!Init BY DEF Init, Outputs!Init, Outputs!Frames, Frames
  <1>2. IInv /\ [Next]_vars => [Outputs!Next]_(Outputs!vars)
    <2>1. CASE UNCHANGED vars
      BY <2>1, UnseenStep DEF vars, evaluationVars
    <2>2. QED BY <2>1, StepDelivers
  <1>3. QED BY <1>1, <1>2, WriterInvariant, PTL DEF Spec, ImplementsDelivery, Outputs!Spec
=============================================================================
