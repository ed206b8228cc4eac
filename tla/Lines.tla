------------------------------- MODULE Lines -------------------------------
(***************************************************************************)
(* The delimited decoder of rill-runtime/src/stream/lines.rs: `lines` over *)
(* a stream of byte chunks.  A buffer holds the rest of the current chunk  *)
(* and the bytes of the record in progress; one poll looks at no more than *)
(* a piece of the chunk, so that a long one cannot hold the scheduler.     *)
(*                                                                         *)
(* A byte is LF, CR, Bad (a byte that no UTF-8 text contains) or any other *)
(* value.  `Decoded` is the reference: what the whole input decodes to,    *)
(* said without chunks, pieces or state.                                   *)
(***************************************************************************)
EXTENDS Integers, Sequences, SequencesExt

CONSTANTS
  LF, CR, Bad,       \* the bytes the decoder tells apart
  Limit,             \* max_line_bytes
  Piece              \* the bytes one poll looks at: 16 * 1024 in the code

ASSUME LinesAssumption == Limit \in Nat /\ Piece \in Nat \ {0}

(* chunk is <<>> or <<the unread bytes of the current chunk>>. *)
EmptyBuffer == [chunk |-> <<>>, pending |-> <<>>, ended |-> FALSE]

Stripped(line) ==
  IF line # <<>> /\ Last(line) = CR THEN Front(line) ELSE line

Invalid(line) == \E i \in DOMAIN line : line[i] = Bad

LineKeeping(buffer, text) ==
  [poll |-> "Item", record |-> text, buffer |-> buffer]

(* Lines::line: the record in progress leaves the buffer, as text. *)
Line(buffer, text) ==
  IF Invalid(text)
  THEN [poll |-> "DecodeError", record |-> <<>>, buffer |-> buffer]
  ELSE [poll |-> "Item", record |-> text, buffer |-> [buffer EXCEPT !.pending = <<>>]]

(* The poll of a buffer with a chunk: up to its first newline, or a piece of it. *)
Scan(buffer) ==
  LET available == buffer.chunk[1]
      quantum   == IF Len(available) < Piece THEN Len(available) ELSE Piece
      newlines  == {i \in 1 .. quantum : available[i] = LF}
      newline   == newlines # {}
      count     == IF newline THEN (CHOOSE i \in newlines : \A j \in newlines : i =< j) - 1
                              ELSE quantum
      cursor    == count + (IF newline THEN 1 ELSE 0)
      pending   == buffer.pending \o SubSeq(available, 1, count)
      rest      == SubSeq(available, cursor + 1, Len(available))
      scanned   == [buffer EXCEPT !.chunk = IF rest = <<>> THEN <<>> ELSE <<rest>>,
                                  !.pending = pending]
  IN  IF Len(pending) > Limit
      THEN [poll |-> "LimitExceeded", record |-> <<>>, buffer |-> buffer]
      ELSE IF newline THEN Line(scanned, Stripped(pending))
      ELSE [poll |-> "Continue", record |-> <<>>, buffer |-> scanned]

(* Lines::poll. *)
Poll(buffer) ==
  IF buffer.chunk # <<>> THEN Scan(buffer)
  ELSE IF ~buffer.ended
       THEN [poll |-> "NeedInput", record |-> <<>>, buffer |-> buffer]
  ELSE IF buffer.pending = <<>>
       THEN [poll |-> "End", record |-> <<>>, buffer |-> buffer]
  ELSE Line(buffer, buffer.pending)

-----------------------------------------------------------------------------
(* The reference: bytes cut at every LF.  `whole` holds the terminated     *)
(* lines, `rest` what follows the last of them.                            *)
Cut(bytes) ==
  FoldLeft(LAMBDA cut, byte :
             IF byte = LF THEN [whole |-> Append(cut.whole, cut.rest), rest |-> <<>>]
                          ELSE [cut EXCEPT !.rest = Append(@, byte)],
           [whole |-> <<>>, rest |-> <<>>], bytes)

(* The lines before the first one that fails, and how that one fails. *)
Decoded(bytes) ==
  LET cut   == Cut(bytes)
      raw   == IF cut.rest = <<>> THEN cut.whole ELSE Append(cut.whole, cut.rest)
      text(i) == IF i =< Len(cut.whole) THEN Stripped(raw[i]) ELSE raw[i]
      fault(i) == IF Len(raw[i]) > Limit THEN "LimitExceeded"
                  ELSE IF Invalid(text(i)) THEN "DecodeError" ELSE "none"
      bad   == {i \in DOMAIN raw : fault(i) # "none"}
      first == CHOOSE i \in bad : \A j \in bad : i =< j
  IN  IF bad = {} THEN [records |-> [i \in DOMAIN raw |-> text(i)], fault |-> "none"]
      ELSE [records |-> [i \in 1 .. first - 1 |-> text(i)], fault |-> fault(first)]

(* How many of its lines the bytes so far settle: those an LF has ended. *)
Settled(bytes) == Len(SelectSeq(bytes, LAMBDA byte : byte = LF))
=============================================================================
