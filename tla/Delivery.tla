------------------------------ MODULE Delivery ------------------------------
(***************************************************************************)
(* What inherited output promises its evaluation, without helpers, pipes or *)
(* signals.  The evaluation writes one frame at a time to a shared          *)
(* descriptor; the bytes of a frame arrive once and in order while the      *)
(* frame is the one being written, and the frame is reported written only   *)
(* after its last byte.  docs/architecture.md, "Inherited output": "A frame *)
(* is acknowledged only after reaching the inherited descriptor".           *)
(* Writer implements this specification.                                    *)
(***************************************************************************)
EXTENDS Integers, Sequences

CONSTANT Length     \* Length[f] is the number of bytes of frame f

Frames == DOMAIN Length

VARIABLES
  current,          \* the frame being written, or 0
  outcome,          \* what the evaluation was told of each frame
  sink              \* the bytes that reached the descriptor: <<frame, index>>

vars == <<current, outcome, sink>>

Init ==
  /\ current = 0
  /\ outcome = [f \in Frames |-> "none"]
  /\ sink = <<>>

Begin(f) ==
  /\ current = 0 /\ outcome[f] = "none"
  /\ current' = f
  /\ UNCHANGED <<outcome, sink>>

\* How many bytes of frame f have arrived while it is the current frame.
Arrived(f) ==
  IF sink # <<>> /\ sink[Len(sink)][1] = f THEN sink[Len(sink)][2] ELSE 0

Arrive(f) ==
  /\ current = f
  /\ Arrived(f) < Length[f]
  /\ sink' = Append(sink, <<f, Arrived(f) + 1>>)
  /\ UNCHANGED <<current, outcome>>

Written(f) ==
  /\ current = f
  /\ Arrived(f) = Length[f]
  /\ outcome' = [outcome EXCEPT ![f] = "ok"]
  /\ current' = 0
  /\ UNCHANGED sink

\* The descriptor fails, the write is cancelled or never starts.
Fails(f) ==
  /\ current \in {0, f} /\ outcome[f] = "none"
  /\ outcome' = [outcome EXCEPT ![f] = "error"]
  /\ current' = 0
  /\ UNCHANGED sink

Next == \E f \in Frames : Begin(f) \/ Arrive(f) \/ Written(f) \/ Fails(f)

Spec == Init /\ [][Next]_vars
=============================================================================
