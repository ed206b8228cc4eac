---------------------------- MODULE LaunchBarrier ----------------------------
(***************************************************************************)
(* What a gated launch promises, without helpers, pipes or signals: the    *)
(* stages of one pipeline start one by one and set themselves up; a gate   *)
(* opens once, and only after every stage has reached it; a stage runs its *)
(* target only through the open gate; any stage that started may be over.  *)
(* docs/architecture.md, "Process launch and I/O": "Gates hold every       *)
(* target until the pipeline is ready".  Job implements this specification.*)
(***************************************************************************)
CONSTANT Stages     \* the stages of the launched pipeline

VARIABLES
  stage,            \* where each stage is
  arrived,          \* the stages that have reached the gate so far
  open              \* whether the gate has been opened

vars == <<stage, arrived, open>>

Places == {"unborn", "preparing", "waiting", "running", "over"}

TypeOK ==
  /\ stage \in [Stages -> Places]
  /\ arrived \subseteq Stages
  /\ open \in BOOLEAN

Init ==
  /\ stage = [i \in Stages |-> "unborn"]
  /\ arrived = {}
  /\ open = FALSE

Start(i) ==
  /\ stage[i] = "unborn"
  /\ stage' = [stage EXCEPT ![i] = "preparing"]
  /\ UNCHANGED <<arrived, open>>

Arrive(i) ==
  /\ stage[i] = "preparing"
  /\ stage' = [stage EXCEPT ![i] = "waiting"]
  /\ arrived' = arrived \cup {i}
  /\ UNCHANGED open

Open ==
  /\ arrived = Stages
  /\ open' = TRUE
  /\ UNCHANGED <<stage, arrived>>

Run(i) ==
  /\ open
  /\ stage[i] = "waiting"
  /\ stage' = [stage EXCEPT ![i] = "running"]
  /\ UNCHANGED <<arrived, open>>

End(i) ==
  /\ stage[i] # "unborn"
  /\ stage' = [stage EXCEPT ![i] = "over"]
  /\ UNCHANGED <<arrived, open>>

Next ==
  \/ Open
  \/ \E i \in Stages : Start(i) \/ Arrive(i) \/ Run(i) \/ End(i)

Spec == Init /\ [][Next]_vars
=============================================================================
