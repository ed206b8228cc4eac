----------------------------- MODULE ProcessSource -----------------------------
(***************************************************************************)
(* A launched pipeline read as a stream of bytes: process_source.rs in     *)
(* crates/rill-system/src, with the exit policy of report.rs and the share *)
(* of the kernel in it: the two pipes the stages write, broken pipes,      *)
(* exits and signals.  Stage i feeds stage i+1; the last one feeds         *)
(* `output`, all of them `errors` when stderr is a terminal.               *)
(*                                                                         *)
(* The job's own protocol is the Job module's business: here a group       *)
(* signal reaches every live stage, a poll observes every end, and a       *)
(* reported stop is a stop of everybody.  The relay is a Writer.           *)
(***************************************************************************)
EXTENDS Integers, FiniteSets, FiniteSetsExt

CONSTANTS
  N,           \* stages of the pipeline
  MaxBytes,    \* bytes written to each of the two pipes
  MaxForeign   \* signals sent by other parties

ASSUME PipelineSize == N \in Nat \ {0}
ASSUME BoundsNatural == MaxBytes \in Nat /\ MaxForeign \in Nat

Stages == 1..N

VARIABLES
  plan,      \* where each stage's stdin and stdout are redirected to
  \* the processes
  fate,      \* how a stage ended: "ok" is an accepted code, "fail" another one
  cause,     \* why it ended
  halted,    \* stages stopped by job control
  pend,      \* termination signals a stage has not yet acted on
  \* the pipes
  data,      \* bytes in the output pipe
  noise,     \* bytes in the errors pipe
  written,   \* bytes written to output and to errors so far
  foreign,   \* signals sent by other parties so far
  \* ProcessSource and its Job
  exit,      \* the observed terminations
  sent,      \* cleanup_signals
  output,    \* is the output pipe's read end held?
  errors,    \* is the errors pipe's read end held?
  finished,
  relay,     \* the stderr helper: none, idle, busy with a chunk, or failed
  \* the caller
  call,      \* the call in progress and where it awaits
  result,    \* what the last finished call returned
  observed,  \* stages whose end close knew before it closed the pipes
  taken,     \* bytes returned by next
  relayed    \* bytes written to the terminal

processes == <<fate, cause, halted, pend>>
pipes == <<data, noise, written>>
ends == <<output, errors>>
caller == <<call, result, observed, taken, relayed>>
vars == <<plan, processes, pipes, foreign, exit, sent, ends, finished, relay, caller>>

Alive == {i \in Stages : fate[i] = "none"}
Fates == {"none", "ok", "fail", "pipe", "term", "kill"}

NoFailure == [kind |-> "none", stage |-> 0]
Failed(i) == [kind |-> "process", stage |-> i]
Plain(kind) == [kind |-> kind, stage |-> 0]

Init ==
  /\ plan \in [stdin : [Stages -> {"pipe", "file"}], stdout : [Stages -> {"pipe", "file"}]]
  /\ fate = [i \in Stages |-> "none"]
  /\ cause = [i \in Stages |-> "none"]
  /\ halted = {}
  /\ pend = [i \in Stages |-> {}]
  /\ data = 0 /\ noise = 0 /\ written = [out |-> 0, err |-> 0]
  /\ foreign = 0
  /\ exit = [i \in Stages |-> "none"]
  /\ sent = {}
  /\ output = TRUE
  /\ \/ errors = TRUE /\ relay = "idle"
     \/ errors = FALSE /\ relay = "none"
  /\ finished = FALSE
  /\ call = "idle" /\ result = NoFailure
  /\ observed = {} /\ taken = 0 /\ relayed = 0

-----------------------------------------------------------------------------
(* The stages.                                                             *)

Runs(i) == fate[i] = "none" /\ i \notin halted

Dies(i, how, why) ==
  /\ fate' = [fate EXCEPT ![i] = how]
  /\ cause' = [cause EXCEPT ![i] = why]
  /\ halted' = halted \ {i}
  /\ pend' = [pend EXCEPT ![i] = {}]

Untouched == UNCHANGED <<plan, exit, sent, ends, finished, relay, caller>>

\* The last stage writes to the output pipe, which the source reads.
WritesOutput ==
  /\ Runs(N) /\ plan.stdout[N] = "pipe" /\ output
  /\ written.out < MaxBytes
  /\ data' = data + 1
  /\ written' = [written EXCEPT !.out = @ + 1]
  /\ UNCHANGED <<processes, noise, foreign>> /\ Untouched

\* A stage writes to the errors pipe.
WritesErrors(i) ==
  /\ Runs(i) /\ errors
  /\ written.err < MaxBytes
  /\ noise' = noise + 1
  /\ written' = [written EXCEPT !.err = @ + 1]
  /\ UNCHANGED <<processes, data, foreign>> /\ Untouched

\* A write nobody can read any more kills its stage with SIGPIPE: the source has
\* closed the output, or the next stage has ended or never read this pipe.
Breaks(i) ==
  /\ Runs(i) /\ plan.stdout[i] = "pipe"
  /\ \/ i = N /\ ~output /\ Dies(i, "pipe", "cutoff")
     \/ i < N /\ (i + 1 \notin Alive \/ plan.stdin[i + 1] = "file") /\ Dies(i, "pipe", "reader")
  /\ UNCHANGED <<pipes, foreign>> /\ Untouched

\* The same for stderr, once close has dropped its pipe.
BreaksErrors(i) ==
  /\ Runs(i) /\ relay # "none" /\ ~errors
  /\ Dies(i, "pipe", "errors")
  /\ UNCHANGED <<pipes, foreign>> /\ Untouched

\* A stage exits by itself, from its SIGTERM handler too.
Exits(i, how) ==
  /\ Runs(i)
  /\ Dies(i, how, "own")
  /\ UNCHANGED <<pipes, foreign>> /\ Untouched

\* A signal of the supervisor takes effect; SIGTERM may also be ignored.
Delivered(i, signal) ==
  /\ i \in Alive /\ signal \in pend[i]
  /\ signal = "term" => Runs(i)
  /\ Dies(i, signal, "supervisor")
  /\ UNCHANGED <<pipes, foreign>> /\ Untouched

\* Another party kills, stops or continues a stage.
Foreign(i) ==
  /\ i \in Alive /\ foreign < MaxForeign
  /\ foreign' = foreign + 1
  /\ \/ \E signal \in {"pipe", "term"} : Runs(i) /\ Dies(i, signal, "foreign")
     \/ halted' \in {halted \cup {i}, halted \ {i}} /\ UNCHANGED <<fate, cause, pend>>
  /\ UNCHANGED pipes /\ Untouched

Stage(i) ==
  \/ WritesErrors(i) \/ Breaks(i) \/ BreaksErrors(i) \/ Foreign(i)
  \/ \E how \in {"ok", "fail"} : Exits(i, how)
  \/ \E signal \in {"term", "kill"} : Delivered(i, signal)

-----------------------------------------------------------------------------
(* The exit policy.                                                        *)

\* A stage whose stdout is the next stage's stdin.
Connected(i) == i < N /\ plan.stdout[i] = "pipe" /\ plan.stdin[i + 1] = "pipe"

\* The rightmost stage whose end is neither accepted, expected nor a cutoff, or 0.
Failure(seen, expected) ==
  LET failing == {i \in Stages \ expected : /\ seen[i] # "ok"
                                            /\ ~(Connected(i) /\ seen[i] = "pipe")}
  IN  IF failing = {} THEN 0 ELSE Max(failing)

\* Mistaken variant: the stage after the failed one.
ClassifyNext(seen) ==
  LET i == Failure(seen, {}) IN  IF i = 0 THEN 0 ELSE i + 1

Classify(seen) == Failure(seen, {})

\* Its stdout reaches the source, through later stages or directly.
OutputConnected(i) ==
  plan.stdout[i] = "pipe" /\ (i = N \/ plan.stdin[i + 1] = "pipe")

\* Mistaken variants: what close knew before it is forgotten, or the broken pipe
\* of the last stage is nobody's doing.
CutoffForgetting(seen, i) ==
  <<i, seen[i]>> \in sent \/ (OutputConnected(i) /\ seen[i] = "pipe")

CutoffSignalled(seen, i) ==
  i \notin observed /\ <<i, seen[i]>> \in sent

\* An end that closing the source explains: it was not known before, and is the
\* signal that was sent or a broken pipe.
CutoffExpected(seen, i) ==
  /\ i \notin observed
  /\ <<i, seen[i]>> \in sent \/ (OutputConnected(i) /\ seen[i] = "pipe")

ClassifyCutoff(seen) == Failure(seen, {i \in Stages : CutoffExpected(seen, i)})

Verdict(stage, otherwise) == IF stage = 0 THEN Plain(otherwise) ELSE Failed(stage)

-----------------------------------------------------------------------------
(* next.                                                                   *)

Undisturbed == UNCHANGED <<plan, foreign>>

\* Mistaken variant: the chunk under way is forgotten with the dropped future.
CallAfresh ==
  /\ call = "idle" /\ result.kind \notin {"process", "io", "end"}
  /\ call' = "next"
  /\ UNCHANGED <<processes, pipes, exit, sent, ends, finished, relay, result, observed,
                 taken, relayed>> /\ Undisturbed

\* A call begins, or begins again after its future was dropped; a chunk on its
\* way to the terminal is finished first.
Call ==
  /\ call = "idle" /\ result.kind \notin {"process", "io", "end"}
  /\ call' = IF relay = "busy" THEN "relay" ELSE "next"
  /\ UNCHANGED <<processes, pipes, exit, sent, ends, finished, relay, result, observed,
                 taken, relayed>> /\ Undisturbed

\* The chunk has reached the terminal, or its descriptor fails.
Relayed ==
  /\ call = "relay"
  /\ relay' = "idle" /\ relayed' = written.err - noise
  /\ call' = "next"
  /\ UNCHANGED <<processes, pipes, exit, sent, ends, finished, result, observed, taken>>
  /\ Undisturbed

RelayFails ==
  /\ call = "relay"
  /\ relay' = "failed"
  /\ call' = "idle" /\ result' = Plain("io")
  /\ UNCHANGED <<processes, pipes, exit, sent, ends, finished, observed, taken, relayed>>
  /\ Undisturbed

Selecting == call = "next" /\ ~(~output /\ ~errors /\ finished)

OutputEnded == data = 0 /\ (N \notin Alive \/ plan.stdout[N] = "file")

\* A chunk is returned, or the output ends.
ReadOutput ==
  /\ Selecting /\ output
  /\ \/ \E n \in 1..data :
          /\ data' = data - n /\ taken' = taken + n
          /\ call' = "idle" /\ result' = Plain("item")
          /\ UNCHANGED output
     \/ /\ OutputEnded
        /\ output' = FALSE
        /\ UNCHANGED <<data, taken, call, result>>
  /\ UNCHANGED <<processes, noise, written, exit, sent, errors, finished, relay, observed,
                 relayed>> /\ Undisturbed

\* Mistaken variant: the end of stderr is not recorded.
ReadErrorsOnly ==
  /\ Selecting /\ errors
  /\ \/ /\ noise > 0
        /\ noise' = 0 /\ relay' = "busy" /\ call' = "relay"
        /\ UNCHANGED errors
     \/ /\ noise = 0 /\ Alive = {}
        /\ UNCHANGED <<noise, relay, call, errors>>
  /\ UNCHANGED <<processes, data, written, exit, sent, output, finished, result, observed,
                 taken, relayed>> /\ Undisturbed

\* A chunk of stderr is handed to the relay, or stderr ends.
ReadErrors ==
  /\ Selecting /\ errors
  /\ \/ \E n \in 1..noise :
          noise' = noise - n /\ relay' = "busy" /\ call' = "relay" /\ UNCHANGED errors
     \/ /\ noise = 0 /\ Alive = {}
        /\ errors' = FALSE
        /\ UNCHANGED <<noise, relay, call>>
  /\ UNCHANGED <<processes, data, written, exit, sent, output, finished, result, observed,
                 taken, relayed>> /\ Undisturbed

\* Job::wait: ends are observed, one stopped stage freezes the group and stops the
\* stream, and the end of every stage finishes the job.
WaitsJob ==
  /\ Selecting /\ ~finished
  /\ exit' = fate
  /\ \/ /\ Alive # {} /\ halted = {} /\ exit # fate
        /\ UNCHANGED <<halted, call, result, finished>>
     \/ /\ Alive = {}
        /\ finished' = TRUE
        /\ UNCHANGED <<halted, call, result>>
     \/ /\ halted # {}
        /\ halted' = Alive
        /\ call' = "idle" /\ result' = Plain("stopped")
        /\ UNCHANGED finished
  /\ UNCHANGED <<fate, cause, pend, pipes, sent, ends, relay, observed, taken, relayed>>
  /\ Undisturbed

\* Both pipes and the job have ended: the job is reaped and the relay finished ...
Completes ==
  /\ call = "next" /\ ~output /\ ~errors /\ finished
  /\ IF relay = "none" THEN call' = "idle" /\ result' = Verdict(Classify(exit), "end")
     ELSE call' = "finish" /\ UNCHANGED result
  /\ UNCHANGED <<processes, pipes, exit, sent, ends, finished, relay, observed, taken,
                 relayed>> /\ Undisturbed

\* ... and the terminations are checked.
RelayFinished ==
  /\ call = "finish"
  /\ relay' = "none"
  /\ call' = "idle" /\ result' = Verdict(Classify(exit), "end")
  /\ UNCHANGED <<processes, pipes, exit, sent, ends, finished, observed, taken, relayed>>
  /\ Undisturbed

\* Another source of the selection wins, or the evaluation stops: the future of
\* next is dropped where it awaits.
Dropped ==
  /\ call \in {"next", "relay", "finish"}
  /\ call' = "idle" /\ result' = NoFailure
  /\ UNCHANGED <<processes, pipes, exit, sent, ends, finished, relay, observed, taken,
                 relayed>> /\ Undisturbed

-----------------------------------------------------------------------------
(* suspend, resume and close.                                              *)

\* A parked evaluation stops the group and the relay; wait observes it.
Suspend ==
  /\ call = "idle" /\ result.kind # "end"
  /\ call' = "parked"
  /\ halted' = Alive /\ exit' = fate
  /\ UNCHANGED <<fate, cause, pend, pipes, sent, ends, finished, relay, result, observed,
                 taken, relayed>> /\ Undisturbed

Resume ==
  /\ call = "parked"
  /\ call' = "idle"
  /\ result' = IF result.kind = "stopped" THEN NoFailure ELSE result
  /\ halted' = {}
  /\ UNCHANGED <<fate, cause, pend, pipes, exit, sent, ends, finished, relay, observed,
                 taken, relayed>> /\ Undisturbed

\* close observes the ends so far before it drops its pipes.
Close ==
  /\ call \in {"idle", "parked"} /\ result.kind # "end"
  /\ call' = "cancel"
  /\ exit' = fate /\ observed' = Stages \ Alive
  /\ output' = FALSE /\ errors' = FALSE
  /\ data' = 0 /\ noise' = 0
  /\ UNCHANGED <<processes, written, sent, finished, relay, result, taken, relayed>>
  /\ Undisturbed

\* Job::cancel asks the stages to end, and continues them so that they can.
Cancels ==
  /\ call = "cancel"
  /\ call' = "reap"
  /\ exit' = fate
  /\ sent' = sent \cup (Alive \X {"term"})
  /\ pend' = [i \in Stages |-> IF i \in Alive THEN pend[i] \cup {"term"} ELSE pend[i]]
  /\ halted' = {}
  /\ UNCHANGED <<fate, cause, pipes, ends, finished, relay, result, observed, taken, relayed>>
  /\ Undisturbed

\* The grace period is over: what is left is killed.
Escalates ==
  /\ call = "reap" /\ Alive # {}
  /\ ~\E i \in Stages : <<i, "kill">> \in sent
  /\ exit' = fate
  /\ sent' = sent \cup (Alive \X {"kill"})
  /\ pend' = [i \in Stages |-> IF i \in Alive THEN pend[i] \cup {"kill"} ELSE pend[i]]
  /\ UNCHANGED <<fate, cause, halted, pipes, ends, finished, relay, caller>>
  /\ Undisturbed

\* Every stage has been reaped and the relay cancelled: close judges the ends.
Closed ==
  /\ call = "reap" /\ Alive = {}
  /\ call' = "closed"
  /\ exit' = fate
  /\ relay' = "none"
  /\ result' = Verdict(ClassifyCutoff(fate), "closed")
  /\ UNCHANGED <<processes, pipes, sent, ends, finished, observed, taken, relayed>>
  /\ Undisturbed

Settled == (call = "closed" \/ result.kind = "end") /\ Alive = {} /\ UNCHANGED vars

Reading ==
  \/ Relayed \/ RelayFails \/ ReadOutput \/ ReadErrors \/ WaitsJob \/ Completes
  \/ RelayFinished
Closing == Cancels \/ Escalates \/ Closed

Next ==
  \/ WritesOutput \/ \E i \in Stages : Stage(i)
  \/ Call \/ Reading \/ Dropped \/ Suspend \/ Resume \/ Close \/ Closing \/ Settled

Spec == Init /\ [][Next]_vars

\* The event loop runs, the relay takes or refuses its chunk, the grace timer
\* fires and SIGKILL is delivered.  Nothing is assumed of the stages.
Fairness ==
  /\ WF_vars(Reading) /\ WF_vars(Closing)
  /\ WF_vars(\E i \in Stages : Delivered(i, "kill"))

FairSpec == Spec /\ Fairness

-----------------------------------------------------------------------------
(* Properties.                                                             *)

Results ==
  {Plain(kind) : kind \in {"none", "item", "end", "stopped", "io", "closed"}}
    \cup {Failed(i) : i \in Stages}

\* Every variable has its type.
TypeOK ==
  /\ plan \in [stdin : [Stages -> {"pipe", "file"}], stdout : [Stages -> {"pipe", "file"}]]
  /\ fate \in [Stages -> Fates] /\ exit \in [Stages -> Fates]
  /\ cause \in [Stages -> {"none", "own", "foreign", "reader", "cutoff", "errors", "supervisor"}]
  /\ halted \subseteq Stages /\ observed \subseteq Stages
  /\ pend \in [Stages -> SUBSET {"term", "kill"}]
  /\ written \in [out : 0..MaxBytes, err : 0..MaxBytes]
  /\ data \in 0..MaxBytes /\ noise \in 0..MaxBytes
  /\ taken \in 0..MaxBytes /\ relayed \in 0..MaxBytes
  /\ foreign \in 0..MaxForeign
  /\ sent \subseteq Stages \X {"term", "kill"}
  /\ output \in BOOLEAN /\ errors \in BOOLEAN /\ finished \in BOOLEAN
  /\ relay \in {"none", "idle", "busy", "failed"}
  /\ call \in {"idle", "next", "relay", "finish", "parked", "cancel", "reap", "closed"}
  /\ result \in Results

\* A stage is blamed only for an end of its own or of somebody else's making,
\* never for what closing the source did to it; broken pipes that no connected
\* stdout explains count as its own (report.rs and check_cutoff).
FailureGenuine ==
  result.kind = "process" =>
    LET i == result.stage
    IN  /\ fate[i] # "ok"
        /\ \/ cause[i] \in {"own", "foreign"}
           \/ cause[i] = "reader" /\ ~Connected(i)
           \/ cause[i] = "errors" /\ ~OutputConnected(i)

Over == call = "closed" \/ result.kind = "end"

\* A failure of a stage of its own, or one that was known before close dropped its
\* pipes, is never silenced: it is reported, or a stage to its right is ("an
\* already observed failure must keep its original meaning", process_source.rs).
FailureKept ==
  Over => \A i \in Stages :
    \/ fate[i] = "fail"
    \/ /\ cause[i] = "foreign" /\ (call = "closed" => i \in observed)
       /\ ~(Connected(i) /\ fate[i] = "pipe")
    => result.kind = "process" /\ result.stage >= i

\* The exit policy blames the right stage: no other one, and never nobody.
RightFailure == FailureGenuine /\ FailureKept

\* The stream ends when every byte was returned, every byte of stderr was written
\* to the terminal and every stage has ended and been observed ("EOF is not a
\* substitute for waitpid", docs/execution.md), over any number of dropped calls.
EndAfterAll ==
  result.kind = "end" =>
    /\ Alive = {} /\ exit = fate
    /\ taken = written.out /\ relayed = written.err
    /\ ~output /\ ~errors /\ relay = "none"

\* Once all stages have ended a call of next returns, and close always does.
SourceEnds ==
  /\ (call \in {"next", "relay", "finish"} /\ Alive = {}) ~> call \notin {"next", "relay", "finish"}
  /\ call = "cancel" ~> call = "closed"
================================================================================
