-------------------------- MODULE ProcessSourceProofs --------------------------
(***************************************************************************)
(* Proofs about ProcessSource, for pipelines of any length and any bounds  *)
(* on bytes and foreign signals: the stream ends only after everything,    *)
(* and the exit policy blames the right stage.                             *)
(***************************************************************************)
EXTENDS ProcessSource, WellFoundedInduction, TLAPS

\* close has dropped its pipes.
Shut == call \in {"cancel", "reap", "closed"}

\* No byte is lost or counted twice on its way through the pipes, the caller and
\* the relay; an ended pipe is an empty one.
BytesInv ==
  /\ data + taken <= written.out
  /\ ~Shut => data + taken = written.out
  /\ relayed + noise <= written.err
  /\ ~Shut /\ relay \in {"none", "idle"} => relayed + noise = written.err
  /\ ~output => data = 0
  /\ ~errors => noise = 0

\* Until close, the source gives a pipe up only when no stage can write to it.
EndsInv ==
  /\ ~Shut /\ ~output => N \notin Alive \/ plan.stdout[N] = "file"
  /\ ~Shut /\ ~errors => relay = "none" \/ Alive = {}
  /\ relay = "none" => ~errors
  /\ Shut => ~output /\ ~errors
  /\ finished => Alive = {} /\ exit = fate

\* What the relay and the last answer are while a call is under way.
CallInv ==
  /\ call = "relay" => relay = "busy"
  /\ call = "next" => relay \in {"none", "idle"}
  /\ call = "finish" => relay = "idle" /\ ~output /\ ~errors /\ finished
  /\ relay = "failed" => Shut \/ (call \in {"idle", "parked"} /\ result.kind = "io")
  /\ result.kind = "end" => call = "idle"
  /\ call \in {"next", "relay", "finish"} => result.kind \notin {"process", "io", "end"}
  /\ call = "closed" => Alive = {}

\* Why a stage ended decides how it can look: a supervised end is on record, and
\* before close nothing the source did has ended anybody.
CauseInv ==
  /\ \A i \in Stages :
       /\ fate[i] = "none" <=> cause[i] = "none"
       /\ cause[i] = "own" => fate[i] \in {"ok", "fail"}
       /\ cause[i] = "foreign" => fate[i] \in {"pipe", "term"}
       /\ cause[i] \in {"reader", "errors", "cutoff"} => fate[i] = "pipe"
       /\ cause[i] = "cutoff" => OutputConnected(i)
       /\ cause[i] = "supervisor" => <<i, fate[i]>> \in sent
       /\ \A signal \in pend[i] : <<i, signal>> \in sent
       /\ ~Shut => pend[i] = {} /\ cause[i] \in {"none", "own", "foreign", "reader"}
  /\ \A i \in observed : cause[i] \in {"own", "foreign", "reader"}

IInv ==
  /\ TypeOK /\ BytesInv /\ EndsInv /\ CallInv /\ CauseInv
  /\ RightFailure /\ EndAfterAll

-----------------------------------------------------------------------------
(* The rightmost failure.                                                  *)

\* Every nonempty set of numbers has a least one.
LEMMA LeastNumber ==
  ASSUME NEW T, T \subseteq Nat, T # {}
  PROVE  \E x \in T : \A y \in T : x <= y
  <1> DEFINE R == OpToRel(<, Nat)
  <1>1. IsWellFoundedOn(R, Nat) BY NatLessThanWellFounded
  <1>2. \A x, y \in Nat : y < x => <<y, x>> \in R BY DEF OpToRel
  <1> HIDE DEF R
  <1>3. PICK x \in T : \A y \in T : ~(<<y, x>> \in R) BY <1>1, WFMin
  <1>4. \A y \in T : ~(y < x) BY <1>2, <1>3
  <1>5. QED BY <1>4

\* A nonempty set of stages has a rightmost one, and Max finds it.
LEMMA RightmostStage ==
  ASSUME NEW T, T \subseteq Stages, T # {}
  PROVE  Max(T) \in T /\ \A i \in T : i <= Max(T)
  <1> DEFINE U == {N - i : i \in T}
  <1>1. N \in Nat BY PipelineSize
  <1>2. U \subseteq Nat /\ U # {}
    <2>1. \A i \in T : i \in 1..N BY DEF Stages
    <2>2. \A i \in T : N - i \in Nat BY <1>1, <2>1
    <2>3. \E u : u \in U OBVIOUS
    <2>4. QED BY <2>2, <2>3
  <1>3. PICK x \in U : \A y \in U : x <= y BY <1>2, LeastNumber
  <1>4. PICK j \in T : x = N - j BY <1>3
  <1>5. \A i \in T : N - j <= N - i BY <1>3, <1>4
  <1>6. \A i \in T : i <= j BY <1>1, <1>4, <1>5 DEF Stages
  <1>7. \E i \in T : \A k \in T : i >= k BY <1>4, <1>6 DEF Stages
  <1>8. Max(T) \in T /\ \A k \in T : Max(T) >= k BY <1>7 DEF Max
  <1>9. QED BY <1>8 DEF Stages

\* Failure names a stage whose end is neither accepted, expected nor a cutoff,
\* unless there is none, and no such stage is to the right of it.
LEMMA FailureNames ==
  ASSUME NEW seen, NEW expected,
         NEW failing, failing = {i \in Stages \ expected :
                                   seen[i] # "ok" /\ ~(Connected(i) /\ seen[i] = "pipe")}
  PROVE  \/ failing = {} /\ Failure(seen, expected) = 0
         \/ /\ Failure(seen, expected) \in failing
            /\ \A i \in failing : i <= Failure(seen, expected)
  <1>1. Failure(seen, expected) = IF failing = {} THEN 0 ELSE Max(failing)
    BY DEF Failure
  <1>2. failing \subseteq Stages OBVIOUS
  <1>3. failing # {} => Max(failing) \in failing /\ \A i \in failing : i <= Max(failing)
    BY <1>2, RightmostStage
  <1>4. QED BY <1>1, <1>3

\* The answer made of it.
LEMMA VerdictNames ==
  ASSUME NEW seen, NEW expected, NEW otherwise \in {"end", "closed"},
         NEW verdict, verdict = Verdict(Failure(seen, expected), otherwise)
  PROVE  /\ verdict \in Results /\ verdict.kind \in {"process", otherwise}
         /\ verdict.kind = "process" =>
              /\ verdict.stage \in Stages \ expected
              /\ seen[verdict.stage] # "ok"
              /\ ~(Connected(verdict.stage) /\ seen[verdict.stage] = "pipe")
         /\ \A i \in Stages \ expected :
              seen[i] # "ok" /\ ~(Connected(i) /\ seen[i] = "pipe") =>
                verdict.kind = "process" /\ verdict.stage >= i
  <1> DEFINE failing == {i \in Stages \ expected :
                           seen[i] # "ok" /\ ~(Connected(i) /\ seen[i] = "pipe")}
             stage == Failure(seen, expected)
  <1>1. \/ failing = {} /\ stage = 0
        \/ stage \in failing /\ \A i \in failing : i <= stage
    BY FailureNames
  <1>2. 0 \notin Stages /\ Stages \subseteq Nat BY DEF Stages
  <1>3. verdict = Verdict(stage, otherwise) OBVIOUS
  <1>4. CASE failing = {} /\ stage = 0
    <2>1. verdict = Plain(otherwise) BY <1>3, <1>4 DEF Verdict
    <2>2. verdict.kind = otherwise BY <2>1 DEF Plain
    <2>3. verdict \in Results BY <2>1 DEF Results
    <2>4. QED BY <1>4, <2>2, <2>3
  <1>5. CASE stage \in failing /\ \A i \in failing : i <= stage
    <2>1. stage \in Stages \ expected /\ stage # 0 BY <1>2, <1>5
    <2>2. verdict = Failed(stage) BY <1>3, <2>1 DEF Verdict
    <2>3. verdict.kind = "process" /\ verdict.stage = stage BY <2>2 DEF Failed
    <2>4. verdict \in Results BY <2>1, <2>2 DEF Results
    <2>5. \A i \in failing : verdict.stage >= i BY <1>2, <1>5, <2>3
    <2>6. QED BY <1>5, <2>1, <2>3, <2>4, <2>5
  <1>6. QED BY <1>1, <1>4, <1>5

-----------------------------------------------------------------------------
(* Frames: what leaves a part of the invariant alone.                      *)

\* No byte moves.
LEMMA BytesFrame ==
  ASSUME BytesInv, UNCHANGED <<data, noise, written, taken, relayed, output, errors, relay>>,
         ~Shut' => ~Shut
  PROVE  BytesInv'
  BY DEF BytesInv

\* Nothing ends and nothing is given up.
LEMMA EndsFrame ==
  ASSUME EndsInv, UNCHANGED <<plan, fate, output, errors, relay, finished>>,
         exit' \in {exit, fate}, Shut' = Shut
  PROVE  EndsInv'
  BY DEF EndsInv, Alive

\* Nobody ends, and no signal is sent.
LEMMA CauseFrame ==
  ASSUME CauseInv, UNCHANGED <<plan, fate, cause, pend, sent, observed>>, ~Shut' => ~Shut
  PROVE  CauseInv'
  BY DEF CauseInv, OutputConnected

\* No verdict is given.
LEMMA RightFrame ==
  ASSUME RightFailure, UNCHANGED <<plan, fate, cause, observed>>,
         result' = result \/ result'.kind \notin {"process", "end"},
         call # "closed", call' # "closed"
  PROVE  RightFailure'
  <1>1. FailureGenuine'
    BY DEF RightFailure, FailureGenuine, Connected, OutputConnected
  <1>2. FailureKept'
    BY DEF RightFailure, FailureKept, Connected, Over
  <1>3. QED BY <1>1, <1>2 DEF RightFailure

\* The stream does not end, or has ended.
LEMMA EndFrame ==
  ASSUME EndAfterAll,
         \/ result'.kind # "end"
         \/ /\ UNCHANGED <<result, fate, taken, written, relayed, output, errors, relay>>
            /\ exit' \in {exit, fate}
  PROVE  EndAfterAll'
  BY DEF EndAfterAll, Alive

-----------------------------------------------------------------------------
(* The stages.                                                             *)

\* How a stage may end, and why.
Explained(i, how, why) ==
  \/ why = "own" /\ how \in {"ok", "fail"}
  \/ why = "foreign" /\ how \in {"pipe", "term"}
  \/ why = "reader" /\ how = "pipe"
  \/ why = "errors" /\ how = "pipe" /\ Shut
  \/ why = "cutoff" /\ how = "pipe" /\ Shut /\ OutputConnected(i)
  \/ why = "supervisor" /\ how \in pend[i] /\ how \in {"term", "kill"}

\* A stage ends.
LEMMA DiesStep ==
  ASSUME IInv, NEW i \in Alive, NEW how, NEW why, Dies(i, how, why), Explained(i, how, why),
         UNCHANGED <<plan, pipes, exit, sent, ends, finished, relay, caller>>,
         foreign' \in 0..MaxForeign
  PROVE  IInv'
  <1> USE DEF pipes, ends, caller
  <1>0. i \in Stages /\ fate[i] = "none" BY DEF Alive
  <1>1. /\ how \in Fates \ {"none"}
        /\ why \in {"own", "foreign", "reader", "errors", "cutoff", "supervisor"}
    BY DEF Explained, Fates
  <1>2. TypeOK
        /\ fate' = [fate EXCEPT ![i] = how] /\ cause' = [cause EXCEPT ![i] = why]
        /\ halted' = halted \ {i} /\ pend' = [pend EXCEPT ![i] = {}]
    BY DEF Dies, IInv
  <1>3. /\ fate'[i] = how /\ cause'[i] = why /\ pend'[i] = {}
        /\ \A j \in Stages \ {i} : fate'[j] = fate[j] /\ cause'[j] = cause[j]
                                   /\ pend'[j] = pend[j]
    BY <1>0, <1>2 DEF TypeOK
  <1>4. Alive' = Alive \ {i} BY <1>0, <1>1, <1>3 DEF Alive
  <1>5. TypeOK'
    <2>1. /\ fate' \in [Stages -> Fates] /\ pend' \in [Stages -> SUBSET {"term", "kill"}]
          /\ cause' \in [Stages -> {"none", "own", "foreign", "reader", "cutoff", "errors",
                                    "supervisor"}]
          /\ halted' \subseteq Stages
      BY <1>1, <1>2 DEF TypeOK
    <2>2. QED BY <1>2, <2>1 DEF TypeOK
  <1>6. BytesInv' BY DEF IInv, BytesInv, Shut
  <1>7. ~finished /\ Alive # {} BY DEF IInv, EndsInv
  <1>8. EndsInv' BY <1>4, <1>7 DEF IInv, EndsInv, Shut
  <1>9. call # "closed" /\ result.kind # "end"
    BY <1>7 DEF IInv, CallInv, EndAfterAll
  <1>10. CallInv' BY <1>9 DEF IInv, CallInv, Shut
  <1>11. CauseInv'
    <2>1. \A j \in Stages \ {i} :
            /\ fate'[j] = "none" <=> cause'[j] = "none"
            /\ cause'[j] = "own" => fate'[j] \in {"ok", "fail"}
            /\ cause'[j] = "foreign" => fate'[j] \in {"pipe", "term"}
            /\ cause'[j] \in {"reader", "errors", "cutoff"} => fate'[j] = "pipe"
            /\ cause'[j] = "cutoff" => OutputConnected(j)
            /\ cause'[j] = "supervisor" => <<j, fate'[j]>> \in sent
            /\ \A signal \in pend'[j] : <<j, signal>> \in sent
            /\ ~Shut => pend'[j] = {} /\ cause'[j] \in {"none", "own", "foreign", "reader"}
      BY <1>3 DEF IInv, CauseInv
    <2>2. /\ fate'[i] = "none" <=> cause'[i] = "none"
          /\ cause'[i] = "own" => fate'[i] \in {"ok", "fail"}
          /\ cause'[i] = "foreign" => fate'[i] \in {"pipe", "term"}
          /\ cause'[i] \in {"reader", "errors", "cutoff"} => fate'[i] = "pipe"
          /\ cause'[i] = "cutoff" => OutputConnected(i)
          /\ cause'[i] = "supervisor" => <<i, fate'[i]>> \in sent
          /\ \A signal \in pend'[i] : <<i, signal>> \in sent
          /\ ~Shut => pend'[i] = {} /\ cause'[i] \in {"none", "own", "foreign", "reader"}
      BY <1>0, <1>1, <1>3 DEF IInv, CauseInv, Explained
    <2>3. \A j \in observed : cause'[j] \in {"own", "foreign", "reader"}
      <3>1. i \notin observed
        BY <1>0 DEF IInv, CauseInv
      <3>2. observed \subseteq Stages \ {i} BY <1>2, <3>1 DEF TypeOK
      <3>3. QED BY <1>3, <3>2 DEF IInv, CauseInv
    <2>4. \A j \in Stages : OutputConnected(j)' = OutputConnected(j) /\ Shut' = Shut
      BY DEF OutputConnected, Shut
    <2>5. QED BY <2>1, <2>2, <2>3, <2>4 DEF CauseInv
  <1>12. RightFailure'
    <2>1. FailureGenuine'
      <3> SUFFICES ASSUME result.kind = "process"
                   PROVE  LET j == result.stage
                          IN  /\ fate'[j] # "ok"
                              /\ \/ cause'[j] \in {"own", "foreign"}
                                 \/ cause'[j] = "reader" /\ ~Connected(j)
                                 \/ cause'[j] = "errors" /\ ~OutputConnected(j)
        BY DEF FailureGenuine, Connected, OutputConnected
      <3>1. result.stage \in Stages
        <4>1. result \in Results BY <1>2 DEF TypeOK
        <4>2. PICK j \in Stages : result = Failed(j) BY <4>1 DEF Results, Plain
        <4>3. QED BY <4>2 DEF Failed
      <3>2. cause[result.stage] # "none" BY DEF IInv, RightFailure, FailureGenuine
      <3>3. result.stage # i BY <1>0, <3>2 DEF IInv, CauseInv
      <3>4. QED BY <1>3, <3>1, <3>3 DEF IInv, RightFailure, FailureGenuine
    <2>2. FailureKept' BY <1>9 DEF FailureKept, Over
    <2>3. QED BY <2>1, <2>2 DEF RightFailure
  <1>13. EndAfterAll' BY <1>9, EndFrame DEF IInv
  <1>14. QED BY <1>5, <1>6, <1>8, <1>10, <1>11, <1>12, <1>13 DEF IInv

\* A stage writes a byte that the source or the relay will read.
LEMMA WritesStep ==
  ASSUME IInv, WritesOutput \/ \E i \in Stages : WritesErrors(i)
  PROVE  IInv'
  <1> USE DEF processes, ends, caller
  <1>1. TypeOK /\ MaxBytes \in Nat BY BoundsNatural DEF IInv
  <1>2. /\ Alive # {}
        /\ UNCHANGED <<plan, fate, cause, halted, pend, foreign, exit, sent, output, errors,
                       finished, relay, call, result, observed, taken, relayed>>
    <2>1. \E i \in Stages : Runs(i)
      BY PipelineSize DEF WritesOutput, WritesErrors, Stages
    <2>2. QED BY <2>1 DEF WritesOutput, WritesErrors, Untouched, Runs, Alive
  <1>3. \/ /\ output /\ N \in Alive /\ plan.stdout[N] = "pipe" /\ written.out < MaxBytes
           /\ data' = data + 1 /\ noise' = noise
           /\ written'.out = written.out + 1 /\ written'.err = written.err
        \/ /\ errors /\ written.err < MaxBytes
           /\ noise' = noise + 1 /\ data' = data
           /\ written'.err = written.err + 1 /\ written'.out = written.out
    BY <1>1, PipelineSize DEF WritesOutput, WritesErrors, Runs, Alive, Stages, TypeOK
  <1>4. written' \in [out : 0..MaxBytes, err : 0..MaxBytes]
    BY <1>1 DEF WritesOutput, WritesErrors, TypeOK
  <1>5. result.kind # "end" /\ call # "closed" /\ ~finished
    BY <1>2 DEF IInv, EndAfterAll, CallInv, EndsInv
  <1>6. BytesInv'
    <2>1. /\ data \in Nat /\ noise \in Nat /\ taken \in Nat /\ relayed \in Nat
          /\ written.out \in Nat /\ written.err \in Nat
      BY <1>1 DEF TypeOK
    <2>2. (output /\ errors => ~Shut) /\ (output => ~Shut) /\ (errors => ~Shut)
      BY DEF IInv, EndsInv
    <2>3. BytesInv BY DEF IInv
    <2>4. QED BY <1>2, <1>3, <2>1, <2>2, <2>3 DEF BytesInv, Shut
  <1>7. data' \in 0..MaxBytes /\ noise' \in 0..MaxBytes
    <2>1. /\ data \in Nat /\ noise \in Nat /\ taken \in Nat /\ relayed \in Nat
          /\ written.out \in Nat /\ written.err \in Nat
      BY <1>1 DEF TypeOK
    <2>2. data + taken <= written.out /\ relayed + noise <= written.err
      BY DEF IInv, BytesInv
    <2>3. data \in 0..MaxBytes /\ noise \in 0..MaxBytes BY <1>1 DEF TypeOK
    <2>4. QED BY <1>1, <1>3, <2>1, <2>2, <2>3
  <1>8. TypeOK' BY <1>1, <1>2, <1>4, <1>7 DEF TypeOK
  <1>9. EndsInv' /\ CauseInv'
    BY <1>2, EndsFrame, CauseFrame DEF IInv, Shut
  <1>10. CallInv' BY <1>2, <1>5 DEF IInv, CallInv, Shut
  <1>11. RightFailure' BY <1>2, <1>5, RightFrame DEF IInv
  <1>12. EndAfterAll' BY <1>2, <1>5, EndFrame DEF IInv
  <1>13. QED BY <1>6, <1>8, <1>9, <1>10, <1>11, <1>12 DEF IInv

\* Someone stops or continues a stage.
LEMMA HaltsStep ==
  ASSUME IInv, UNCHANGED <<plan, fate, cause, pend, pipes, exit, sent, ends, finished, relay, caller>>,
         halted' \subseteq Stages, foreign' \in 0..MaxForeign
  PROVE  IInv'
  <1> USE DEF pipes, ends, caller
  <1>1. TypeOK' BY DEF IInv, TypeOK
  <1>2. BytesInv' /\ EndsInv' /\ CauseInv'
    BY BytesFrame, EndsFrame, CauseFrame DEF IInv, Shut
  <1>3. CallInv' BY DEF IInv, CallInv, Shut, Alive
  <1>4. RightFailure' BY DEF IInv, RightFailure, FailureGenuine, FailureKept, Connected, OutputConnected, Over
  <1>5. EndAfterAll' BY EndFrame DEF IInv
  <1>6. QED BY <1>1, <1>2, <1>3, <1>4, <1>5 DEF IInv

\* The steps of a stage.
LEMMA StageStep ==
  ASSUME IInv, NEW i \in Stages, Stage(i)
  PROVE  IInv'
  <1> USE DEF Untouched
  <1>0. TypeOK /\ MaxForeign \in Nat BY BoundsNatural DEF IInv
  <1>1. CASE WritesErrors(i) BY <1>1, WritesStep
  <1>2. CASE Breaks(i)
    <2>1. /\ i \in Alive /\ plan.stdout[i] = "pipe"
          /\ UNCHANGED <<plan, pipes, foreign, exit, sent, ends, finished, relay, caller>>
          /\ \/ i = N /\ ~output /\ Dies(i, "pipe", "cutoff")
             \/ Dies(i, "pipe", "reader")
      BY <1>2 DEF Breaks, Runs, Alive
    <2>2. i = N /\ ~output => Shut /\ OutputConnected(i)
      BY <2>1 DEF IInv, EndsInv, OutputConnected
    <2>3. PICK why : Dies(i, "pipe", why) /\ Explained(i, "pipe", why)
      BY <2>1, <2>2 DEF Explained
    <2>4. foreign' \in 0..MaxForeign BY <1>0, <2>1 DEF TypeOK
    <2>5. QED BY <2>1, <2>3, <2>4, DiesStep
  <1>3. CASE BreaksErrors(i)
    <2>1. /\ i \in Alive /\ relay # "none" /\ ~errors /\ Dies(i, "pipe", "errors")
          /\ UNCHANGED <<plan, pipes, foreign, exit, sent, ends, finished, relay, caller>>
      BY <1>3 DEF BreaksErrors, Runs, Alive
    <2>2. Shut BY <2>1 DEF IInv, EndsInv
    <2>3. Explained(i, "pipe", "errors") BY <2>2 DEF Explained
    <2>4. foreign' \in 0..MaxForeign BY <1>0, <2>1 DEF TypeOK
    <2>5. QED BY <2>1, <2>3, <2>4, DiesStep
  <1>4. ASSUME NEW how \in {"ok", "fail"}, Exits(i, how) PROVE IInv'
    <2>1. /\ i \in Alive /\ Dies(i, how, "own")
          /\ UNCHANGED <<plan, pipes, foreign, exit, sent, ends, finished, relay, caller>>
      BY <1>4 DEF Exits, Runs, Alive
    <2>2. Explained(i, how, "own") BY DEF Explained
    <2>3. foreign' \in 0..MaxForeign BY <1>0, <2>1 DEF TypeOK
    <2>4. QED BY <2>1, <2>2, <2>3, DiesStep
  <1>5. ASSUME NEW signal \in {"term", "kill"}, Delivered(i, signal) PROVE IInv'
    <2>1. /\ i \in Alive /\ signal \in pend[i] /\ Dies(i, signal, "supervisor")
          /\ UNCHANGED <<plan, pipes, foreign, exit, sent, ends, finished, relay, caller>>
      BY <1>5 DEF Delivered
    <2>2. Explained(i, signal, "supervisor") BY <2>1 DEF Explained
    <2>3. foreign' \in 0..MaxForeign BY <1>0, <2>1 DEF TypeOK
    <2>4. QED BY <2>1, <2>2, <2>3, DiesStep
  <1>6. CASE Foreign(i)
    <2>1. /\ i \in Alive /\ foreign' \in 0..MaxForeign
          /\ UNCHANGED <<plan, pipes, exit, sent, ends, finished, relay, caller>>
      BY <1>0, <1>6 DEF Foreign, TypeOK
    <2>2. ASSUME NEW signal \in {"pipe", "term"}, Dies(i, signal, "foreign") PROVE IInv'
      <3>1. Explained(i, signal, "foreign") BY DEF Explained
      <3>2. QED BY <2>1, <2>2, <3>1, DiesStep
    <2>3. CASE halted' \in {halted \cup {i}, halted \ {i}} /\ UNCHANGED <<fate, cause, pend>>
      <3>1. halted' \subseteq Stages BY <1>0, <2>3 DEF TypeOK
      <3>2. QED BY <2>1, <2>3, <3>1, HaltsStep
    <2>4. QED BY <1>6, <2>2, <2>3 DEF Foreign
  <1>7. QED BY <1>1, <1>2, <1>3, <1>4, <1>5, <1>6 DEF Stage

-----------------------------------------------------------------------------
(* next.                                                                   *)

\* A step of the caller that moves no byte and gives no verdict.
LEMMA QuietStep ==
  ASSUME IInv, UNCHANGED <<plan, fate, cause, pend, data, noise, written, taken, relayed,
                           output, errors, foreign, sent, relay, observed>>,
         exit' \in {exit, fate}, halted' \subseteq Stages,
         ~Shut, call' \in {"idle", "next", "relay", "finish", "parked"},
         result' \in {result, Plain("none"), Plain("stopped")}, result.kind # "end",
         call' \in {"next", "relay", "finish"} => result'.kind \notin {"process", "io"},
         call' = "relay" => relay = "busy",
         call' = "next" => relay \in {"none", "idle"},
         call' = "finish" => relay = "idle" /\ ~output /\ ~errors /\ finished',
         relay = "failed" => call' \in {"idle", "parked"} /\ result' = result,
         finished' \in BOOLEAN, finished' => Alive = {} /\ exit' = fate
  PROVE  IInv'
  <1>1. TypeOK' BY DEF IInv, TypeOK, Results
  <1>2. ~Shut' /\ call # "closed" /\ call' # "closed" BY DEF Shut
  <1>3. BytesInv' /\ CauseInv' BY <1>2, BytesFrame, CauseFrame DEF IInv
  <1>4. EndsInv' BY <1>2 DEF IInv, EndsInv, Alive
  <1>5. result'.kind # "end" BY DEF Plain
  <1>6. CallInv' BY <1>2, <1>5 DEF IInv, CallInv
  <1>7. result' = result \/ result'.kind \notin {"process", "end"} BY DEF Plain
  <1>8. RightFailure' BY <1>2, <1>7, RightFrame DEF IInv
  <1>9. EndAfterAll' BY <1>5, EndFrame DEF IInv
  <1>10. QED BY <1>1, <1>3, <1>4, <1>6, <1>8, <1>9 DEF IInv

\* A call begins, is dropped, waits for the job, or the group is parked or resumed.
LEMMA CallsStep ==
  ASSUME IInv, Call \/ Dropped \/ WaitsJob \/ Suspend \/ Resume
  PROVE  IInv'
  <1> USE DEF Undisturbed, processes, pipes, ends
  <1>0. TypeOK /\ Alive \subseteq Stages BY DEF IInv, Alive
  <1>1. CASE Call
    <2>1. /\ UNCHANGED <<plan, fate, cause, pend, data, noise, written, taken, relayed, halted,
                         output, errors, foreign, sent, relay, observed, exit, finished, result>>
          /\ call = "idle" /\ result.kind \notin {"process", "io", "end"}
          /\ call' = IF relay = "busy" THEN "relay" ELSE "next"
      BY <1>1 DEF Call
    <2>2. ~Shut BY <2>1 DEF Shut
    <2>3. relay # "failed" BY <2>1, <2>2 DEF IInv, CallInv
    <2>4. relay \in {"none", "idle", "busy"} BY <1>0, <2>3 DEF TypeOK
    <2>5. finished' \in BOOLEAN /\ (finished' => Alive = {} /\ exit' = fate) /\ halted' \subseteq Stages
      BY <1>0, <2>1 DEF IInv, EndsInv, TypeOK
    <2>6. QED BY <2>1, <2>2, <2>4, <2>5, QuietStep
  <1>2. CASE Dropped
    <2>1. /\ UNCHANGED <<plan, fate, cause, pend, data, noise, written, taken, relayed, halted,
                         output, errors, foreign, sent, relay, observed, exit, finished>>
          /\ call \in {"next", "relay", "finish"} /\ call' = "idle" /\ result' = NoFailure
      BY <1>2 DEF Dropped
    <2>2. ~Shut BY <2>1 DEF Shut
    <2>3. relay # "failed" /\ result.kind # "end" BY <2>1, <2>2 DEF IInv, CallInv
    <2>4. result' = Plain("none") BY <2>1 DEF NoFailure, Plain
    <2>5. finished' \in BOOLEAN /\ (finished' => Alive = {} /\ exit' = fate) /\ halted' \subseteq Stages
      BY <1>0, <2>1 DEF IInv, EndsInv, TypeOK
    <2>6. QED BY <2>1, <2>2, <2>3, <2>4, <2>5, QuietStep
  <1>3. CASE WaitsJob
    <2>1. /\ UNCHANGED <<plan, fate, cause, pend, data, noise, written, taken, relayed,
                         output, errors, foreign, sent, relay, observed>>
          /\ call = "next" /\ exit' = fate /\ ~finished
      BY <1>3 DEF WaitsJob, Selecting
    <2>2. \/ UNCHANGED <<halted, call, result, finished>>
          \/ Alive = {} /\ finished' = TRUE /\ UNCHANGED <<halted, call, result>>
          \/ /\ halted' = Alive /\ call' = "idle" /\ result' = Plain("stopped")
             /\ UNCHANGED finished
      BY <1>3 DEF WaitsJob
    <2>3. /\ UNCHANGED <<plan, fate, cause, pend, data, noise, written, taken, relayed,
                         output, errors, foreign, sent, relay, observed>>
          /\ call = "next" /\ exit' = fate
          /\ call' \in {"next", "idle"} /\ result' \in {result, Plain("stopped")}
          /\ halted' \in {halted, Alive}
          /\ (call' = "next" => result' = result)
          /\ (finished' = FALSE \/ (finished' = TRUE /\ Alive = {}))
      BY <1>0, <2>1, <2>2 DEF TypeOK
    <2>4. ~Shut BY <2>3 DEF Shut
    <2>5. /\ relay \in {"none", "idle"} /\ result.kind \notin {"process", "io", "end"}
      BY <2>3 DEF IInv, CallInv
    <2>6. finished' \in BOOLEAN /\ (finished' => Alive = {} /\ exit' = fate) /\ halted' \subseteq Stages
      BY <1>0, <2>3 DEF TypeOK
    <2>7. QED BY <2>3, <2>4, <2>5, <2>6, QuietStep
  <1>4. CASE Suspend
    <2>1. /\ UNCHANGED <<plan, fate, cause, pend, data, noise, written, taken, relayed,
                         output, errors, foreign, sent, relay, observed, finished, result>>
          /\ call = "idle" /\ result.kind # "end" /\ exit' = fate
          /\ call' = "parked" /\ halted' = Alive
      BY <1>4 DEF Suspend
    <2>2. ~Shut BY <2>1 DEF Shut
    <2>3. finished' \in BOOLEAN /\ (finished' => Alive = {} /\ exit' = fate) /\ halted' \subseteq Stages
      BY <1>0, <2>1 DEF IInv, EndsInv, TypeOK
    <2>4. QED BY <2>1, <2>2, <2>3, QuietStep
  <1>5. CASE Resume
    <2>1. /\ UNCHANGED <<plan, fate, cause, pend, data, noise, written, taken, relayed,
                         output, errors, foreign, sent, relay, observed, exit, finished>>
          /\ call = "parked" /\ call' = "idle" /\ halted' = {}
          /\ result' = IF result.kind = "stopped" THEN NoFailure ELSE result
      BY <1>5 DEF Resume
    <2>2. ~Shut BY <2>1 DEF Shut
    <2>3. result.kind # "end" /\ (relay = "failed" => result.kind = "io")
      BY <2>1, <2>2 DEF IInv, CallInv
    <2>4. result' \in {result, Plain("none")} /\ (relay = "failed" => result' = result)
      BY <2>1, <2>3 DEF NoFailure, Plain
    <2>5. finished' \in BOOLEAN /\ (finished' => Alive = {} /\ exit' = fate) /\ halted' \subseteq Stages
      BY <1>0, <2>1 DEF IInv, EndsInv, TypeOK
    <2>6. QED BY <2>1, <2>2, <2>3, <2>4, <2>5, QuietStep
  <1>6. QED BY <1>1, <1>2, <1>3, <1>4, <1>5

\* A chunk reaches the terminal, or the relay fails.
LEMMA RelayStep ==
  ASSUME IInv, Relayed \/ RelayFails
  PROVE  IInv'
  <1> USE DEF Undisturbed, processes, pipes, ends
  <1>0. TypeOK BY DEF IInv
  <1>1. /\ UNCHANGED <<plan, fate, cause, halted, pend, data, noise, written, foreign, exit, sent,
                       output, errors, finished, observed, taken>>
        /\ call = "relay"
        /\ \/ /\ relay' = "idle" /\ relayed' = written.err - noise
              /\ call' = "next" /\ result' = result
           \/ /\ relay' = "failed" /\ relayed' = relayed
              /\ call' = "idle" /\ result' = Plain("io")
    BY DEF Relayed, RelayFails
  <1>2. ~Shut /\ ~Shut' /\ relay = "busy" /\ result.kind \notin {"process", "io", "end"}
    BY <1>1 DEF IInv, CallInv, Shut
  <1>3. /\ noise \in 0..MaxBytes /\ written.err \in 0..MaxBytes /\ MaxBytes \in Nat
        /\ relayed \in 0..MaxBytes /\ relayed + noise <= written.err
    BY <1>0, BoundsNatural DEF IInv, BytesInv, TypeOK
  <1>4. relayed' \in 0..MaxBytes /\ relayed' + noise <= written.err
        /\ (relay' = "idle" => relayed' + noise = written.err)
    BY <1>1, <1>3
  <1>5. Plain("io") \in Results /\ Plain("io").kind = "io" BY DEF Results, Plain
  <1>6. TypeOK' BY <1>0, <1>1, <1>4, <1>5 DEF TypeOK
  <1>7. BytesInv' BY <1>1, <1>2, <1>4 DEF IInv, BytesInv
  <1>8. EndsInv' BY <1>1, <1>2 DEF IInv, EndsInv, Alive
  <1>9. CallInv' BY <1>1, <1>2, <1>5 DEF IInv, CallInv
  <1>10. CauseInv' BY <1>1, <1>2, CauseFrame DEF IInv
  <1>11. RightFailure' BY <1>1, <1>2, <1>5, RightFrame DEF IInv
  <1>12. EndAfterAll' BY <1>1, <1>2, <1>5, EndFrame DEF IInv
  <1>13. QED BY <1>6, <1>7, <1>8, <1>9, <1>10, <1>11, <1>12 DEF IInv

\* A chunk of output is returned, a chunk of stderr is handed over, or a pipe ends.
LEMMA ReadsStep ==
  ASSUME IInv, ReadOutput \/ ReadErrors
  PROVE  IInv'
  <1> USE DEF Undisturbed, processes, pipes, ends
  <1>0. TypeOK BY DEF IInv
  <1>1. /\ UNCHANGED <<plan, fate, cause, halted, pend, written, foreign, exit, sent,
                       finished, observed, relayed>>
        /\ call = "next"
    BY DEF ReadOutput, ReadErrors, Selecting
  <1>2. \/ /\ \E n \in 1..data : data' = data - n /\ taken' = taken + n
           /\ call' = "idle" /\ result' = Plain("item") /\ output
           /\ UNCHANGED <<noise, output, errors, relay>>
        \/ /\ data = 0 /\ (N \notin Alive \/ plan.stdout[N] = "file")
           /\ output' = FALSE /\ UNCHANGED <<data, taken, noise, errors, relay, call, result>>
        \/ /\ \E n \in 1..noise : noise' = noise - n
           /\ relay' = "busy" /\ call' = "relay" /\ errors
           /\ UNCHANGED <<data, taken, output, errors, result>>
        \/ /\ noise = 0 /\ Alive = {} /\ errors' = FALSE
           /\ UNCHANGED <<data, taken, noise, output, relay, call, result>>
    BY DEF ReadOutput, ReadErrors, OutputEnded
  <1>3. ~Shut /\ ~Shut' /\ relay \in {"none", "idle"} /\ result.kind \notin {"process", "io", "end"}
    BY <1>1, <1>2 DEF IInv, CallInv, Shut
  <1>4. /\ data \in Nat /\ noise \in Nat /\ taken \in Nat /\ relayed \in Nat
        /\ written.out \in 0..MaxBytes /\ written.err \in 0..MaxBytes /\ MaxBytes \in Nat
        /\ data + taken = written.out /\ relayed + noise = written.err
    BY <1>0, <1>3, BoundsNatural DEF IInv, BytesInv, TypeOK
  <1>5. /\ data' \in 0..MaxBytes /\ noise' \in 0..MaxBytes /\ taken' \in 0..MaxBytes
        /\ data' + taken' = written.out /\ relayed + noise' <= written.err
        /\ (noise' = noise => relayed + noise' = written.err)
    <2>1. written.out <= MaxBytes /\ written.err <= MaxBytes BY <1>4
    <2>2. CASE \E n \in 1..data : data' = data - n /\ taken' = taken + n /\ noise' = noise
      BY <1>4, <2>1, <2>2
    <2>3. CASE \E n \in 1..noise : noise' = noise - n /\ data' = data /\ taken' = taken
      BY <1>4, <2>1, <2>3
    <2>4. CASE UNCHANGED <<data, noise, taken>> BY <1>4, <2>1, <2>4
    <2>5. QED BY <1>2, <2>2, <2>3, <2>4
  <1>6. Plain("item") \in Results /\ Plain("item").kind = "item" BY DEF Results, Plain
  <1>7. TypeOK' BY <1>0, <1>1, <1>2, <1>5, <1>6 DEF TypeOK
  <1>8. BytesInv'
    <2>1. relay' \in {"none", "idle"} => noise' = noise BY <1>2
    <2>2. (~output' => data' = 0) /\ (~errors' => noise' = 0)
      BY <1>2 DEF IInv, BytesInv
    <2>3. data' + taken' <= written.out BY <1>4, <1>5
    <2>4. QED BY <1>1, <1>3, <1>5, <2>1, <2>2, <2>3 DEF BytesInv
  <1>9. EndsInv' BY <1>1, <1>2, <1>3 DEF IInv, EndsInv, Alive
  <1>10. CallInv' BY <1>1, <1>2, <1>3, <1>6 DEF IInv, CallInv
  <1>11. CauseInv' BY <1>1, <1>3, CauseFrame DEF IInv
  <1>12. RightFailure' BY <1>1, <1>2, <1>3, <1>6, RightFrame DEF IInv, Shut
  <1>13. EndAfterAll' BY <1>1, <1>2, <1>3, <1>6, EndFrame DEF IInv
  <1>14. QED BY <1>7, <1>8, <1>9, <1>10, <1>11, <1>12, <1>13 DEF IInv

\* Everything has ended: the terminations are judged.
LEMMA JudgesStep ==
  ASSUME IInv, call \in {"next", "finish"}, ~output, ~errors, finished,
         relay \in {"none", "idle"}, relay' = "none",
         call' = "idle", result' = Verdict(Classify(exit), "end"),
         UNCHANGED <<plan, fate, cause, halted, pend, data, noise, written, foreign, exit, sent,
                     output, errors, finished, observed, taken, relayed>>
  PROVE  IInv'
  <1>0. TypeOK /\ ~Shut /\ ~Shut' BY DEF IInv, Shut
  <1>1. Alive = {} /\ exit = fate BY DEF IInv, EndsInv
  <1>2. result' = Verdict(Failure(fate, {}), "end") BY <1>1 DEF Classify
  <1>3. PICK verdict : verdict = Verdict(Failure(fate, {}), "end") OBVIOUS
  <1>4. /\ verdict \in Results /\ verdict.kind \in {"process", "end"}
        /\ verdict.kind = "process" =>
             /\ verdict.stage \in Stages
             /\ fate[verdict.stage] # "ok"
             /\ ~(Connected(verdict.stage) /\ fate[verdict.stage] = "pipe")
        /\ \A i \in Stages :
             fate[i] # "ok" /\ ~(Connected(i) /\ fate[i] = "pipe") =>
               verdict.kind = "process" /\ verdict.stage >= i
    BY <1>3, VerdictNames
  <1>5. result' = verdict BY <1>2, <1>3
  <1>6. \A i \in Stages : fate[i] # "none" /\ cause[i] \in {"own", "foreign", "reader"}
    BY <1>0, <1>1 DEF IInv, CauseInv, Alive
  <1>7. TypeOK' BY <1>0, <1>4, <1>5 DEF TypeOK
  <1>8. BytesInv' BY <1>0 DEF IInv, BytesInv
  <1>9. EndsInv' BY <1>0, <1>1 DEF IInv, EndsInv, Alive
  <1>10. CallInv' BY <1>0, <1>4, <1>5 DEF IInv, CallInv
  <1>11. CauseInv' BY <1>0, CauseFrame DEF IInv
  <1>12. RightFailure'
    <2>1. FailureGenuine'
      <3> SUFFICES ASSUME verdict.kind = "process"
                   PROVE  LET j == verdict.stage
                          IN  /\ fate[j] # "ok"
                              /\ \/ cause[j] \in {"own", "foreign"}
                                 \/ cause[j] = "reader" /\ ~Connected(j)
                                 \/ cause[j] = "errors" /\ ~OutputConnected(j)
        BY <1>5 DEF FailureGenuine, Connected, OutputConnected
      <3>1. PICK j \in Stages : j = verdict.stage BY <1>4
      <3>2. fate[j] # "ok" /\ ~(Connected(j) /\ fate[j] = "pipe") BY <1>4, <3>1
      <3>3. cause[j] = "reader" => fate[j] = "pipe" BY DEF IInv, CauseInv
      <3>4. QED BY <1>6, <3>1, <3>2, <3>3
    <2>2. FailureKept'
      <3> SUFFICES ASSUME NEW i \in Stages, verdict.kind = "end",
                          fate[i] = "fail" \/ (cause[i] = "foreign" /\
                                               ~(Connected(i) /\ fate[i] = "pipe"))
                   PROVE  FALSE
        BY <1>4, <1>5 DEF FailureKept, Over, Connected
      <3>1. cause[i] = "foreign" => fate[i] \in {"pipe", "term"} BY DEF IInv, CauseInv
      <3>2. fate[i] # "ok" /\ ~(Connected(i) /\ fate[i] = "pipe") BY <3>1
      <3>3. QED BY <1>4, <3>2
    <2>3. QED BY <2>1, <2>2 DEF RightFailure
  <1>13. EndAfterAll'
    <2>1. data = 0 /\ noise = 0 /\ data + taken = written.out /\ relayed + noise = written.err
      BY <1>0 DEF IInv, BytesInv
    <2>2. taken \in Nat /\ relayed \in Nat BY <1>0, BoundsNatural DEF TypeOK
    <2>3. taken = written.out /\ relayed = written.err BY <2>1, <2>2
    <2>4. QED BY <1>1, <2>3 DEF EndAfterAll, Alive
  <1>14. QED BY <1>7, <1>8, <1>9, <1>10, <1>11, <1>12, <1>13 DEF IInv

\* The job is reaped, and the relay finished.
LEMMA CompletesStep ==
  ASSUME IInv, Completes \/ RelayFinished
  PROVE  IInv'
  <1> USE DEF Undisturbed, processes, pipes, ends
  <1>1. CASE RelayFinished
    <2>1. /\ UNCHANGED <<plan, fate, cause, halted, pend, data, noise, written, foreign, exit,
                         sent, output, errors, finished, observed, taken, relayed>>
          /\ call = "finish" /\ relay' = "none" /\ call' = "idle"
          /\ result' = Verdict(Classify(exit), "end")
      BY <1>1 DEF RelayFinished
    <2>2. relay = "idle" /\ ~output /\ ~errors /\ finished BY <2>1 DEF IInv, CallInv
    <2>3. QED BY <2>1, <2>2, JudgesStep
  <1>2. CASE Completes
    <2>1. /\ UNCHANGED <<plan, fate, cause, halted, pend, data, noise, written, foreign, exit,
                         sent, output, errors, finished, observed, taken, relayed, relay>>
          /\ call = "next" /\ ~output /\ ~errors /\ finished
      BY <1>2 DEF Completes
    <2>2. relay \in {"none", "idle"} /\ result.kind \notin {"process", "io", "end"} /\ ~Shut
      BY <2>1 DEF IInv, CallInv, Shut
    <2>3. CASE relay = "none"
      <3>1. call' = "idle" /\ result' = Verdict(Classify(exit), "end")
        BY <1>2, <2>3 DEF Completes
      <3>2. QED BY <2>1, <2>3, <3>1, JudgesStep
    <2>4. CASE relay = "idle"
      <3>1. call' = "finish" /\ result' = result BY <1>2, <2>4 DEF Completes
      <3>2. halted' \subseteq Stages BY <2>1 DEF IInv, TypeOK
      <3>3. finished' \in BOOLEAN /\ Alive = {} /\ exit' = fate
        BY <2>1 DEF IInv, EndsInv, TypeOK
      <3>4. QED BY <2>1, <2>2, <2>4, <3>1, <3>2, <3>3, QuietStep
    <2>5. QED BY <2>2, <2>3, <2>4
  <1>3. QED BY <1>1, <1>2

-----------------------------------------------------------------------------
(* close.                                                                  *)

\* close looks at the ends before it drops its pipes.
LEMMA CloseStep ==
  ASSUME IInv, Close
  PROVE  IInv'
  <1> USE DEF Undisturbed, processes, pipes, ends
  <1>0. TypeOK /\ MaxBytes \in Nat BY BoundsNatural DEF IInv
  <1>1. /\ UNCHANGED <<plan, fate, cause, halted, pend, written, foreign, sent, finished, relay,
                       result, taken, relayed>>
        /\ call \in {"idle", "parked"} /\ result.kind # "end" /\ call' = "cancel"
        /\ exit' = fate /\ observed' = Stages \ Alive
        /\ output' = FALSE /\ errors' = FALSE /\ data' = 0 /\ noise' = 0
    BY DEF Close
  <1>2. ~Shut /\ Shut' BY <1>1 DEF Shut
  <1>3. TypeOK'
    <2>1. 0 \in 0..MaxBytes /\ observed' \subseteq Stages BY <1>0, <1>1
    <2>2. data' \in 0..MaxBytes /\ noise' \in 0..MaxBytes BY <1>1, <2>1
    <2>3. QED BY <1>0, <1>1, <2>1, <2>2 DEF TypeOK
  <1>4. BytesInv'
    <2>1. /\ data \in Nat /\ noise \in Nat /\ taken \in Nat /\ relayed \in Nat
          /\ written.out \in Nat /\ written.err \in Nat
      BY <1>0 DEF TypeOK
    <2>2. data + taken <= written.out /\ relayed + noise <= written.err
      BY DEF IInv, BytesInv
    <2>3. 0 + taken <= written.out /\ relayed + 0 <= written.err BY <2>1, <2>2
    <2>4. QED BY <1>1, <1>2, <2>3 DEF BytesInv
  <1>5. EndsInv' BY <1>1, <1>2 DEF IInv, EndsInv, Alive
  <1>6. CallInv' BY <1>1, <1>2 DEF IInv, CallInv
  <1>7. CauseInv'
    <2>1. \A i \in observed' : cause[i] \in {"own", "foreign", "reader"}
      BY <1>1, <1>2 DEF IInv, CauseInv, Alive
    <2>2. QED BY <1>1, <1>2, <2>1 DEF IInv, CauseInv, OutputConnected
  <1>8. RightFailure'
    <2>1. FailureGenuine'
      BY <1>1 DEF IInv, RightFailure, FailureGenuine, Connected, OutputConnected
    <2>2. FailureKept' BY <1>1 DEF FailureKept, Over
    <2>3. QED BY <2>1, <2>2 DEF RightFailure
  <1>9. EndAfterAll' BY <1>1, EndFrame DEF IInv
  <1>10. QED BY <1>3, <1>4, <1>5, <1>6, <1>7, <1>8, <1>9 DEF IInv

\* A group signal, recorded for the stages it reaches.
LEMMA SignalsStep ==
  ASSUME IInv, NEW signal \in {"term", "kill"}, call \in {"cancel", "reap"}, call' = "reap",
         exit' = fate, sent' = sent \cup (Alive \X {signal}),
         pend' = [i \in Stages |-> IF i \in Alive THEN pend[i] \cup {signal} ELSE pend[i]],
         halted' \subseteq Stages,
         UNCHANGED <<plan, fate, cause, data, noise, written, foreign, output, errors, finished,
                     relay, result, observed, taken, relayed>>
  PROVE  IInv'
  <1>0. TypeOK /\ Shut /\ Shut' BY DEF IInv, Shut
  <1>1. TypeOK'
    <2>1. Alive \subseteq Stages BY DEF Alive
    <2>2. pend' \in [Stages -> SUBSET {"term", "kill"}] BY <1>0 DEF TypeOK
    <2>3. sent' \subseteq Stages \X {"term", "kill"} BY <1>0, <2>1 DEF TypeOK
    <2>4. QED BY <1>0, <2>2, <2>3 DEF TypeOK
  <1>2. BytesInv' BY <1>0, BytesFrame DEF IInv
  <1>3. EndsInv' BY <1>0, EndsFrame DEF IInv
  <1>4. result.kind # "end" BY DEF IInv, CallInv
  <1>5. CallInv' BY <1>0, <1>4 DEF IInv, CallInv
  <1>6. CauseInv'
    <2>1. \A i \in Stages : \A other \in pend'[i] : <<i, other>> \in sent'
      <3> SUFFICES ASSUME NEW i \in Stages, NEW other \in pend'[i] PROVE <<i, other>> \in sent'
        OBVIOUS
      <3>1. CASE other \in pend[i] BY <3>1 DEF IInv, CauseInv
      <3>2. CASE other \notin pend[i]
        <4>1. i \in Alive /\ other = signal BY <3>2
        <4>2. <<i, other>> \in Alive \X {signal} BY <4>1
        <4>3. QED BY <4>2
      <3>3. QED BY <3>1, <3>2
    <2>2. sent \subseteq sent' OBVIOUS
    <2>3. QED BY <1>0, <2>1, <2>2 DEF IInv, CauseInv, OutputConnected
  <1>7. RightFailure' BY <1>4, RightFrame DEF IInv
  <1>8. EndAfterAll' BY <1>4, EndFrame DEF IInv
  <1>9. QED BY <1>1, <1>2, <1>3, <1>5, <1>6, <1>7, <1>8 DEF IInv

\* Every stage is gone: close judges the ends it did not cause.
LEMMA ClosedStep ==
  ASSUME IInv, Closed
  PROVE  IInv'
  <1> USE DEF Undisturbed, processes, pipes, ends
  <1>0. TypeOK BY DEF IInv
  <1>1. /\ UNCHANGED <<plan, fate, cause, halted, pend, data, noise, written, foreign, sent,
                       output, errors, finished, observed, taken, relayed>>
        /\ call = "reap" /\ Alive = {} /\ call' = "closed" /\ exit' = fate /\ relay' = "none"
        /\ result' = Verdict(ClassifyCutoff(fate), "closed")
    BY DEF Closed
  <1>2. Shut /\ Shut' BY <1>1 DEF Shut
  <1>3. PICK expected : expected = {i \in Stages : CutoffExpected(fate, i)} OBVIOUS
  <1>4. PICK verdict : verdict = Verdict(Failure(fate, expected), "closed") OBVIOUS
  <1>5. /\ verdict \in Results /\ verdict.kind \in {"process", "closed"}
        /\ verdict.kind = "process" =>
             /\ verdict.stage \in Stages \ expected
             /\ fate[verdict.stage] # "ok"
             /\ ~(Connected(verdict.stage) /\ fate[verdict.stage] = "pipe")
        /\ \A i \in Stages \ expected :
             fate[i] # "ok" /\ ~(Connected(i) /\ fate[i] = "pipe") =>
               verdict.kind = "process" /\ verdict.stage >= i
    BY <1>4, VerdictNames
  <1>6. result' = verdict BY <1>1, <1>3, <1>4 DEF ClassifyCutoff
  <1>7. TypeOK' BY <1>0, <1>1, <1>5, <1>6 DEF TypeOK
  <1>8. BytesInv' BY <1>1, <1>2 DEF IInv, BytesInv
  <1>9. EndsInv' BY <1>1, <1>2 DEF IInv, EndsInv, Alive
  <1>10. CallInv' BY <1>1, <1>2, <1>5, <1>6 DEF IInv, CallInv, Alive
  <1>11. CauseInv' BY <1>1, <1>2, CauseFrame DEF IInv
  <1>12. FailureGenuine'
    <2> SUFFICES ASSUME verdict.kind = "process"
                 PROVE  LET j == verdict.stage
                        IN  /\ fate[j] # "ok"
                            /\ \/ cause[j] \in {"own", "foreign"}
                               \/ cause[j] = "reader" /\ ~Connected(j)
                               \/ cause[j] = "errors" /\ ~OutputConnected(j)
      BY <1>1, <1>6 DEF FailureGenuine, Connected, OutputConnected
    <2>1. PICK j \in Stages : j = verdict.stage /\ j \notin expected BY <1>5
    <2>2. fate[j] # "ok" /\ ~(Connected(j) /\ fate[j] = "pipe") BY <1>5, <2>1
    <2>3. ~CutoffExpected(fate, j) BY <1>3, <2>1
    <2>4. cause[j] # "none" BY <1>1, <2>1 DEF IInv, CauseInv, Alive
    <2>5. cause[j] \in {"own", "foreign", "reader", "cutoff", "errors", "supervisor"}
      BY <1>0, <2>1, <2>4 DEF TypeOK
    <2>6. CASE j \in observed
      <3>1. cause[j] \in {"own", "foreign", "reader"} BY <2>6 DEF IInv, CauseInv
      <3>2. cause[j] = "reader" => fate[j] = "pipe" BY <2>1 DEF IInv, CauseInv
      <3>3. QED BY <2>1, <2>2, <3>1, <3>2
    <2>7. CASE j \notin observed
      <3>1. /\ <<j, fate[j]>> \notin sent
            /\ ~(OutputConnected(j) /\ fate[j] = "pipe")
        BY <2>3, <2>7 DEF CutoffExpected
      <3>2. cause[j] # "supervisor" BY <2>1, <3>1 DEF IInv, CauseInv
      <3>3. cause[j] \in {"reader", "errors", "cutoff"} => fate[j] = "pipe"
        BY <2>1 DEF IInv, CauseInv
      <3>4. cause[j] # "cutoff" BY <2>1, <3>1, <3>3 DEF IInv, CauseInv
      <3>5. QED BY <2>1, <2>2, <2>5, <3>1, <3>2, <3>3, <3>4
    <2>8. QED BY <2>6, <2>7
  <1>13. FailureKept'
    <2> SUFFICES ASSUME NEW i \in Stages,
                        \/ fate[i] = "fail"
                        \/ cause[i] = "foreign" /\ i \in observed /\
                           ~(Connected(i) /\ fate[i] = "pipe")
                 PROVE  verdict.kind = "process" /\ verdict.stage >= i
      BY <1>1, <1>6 DEF FailureKept, Connected
    <2>1. cause[i] = "foreign" => fate[i] \in {"pipe", "term"} BY DEF IInv, CauseInv
    <2>2. fate[i] # "ok" /\ ~(Connected(i) /\ fate[i] = "pipe") BY <2>1
    <2>3. fate[i] = "fail" => <<i, fate[i]>> \notin sent
      BY <1>0 DEF TypeOK
    <2>4. ~CutoffExpected(fate, i) BY <2>3 DEF CutoffExpected
    <2>5. i \in Stages \ expected BY <1>3, <2>4
    <2>6. QED BY <1>5, <2>2, <2>5
  <1>14. RightFailure' BY <1>12, <1>13 DEF RightFailure
  <1>15. EndAfterAll' BY <1>5, <1>6, EndFrame DEF IInv
  <1>16. QED BY <1>7, <1>8, <1>9, <1>10, <1>11, <1>14, <1>15 DEF IInv

-----------------------------------------------------------------------------
(* The theorems.                                                           *)

\* The source starts inside the invariant.
LEMMA SourceInit == Init => IInv
  <1> SUFFICES ASSUME Init PROVE IInv OBVIOUS
  <1>1. 0 \in 0..MaxBytes /\ 0 \in 0..MaxForeign /\ 0 + 0 = 0 /\ 0 <= 0 BY BoundsNatural
  <1>2. NoFailure \in Results /\ NoFailure.kind = "none" BY DEF NoFailure, Results, Plain
  <1>3. TypeOK
    <2>1. /\ fate \in [Stages -> Fates] /\ exit \in [Stages -> Fates]
          /\ cause \in [Stages -> {"none", "own", "foreign", "reader", "cutoff", "errors",
                                   "supervisor"}]
          /\ pend \in [Stages -> SUBSET {"term", "kill"}]
      BY DEF Init, Fates
    <2>2. written \in [out : 0..MaxBytes, err : 0..MaxBytes] BY <1>1 DEF Init
    <2>3. QED BY <1>1, <1>2, <2>1, <2>2 DEF Init, TypeOK
  <1>4. BytesInv
    <2>1. written.out = 0 /\ written.err = 0 BY DEF Init
    <2>2. QED BY <1>1, <2>1 DEF Init, BytesInv
  <1>5. ~Shut BY DEF Init, Shut
  <1>6. EndsInv BY <1>5 DEF Init, EndsInv
  <1>7. CallInv BY <1>2 DEF Init, CallInv
  <1>8. CauseInv BY DEF Init, CauseInv
  <1>9. RightFailure /\ EndAfterAll
    BY <1>2 DEF Init, RightFailure, FailureGenuine, FailureKept, Over, EndAfterAll
  <1>10. QED BY <1>3, <1>4, <1>6, <1>7, <1>8, <1>9 DEF IInv

\* Every step of the source keeps the invariant.
LEMMA SourceStep == IInv /\ [Next]_vars => IInv'
  <1> SUFFICES ASSUME IInv, [Next]_vars PROVE IInv' OBVIOUS
  <1>0. TypeOK /\ Alive \subseteq Stages BY DEF IInv, Alive
  <1>1. CASE UNCHANGED vars
    <2>1. /\ UNCHANGED <<plan, fate, cause, pend, pipes, exit, sent, ends, finished, relay, caller>>
          /\ halted' = halted /\ foreign' = foreign
      BY <1>1 DEF vars, processes
    <2>2. halted' \subseteq Stages /\ foreign' \in 0..MaxForeign BY <1>0, <2>1 DEF TypeOK
    <2>3. QED BY <2>1, <2>2, HaltsStep
  <1>2. CASE Cancels
    <2>1. halted' \subseteq Stages BY <1>2 DEF Cancels
    <2>2. QED BY <1>2, <2>1, SignalsStep DEF Cancels, Undisturbed, pipes, ends
  <1>3. CASE Escalates
    <2>1. halted' \subseteq Stages BY <1>0, <1>3 DEF Escalates, TypeOK
    <2>2. QED BY <1>3, <2>1, SignalsStep DEF Escalates, Undisturbed, pipes, ends, caller
  <1>4. CASE \E i \in Stages : Stage(i) BY <1>4, StageStep
  <1>5. CASE Settled BY <1>1, <1>5 DEF Settled
  <1>6. QED
    BY <1>1, <1>2, <1>3, <1>4, <1>5, WritesStep, CallsStep, RelayStep, ReadsStep, CompletesStep,
       CloseStep, ClosedStep
       DEF Next, Reading, Closing

\* The invariant holds in every reachable state.
LEMMA SourceInvariant == Spec => []IInv
  BY SourceInit, SourceStep, PTL DEF Spec

\* Every reachable state of a source is well typed; in particular the caller is
\* never given, nor the terminal shown, more bytes than were written.
THEOREM SourceTypes == Spec => []TypeOK
  <1>1. IInv => TypeOK BY DEF IInv
  <1>2. QED BY <1>1, SourceInvariant, PTL

\* A pipeline of any length read as a stream ends only when every byte was
\* returned, stderr was shown in full, and every stage has ended and been observed.
THEOREM EndMeansAll == Spec => []EndAfterAll
  <1>1. IInv => EndAfterAll BY DEF IInv
  <1>2. QED BY <1>1, SourceInvariant, PTL

\* The exit policy blames a stage for an end of its own making only, and no failure
\* that closing the source did not cause is silenced, in pipelines of any length
\* and with any redirections.
THEOREM RightStageBlamed == Spec => []RightFailure
  <1>1. IInv => RightFailure BY DEF IInv
  <1>2. QED BY <1>1, SourceInvariant, PTL
================================================================================
