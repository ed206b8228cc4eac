-------------------------- MODULE ProducersEndProofs --------------------------
(***************************************************************************)
(* How the producers and the resources of an evaluation end, for any       *)
(* number of them and of attempts and errors: every acquired producer is   *)
(* released once, from its latest state, a closed producer leaves nothing  *)
(* open in its scope, and an ended evaluation nothing at all.  And what it *)
(* ends with: the first error, the later ones noted with it.  And that a   *)
(* consumer does not return before all of its graph is closed.             *)
(***************************************************************************)
EXTENDS ProducersProofs

-----------------------------------------------------------------------------
(* What cleanup retains, and what is released.                             *)

\* A cleanup that retains an error of a callback or of the host: one was raised.  A
\* cancellation or an exit is retained by the outermost cleanup only.
Caused(i) ==
  frames[i].kind = "cleanup" =>
    /\ frames[i].error.kind = "op" => errors > 0
    /\ frames[i].error.kind \in {"cancel", "exit"} =>
         \A j \in 1..i - 1 : frames[j].kind # "cleanup"
CauseInv == \A i \in 1..Depth : Caused(i)

LEMMA SameCauses ==
  ASSUME ShapeInv, CauseInv, frames' \in Seq(Frame), NEW n, Stands(n), Same(n), errors <= errors',
         errors' \in Int,
         frames[n].kind = "cleanup" => \/ frames'[n].error.kind = frames[n].error.kind
                                       \/ frames'[n].error.kind = "op" /\ errors' > 0,
         Len(frames') = n + 1 /\ frames'[n + 1].kind = "cleanup" =>
           \/ frames'[n + 1].error.kind = "none"
           \/ frames'[n + 1].error.kind = "op" /\ errors' > 0
           \/ /\ frames'[n + 1].error.kind \in {"cancel", "exit"}
              /\ \A j \in 1..n : frames[j].kind # "cleanup"
  PROVE  CauseInv'
  <1>1. Depth \in Nat /\ errors \in Int /\ n \in 1..Depth /\ n \in Nat
    <2>1. Depth \in Nat BY LenProperties DEF Depth, ShapeInv, TypeInv
    <2>2. errors \in Int BY Bounds DEF ShapeInv, TypeInv, VarInv
    <2>3. QED BY <2>1, <2>2 DEF Stands
  <1>2. \A i \in 1..n : frames'[i].kind = frames[i].kind BY Former
  <1>3. Len(frames') \in {n, n + 1} BY DEF Stands
  <1>4. SUFFICES ASSUME NEW i \in 1..Len(frames'), frames'[i].kind = "cleanup"
                 PROVE  /\ frames'[i].error.kind = "op" => errors' > 0
                        /\ frames'[i].error.kind \in {"cancel", "exit"} =>
                             \A j \in 1..i - 1 : frames'[j].kind # "cleanup"
    BY DEF CauseInv, Caused, Depth
  <1>5. CASE i \in 1..n
    <2>1. /\ frames[i].kind = "cleanup" /\ i \in 1..Depth
          /\ \A j \in 1..i - 1 : frames'[j].kind = frames[j].kind
      BY <1>1, <1>2, <1>4, <1>5
    <2>2. /\ frames[i].error.kind = "op" => errors > 0
          /\ frames[i].error.kind \in {"cancel", "exit"} =>
               \A j \in 1..i - 1 : frames[j].kind # "cleanup"
      BY <2>1 DEF CauseInv, Caused
    <2>3. \/ frames'[i].error.kind = frames[i].error.kind
          \/ frames'[i].error.kind = "op" /\ errors' > 0
      <3>1. CASE i = n BY <2>1, <3>1
      <3>2. CASE i # n
        <4>1. i \in 1..n - 1 BY <1>1, <1>5, <3>2
        <4>2. QED BY <4>1 DEF Same
      <3>3. QED BY <3>1, <3>2
    <2>4. QED BY <1>1, <2>1, <2>2, <2>3
  <1>6. CASE i = n + 1 /\ Len(frames') = n + 1
    <2>1. \A j \in 1..i - 1 : j \in 1..n BY <1>1, <1>6
    <2>2. QED BY <1>2, <1>4, <1>6, <2>1
  <1>7. QED BY <1>1, <1>3, <1>4, <1>5, <1>6

\* What is deferred to a cleanup is an error of a callback or of the host.
LEMMA OriginCause ==
  ASSUME ShapeInv, CauseInv, NEW m, NEW fs, NEW error, Origin(m, fs, error)
  PROVE  /\ \/ error.kind = "op" /\ errors' > 0
            \/ error.kind \in {"cancel", "exit"} /\ \A j \in 1..m : frames[j].kind # "cleanup"
         /\ Deferred(fs, error) => error.kind = "op" /\ errors' > 0
  <1>1. /\ m \in 1..Depth /\ Depth \in Nat \ {0} /\ Running
        /\ fs \in Seq(Frame) /\ Len(fs) = m /\ DOMAIN fs = 1..m
        /\ \A i \in 1..m : fs[i] = frames[i]
        /\ error.kind \in {"op", "cancel", "exit"} /\ Aborts(error) \in BOOLEAN
    BY OriginIs
  <1>2. errors \in Nat BY Bounds DEF ShapeInv, TypeInv, VarInv
  <1>3. \/ error.kind = "op" /\ errors' > 0
        \/ error.kind \in {"cancel", "exit"} /\ \A j \in 1..m : frames[j].kind # "cleanup"
    <2>1. CASE m = Depth /\ error = Error("op", errors + 1) /\ errors' = errors + 1
      <3>1. error.kind = "op" BY <2>1 DEF Error
      <3>2. QED BY <1>2, <2>1, <3>1
    <2>2. CASE Cleanups(frames) = {} /\ error.kind \in {"cancel", "exit"}
      <3>1. DOMAIN frames = 1..Depth BY <1>1, TopIs
      <3>2. \A j \in 1..m : frames[j].kind # "cleanup" BY <1>1, <2>2, <3>1 DEF Cleanups
      <3>3. QED BY <2>2, <3>2
    <2>3. CASE /\ m + 1 = Depth /\ Top \in CleanupFrames /\ error = Top.error /\ errors' = errors
      <3>1. Top = frames[Depth] /\ Top.kind = "cleanup" BY <1>1, <2>3, TopIs, CleanupFields
      <3>2. Depth \in 1..Depth /\ Depth - 1 = m BY <1>1, <2>3
      <3>3. Caused(Depth) BY <3>2 DEF CauseInv
      <3>4. QED BY <1>1, <2>3, <3>1, <3>2, <3>3 DEF Caused
    <2>4. QED BY <2>1, <2>2, <2>3 DEF Origin
  <1>4. ASSUME Deferred(fs, error) PROVE error.kind = "op" /\ errors' > 0
    <2>1. PICK at : at \in 1..Len(fs) /\ fs[at].kind = "cleanup" BY <1>4 DEF Deferred
    <2>2. at \in 1..m /\ frames[at].kind = "cleanup" BY <1>1, <2>1
    <2>3. QED BY <1>3, <2>2
  <1>5. QED BY <1>3, <1>4

LEMMA CauseStep ==
  ASSUME ShapeInv, CauseInv, [Next]_vars
  PROVE  CauseInv'
  <1>1. Kinds /\ frames' \in Seq(Frame) BY StepIs
  <1>2. errors' \in 0..MaxTroubles /\ errors <= errors' BY Counted
  <1>3. errors' \in Int /\ errors \in Nat BY <1>2, Bounds DEF ShapeInv, TypeInv, VarInv
  <1>4. Depth \in Nat BY LenProperties DEF Depth, ShapeInv, TypeInv
  <1>5. CASE frames' = frames
    BY <1>2, <1>3, <1>5 DEF CauseInv, Caused, Depth
  <1>6. CASE frames' = <<>>
    <2>1. Len(frames') = 0 BY <1>6, EmptySeq
    <2>2. 1..Len(frames') = {} BY <2>1
    <2>3. QED BY <2>2 DEF CauseInv, Depth
  <1>7. CASE Minor
    <2>1. PICK n \in Nat : /\ Stands(n) /\ Len(frames') = n /\ Same(n)
                           /\ Alike(frames[n], frames'[n])
      BY <1>1, <1>7, MinorStands
    <2>2. frames'[n].kind = "cleanup" => frames'[n] = frames[n] BY <2>1 DEF Alike
    <2>3. frames'[n].kind = frames[n].kind BY <2>1 DEF Alike
    <2>4. Len(frames') # n + 1 BY <2>1
    <2>5. QED BY <1>1, <1>2, <1>3, <2>1, <2>2, <2>3, <2>4, SameCauses
  <1>8. CASE Calling
    <2>1. /\ Running /\ Stands(Depth) /\ Len(frames') = Depth + 1 /\ Same(Depth)
          /\ frames'[Depth + 1] \in Bodies
      BY <1>1, <1>8, CallingStands
    <2>2. frames[Depth].kind # "cleanup" BY <1>8, <2>1, TopIs DEF Calling
    <2>3. frames'[Depth + 1].kind # "cleanup" BY <2>1, BodyFields
    <2>4. QED BY <1>1, <1>2, <1>3, <2>1, <2>2, <2>3, SameCauses
  <1>9. CASE Shutting
    <2>1. /\ Running /\ Stands(Depth) /\ Len(frames') = Depth + 1 /\ Same(Depth)
          /\ Top.kind # "cleanup" /\ frames'[Depth + 1].error = None
      BY <1>1, <1>9, ShuttingStands
    <2>2. frames[Depth].kind # "cleanup" BY <2>1, TopIs
    <2>3. frames'[Depth + 1].error.kind = "none" BY <2>1 DEF None
    <2>4. QED BY <1>1, <1>2, <1>3, <2>1, <2>2, <2>3, SameCauses
  <1>10. CASE Consuming
    <2>1. /\ Running /\ Stands(Depth) /\ Len(frames') = Depth + 1 /\ Same(Depth)
          /\ Top.kind = "body" /\ frames'[Depth + 1] \in TaskFrames
      BY <1>1, <1>10, ConsumingStands
    <2>2. frames[Depth].kind # "cleanup" /\ frames'[Depth + 1].kind # "cleanup"
      BY <2>1, TopIs, TaskFields
    <2>3. QED BY <1>1, <1>2, <1>3, <2>1, <2>2, SameCauses
  <1>11. CASE Entering
    <2>1. /\ Running /\ Stands(Depth) /\ Len(frames') = Depth + 1 /\ Same(Depth)
          /\ frames'[Depth + 1] \in Bodies
      BY <1>1, <1>11, EnteringStands
    <2>2. Top.kind = "task" BY <1>11, TaskFields DEF Entering
    <2>3. frames[Depth].kind # "cleanup" /\ frames'[Depth + 1].kind # "cleanup"
      BY <2>1, <2>2, TopIs, BodyFields
    <2>4. QED BY <1>1, <1>2, <1>3, <2>1, <2>3, SameCauses
  <1>12. CASE Answering
    <2>1. PICK m : m = Depth - 1 OBVIOUS
    <2>2. /\ Running /\ Depth > 1 /\ Stands(m) /\ Same(m) /\ Caller = frames[m]
          /\ \/ Len(frames') = m
             \/ Len(frames') = Depth /\ frames'[Depth] \in Bodies
             \/ Len(frames') = Depth /\ frames'[Depth].error = None
      BY <1>1, <1>12, <2>1, AnsweringStands
    <2>3. Caller \in TaskFrames BY <1>12 DEF Answering
    <2>4. frames[m].kind # "cleanup" BY <2>2, <2>3, TaskFields
    <2>5. m + 1 = Depth /\ m # Depth BY <1>4, <2>1, <2>2
    <2>6. Len(frames') = m + 1 /\ frames'[m + 1].kind = "cleanup" =>
            frames'[m + 1].error.kind = "none"
      BY <2>2, <2>5, BodyFields DEF None
    <2>7. QED BY <1>1, <1>2, <1>3, <2>2, <2>4, <2>6, SameCauses
  <1>13. CASE Joining
    <2>1. PICK m : m = Depth - 1 OBVIOUS
    <2>2. /\ Running /\ Depth > 1 /\ Stands(m) /\ Len(frames') = m /\ Same(m)
          /\ Caller = frames[m] /\ Caller \in TaskFrames
      BY <1>1, <1>13, <2>1, JoiningStands, EmptySeq DEF Joining, Running, Depth
    <2>3. frames[m].kind # "cleanup" BY <2>2, TaskFields
    <2>4. Len(frames') # m + 1 BY <1>4, <2>1, <2>2
    <2>5. QED BY <1>1, <1>2, <1>3, <2>2, <2>3, <2>4, SameCauses
  <1>14. ASSUME Running, Stands(Depth), Same(Depth), Len(frames') = Depth \/ frames'[Depth + 1] \in Bodies,
                \/ frames'[Depth].error = Top.error
                \/ frames'[Depth].error.kind = Top.error.kind
                \/ frames'[Depth].error.kind = "op" /\ errors' > 0
         PROVE  CauseInv'
    <2>1. Top = frames[Depth] BY <1>14, TopIs
    <2>2. Len(frames') = Depth + 1 => frames'[Depth + 1].kind # "cleanup"
      BY <1>4, <1>14, BodyFields
    <2>3. QED BY <1>1, <1>2, <1>3, <1>14, <2>1, <2>2, SameCauses
  <1>15. CASE Beginning
    BY <1>1, <1>14, <1>15, BeginningStands DEF Continues
  <1>16. CASE Reasoning
    BY <1>1, <1>14, <1>16, ReasoningStands DEF Continues
  <1>17. CASE Scoping
    BY <1>1, <1>14, <1>17, ScopingStands DEF Continues
  <1>18. CASE Finishing
    BY <1>1, <1>14, <1>18, FinishingStands DEF Continues
  <1>19. CASE Passing
    <2>1. /\ Running /\ Stands(Depth) /\ Len(frames') = Depth /\ Same(Depth)
          /\ \/ frames'[Depth].error = Top.error
             \/ /\ errors' = errors + 1
                /\ frames'[Depth].error.kind =
                     IF Top.error.kind \in {"none", "exit"} THEN "op" ELSE Top.error.kind
      BY <1>1, <1>2, <1>19, PassingStands
    <2>2. errors + 1 > 0 BY <1>3
    <2>3. QED BY <1>14, <2>1, <2>2
  <1>20. CASE Deferring
    <2>1. PICK m, error, fs : Origin(m, fs, error) /\ Deferred(fs, error) BY <1>20 DEF Deferring
    <2>2. PICK at : at = Checkpoint(fs, Aborts(error)) OBVIOUS
    <2>3. /\ at \in 1..m /\ Stands(at) /\ Len(frames') = at /\ Same(at)
          /\ frames[at] \in CleanupFrames /\ frames'[at] = Survives(frames[at], error)
      BY <2>1, <2>2, DeferredStands
    <2>4. error \in Causes /\ m \in 1..Depth BY <2>1, OriginIs
    <2>5. error.kind = "op" /\ errors' > 0 BY <2>1, OriginCause
    <2>6. \/ frames'[at].error.kind = frames[at].error.kind
          \/ frames'[at].error.kind = "op"
      BY <2>3, <2>4, <2>5, SurvivesIs
    <2>7. Len(frames') # at + 1 BY <1>4, <2>3, <2>4
    <2>8. QED BY <1>1, <1>2, <1>3, <2>3, <2>5, <2>6, <2>7, SameCauses
  <1>21. CASE Unwinding
    <2>1. PICK m, error, fs : Origin(m, fs, error) /\ Unwound(fs, error) BY <1>21 DEF Unwinding
    <2>2. /\ Stands(m) /\ Len(frames') = m + 1 /\ Same(m) /\ frames'[m] = frames[m]
          /\ frames'[m + 1].error = error
      BY <2>1, UnwoundStands
    <2>3. QED BY <1>1, <1>2, <1>3, <2>1, <2>2, OriginCause, SameCauses
  <1>22. CASE Returning
    <2>1. PICK m, error, fs : Origin(m, fs, error) /\ Returned(fs, error) BY <1>22 DEF Returning
    <2>2. PICK n : n = Checkpoint(fs, Aborts(error)) - 1 OBVIOUS
    <2>3. Stands(n) /\ Len(frames') = n /\ Same(n) /\ frames'[n] = frames[n]
      BY <2>1, <2>2, ReturnedStands
    <2>4. n \in 1..Depth BY <2>3 DEF Stands
    <2>5. Len(frames') # n + 1 BY <1>4, <2>3, <2>4
    <2>6. QED BY <1>1, <1>2, <1>3, <2>3, <2>5, SameCauses
  <1>23. CASE Interrupting
    <2>1. Stands(Depth) /\ Len(frames') = Depth BY <1>1, <1>23, InterruptingStands
    <2>2. PICK i \in Cleanups(frames), kind \in {"cancel", "exit"} :
            /\ i \in 1..Depth /\ frames[i] \in CleanupFrames
            /\ \A j \in Cleanups(frames) : i <= j
            /\ frames'[i] = Interrupted(frames[i], kind)
            /\ \A j \in 1..Depth : j # i => frames'[j] = frames[j]
      BY <1>1, <1>23, InterruptingStands
    <2>3. \A j \in 1..Depth : frames'[j].kind = frames[j].kind BY <2>1, Former
    <2>4. \A j \in 1..i - 1 : frames[j].kind # "cleanup"
      <3>1. Running BY <1>1, <1>23, InterruptingStands
      <3>2. DOMAIN frames = 1..Depth BY <3>1, TopIs
      <3>3. \A j \in 1..i - 1 : j \in 1..Depth /\ ~(i <= j) BY <1>4, <2>2
      <3>4. QED BY <2>2, <3>2, <3>3 DEF Cleanups
    <2>5. frames'[i].error.kind \in {"cancel", "exit", frames[i].error.kind}
      BY <2>2 DEF Interrupted, Noted, Error, CleanupFrames, Causes, Errors
    <2>6. \A j \in 1..Depth : Caused(j) BY DEF CauseInv
    <2>7. ASSUME NEW j \in 1..Depth, frames'[j].kind = "cleanup"
          PROVE  /\ frames'[j].error.kind = "op" => errors' > 0
                 /\ frames'[j].error.kind \in {"cancel", "exit"} =>
                      \A h \in 1..j - 1 : frames'[h].kind # "cleanup"
      <3>1. \A h \in 1..j - 1 : h \in 1..Depth BY <1>4
      <3>2. CASE j = i
        BY <1>2, <1>3, <2>2, <2>3, <2>4, <2>5, <2>6, <2>7, <3>1, <3>2 DEF Caused
      <3>3. CASE j # i
        BY <1>2, <1>3, <2>2, <2>3, <2>6, <2>7, <3>1, <3>3 DEF Caused
      <3>4. QED BY <3>2, <3>3
    <2>8. QED BY <2>1, <2>7 DEF CauseInv, Caused, Depth
  <1>24. CASE Produce \/ Open \/ Ending \/ UNCHANGED vars
    BY <1>5, <1>6, <1>24 DEF Produce, Open, Ending, vars
  <1>25. CASE Quitting
    BY <1>6, <1>25 DEF Quitting, GivenUp
  <1>26. CASE Failed
    BY <1>20, <1>21, <1>22, <1>25, <1>26, FailedKinds
  <1>27. QED
    BY <1>1, <1>7, <1>8, <1>9, <1>10, <1>11, <1>12, <1>13, <1>15, <1>16, <1>17, <1>18, <1>19,
       <1>23, <1>24, <1>26 DEF Kinds


\* A closed or closing producer was released from its latest state; only a failed
\* first application has no reason applied to it.
Second(p) == \E i, k : Acts(i, k, Act("second", p))
Applied(p) ==
  /\ releases[p] # <<>> /\ Len(releases[p]) \in {1, 2} /\ releases[p][1] = items[p]
  /\ Len(releases[p]) = 1 => errors > 0 \/ Second(p)
Rel(p) ==
  /\ phase[p] \in {"none", "new", "acquiring"} => items[p] = NoState /\ releases[p] = <<>>
  /\ phase[p] \in {"ready", "stepping"} => items[p] # NoState /\ releases[p] = <<>>
  /\ phase[p] \in {"closing", "closed"} =>
       IF items[p] = NoState THEN releases[p] = <<>> ELSE Applied(p)
  /\ Second(p) => Len(releases[p]) = 1
ReleaseInv == \A p \in Producer : Rel(p)

LEMMA SameRel ==
  ASSUME NEW p \in Producer, Rel(p), errors \in Int, errors' \in Int, errors <= errors',
         items'[p] = items[p], releases'[p] = releases[p],
         \/ phase'[p] = phase[p]
         \/ <<phase[p], phase'[p]>> \in {<<"closing", "closed">>, <<"none", "new">>,
                                         <<"new", "acquiring">>, <<"ready", "stepping">>},
         Second(p)' => Second(p), Second(p) => Second(p)' \/ errors' > 0
  PROVE  Rel(p)'
  BY DEF Rel, Applied

\* WorkActs, of all the actions at once: where each goes, and where each was.
LEMMA WorkMoves ==
  ASSUME ShapeInv, frames' \in Seq(Frame), NEW n, NEW d \in Nat, NEW x \in Seq(Actions),
         Working(n, d, x)
  PROVE  /\ \A i, k, a : Acts(i, k, a) =>
              \/ i \in 1..n - 1 /\ Acts(i, k, a)'
              \/ i = n /\ k \in 1..d /\ frames[n].actions[k] = a
              \/ i = n /\ k > d /\ Acts(i, k - d + Len(x), a)'
         /\ \A i, k, a : Acts(i, k, a)' =>
              \/ i \in 1..n - 1 /\ Acts(i, k, a)
              \/ i = n /\ k \in 1..Len(x) /\ x[k] = a
              \/ i = n /\ k > Len(x) /\ Acts(i, k - Len(x) + d, a)
  <1>1. ASSUME NEW i, NEW k, NEW a
        PROVE  /\ Acts(i, k, a) =>
                    \/ i \in 1..n - 1 /\ Acts(i, k, a)'
                    \/ i = n /\ k \in 1..d /\ frames[n].actions[k] = a
                    \/ i = n /\ k > d /\ Acts(i, k - d + Len(x), a)'
               /\ Acts(i, k, a)' =>
                    \/ i \in 1..n - 1 /\ Acts(i, k, a)
                    \/ i = n /\ k \in 1..Len(x) /\ x[k] = a
                    \/ i = n /\ k > Len(x) /\ Acts(i, k - Len(x) + d, a)
    BY WorkActs, Zenon
  <1>2. QED BY <1>1, Zenon

LEMMA SecondWorks ==
  ASSUME ShapeInv, frames' \in Seq(Frame), NEW n, NEW d \in Nat, NEW x \in Seq(Actions),
         Working(n, d, x), NEW p \in Producer
  PROVE  /\ Second(p) /\ (\A k \in 1..d : frames[n].actions[k] # Act("second", p)) => Second(p)'
         /\ Second(p)' /\ (\A k \in 1..Len(x) : x[k] # Act("second", p)) => Second(p)
  <1>1. \A i, k, a : Acts(i, k, a) =>
          \/ i \in 1..n - 1 /\ Acts(i, k, a)'
          \/ i = n /\ k \in 1..d /\ frames[n].actions[k] = a
          \/ i = n /\ k > d /\ Acts(i, k - d + Len(x), a)'
    BY WorkMoves, Zenon
  <1>2. \A i, k, a : Acts(i, k, a)' =>
          \/ i \in 1..n - 1 /\ Acts(i, k, a)
          \/ i = n /\ k \in 1..Len(x) /\ x[k] = a
          \/ i = n /\ k > Len(x) /\ Acts(i, k - Len(x) + d, a)
    BY WorkMoves, Zenon
  <1> DEFINE a == Act("second", p)
  <1>3. Second(p) <=> \E i, k : Acts(i, k, a) BY DEF Second
  <1>4. Second(p)' <=> \E i, k : Acts(i, k, a)' BY DEF Second, Act
  <1> HIDE DEF a
  <1>5. (\E i, k : Acts(i, k, a)) /\ (\A k \in 1..d : frames[n].actions[k] # a)
        => \E i, k : Acts(i, k, a)'
    BY <1>1
  <1>6. (\E i, k : Acts(i, k, a)') /\ (\A k \in 1..Len(x) : x[k] # a) => \E i, k : Acts(i, k, a)
    BY <1>2
  <1>7. QED BY <1>3, <1>4, <1>5, <1>6 DEF a

\* There is one second application to be done at most, and it is the next one.
LEMMA SecondOnce ==
  ASSUME ShapeInv, FinishInv, NEW p \in Producer, NEW i, NEW k, Acts(i, k, Act("second", p))
  PROVE  /\ k = 1 /\ phase[p] = "closing"
         /\ \A j, l : Acts(j, l, Act("second", p)) => j = i /\ l = 1
  <1>1. ASSUME NEW j, NEW l, Acts(j, l, Act("second", p))
        PROVE  /\ l = 1 /\ phase[p] = "closing" /\ \E m : Acts(j, m, Act("finish", p))
    <2>1. j \in 1..Depth /\ frames[j] \in CleanupFrames BY <1>1, ActsIs
    <2>2. frames[j].kind = "cleanup" /\ Shape(frames[j].actions) BY <2>1, CleanupFields
    <2>3. l \in 1..Len(frames[j].actions) /\ frames[j].actions[l] = Act("second", p)
      BY <1>1 DEF Acts
    <2>4. frames[j].actions[l].do = "second" BY <2>3 DEF Act
    <2>5. l = 1 BY <2>2, <2>3, <2>4 DEF Shape
    <2>6. frames[j].actions # <<>> BY <2>3, <2>5, EmptySeq
    <2>7. phase[p] = "closing" /\ \E m : Acts(j, m, Act("scope", p))
      BY <2>1, <2>2, <2>3, <2>5, <2>6, ReleaseCloses
    <2>8. QED BY <2>5, <2>7, ScopeFinishes
  <1>2. QED BY <1>1 DEF FinishInv

LEMMA SecondQuiet ==
  ASSUME ShapeInv, frames' \in Seq(Frame), NEW n, Quieting(n), NEW p \in Producer
  PROVE  Second(p)' <=> Second(p)
  <1> DEFINE a == Act("second", p)
  <1>1. Second(p) <=> \E i, k : Acts(i, k, a) BY DEF Second
  <1>2. Second(p)' <=> \E i, k : Acts(i, k, a)' BY DEF Second, Act
  <1>3. a.do = "second" BY DEF Act
  <1> HIDE DEF a
  <1>4. \A i, k : Acts(i, k, a) => Acts(i, k, a)' BY QuietActs
  <1>5. \A q, keys : a # Act("producer", q) /\ a # Act("close", keys) BY <1>3 DEF Act
  <1>6. \A i, k : Acts(i, k, a)' => Acts(i, k, a) BY <1>5, QuietActs
  <1>7. QED BY <1>1, <1>2, <1>4, <1>6


LEMMA ReleaseStep ==
  ASSUME HeldInv, CauseInv, ReleaseInv, [Next]_vars
  PROVE  ReleaseInv'
  <1>1. ShapeInv /\ FinishInv /\ Kinds /\ frames' \in Seq(Frame) BY StepIs DEF HeldInv, ScopeInv
  <1>2. errors' \in Int /\ errors \in Int /\ errors <= errors'
    <2>1. errors' \in 0..MaxTroubles /\ errors <= errors' BY <1>1, Counted
    <2>2. QED BY <2>1, Bounds DEF HeldInv, ShapeInv, TypeInv, VarInv
  <1>3. /\ phase \in [Producer -> Phases] /\ items \in [Producer -> NoState..MaxItems]
        /\ releases \in [Producer -> Seq(Int \cup Reason)]
    BY <1>1 DEF ShapeInv, TypeInv, VarInv
  <1>4. SUFFICES ASSUME NEW p \in Producer PROVE Rel(p)'
    BY DEF ReleaseInv
  <1>5. Rel(p) BY DEF ReleaseInv
  <1>6. ASSUME items' = items, releases' = releases, phase' = phase,
               Second(p)' => Second(p), Second(p) => Second(p)' \/ errors' > 0
        PROVE  Rel(p)'
    BY <1>2, <1>5, <1>6, SameRel
  <1>7. CASE frames' = frames /\ (Produce \/ Open \/ UNCHANGED vars)
    <2>1. Second(p)' <=> Second(p) BY <1>7 DEF Second, Acts
    <2>2. items' = items /\ releases' = releases BY <1>7 DEF Produce, Open, vars, producing
    <2>3. phase'[p] = phase[p] \/ (phase[p] = "none" /\ phase'[p] = "new") BY <1>7, AloneIs
    <2>4. QED BY <1>2, <1>5, <2>1, <2>2, <2>3, SameRel
  <1>8. CASE frames' = <<>> /\ (Ending \/ Quitting)
    <2>1. ~Second(p) BY <1>1, <1>8, NothingCloses DEF Second
    <2>2. ~Second(p)' BY <1>8 DEF Second, Acts
    <2>3. items' = items /\ releases' = releases /\ phase' = phase
      BY <1>8 DEF Ending, Quitting, Ruins
    <2>4. QED BY <1>6, <2>1, <2>2, <2>3
  <1>9. ASSUME \/ Minor \/ Calling \/ Shutting \/ Consuming \/ Entering \/ Answering \/ Joining
               \/ Unwinding \/ Returning \/ Interrupting
        PROVE  Second(p)' <=> Second(p)
    BY <1>1, <1>9, QuietIs, SecondQuiet
  <1>10. CASE \/ Minor \/ Calling \/ Shutting \/ Consuming \/ Joining
              \/ Unwinding \/ Returning \/ Interrupting
    <2>1. items' = items /\ releases' = releases /\ phase' = phase
      BY <1>10 DEF Minor, Calling, Still, Shutting, Consuming, Joining, Unwinding, Returning, Ruins,
                   Interrupting, producing
    <2>2. QED BY <1>6, <1>9, <1>10, <2>1
  <1>11. CASE Entering
    <2>1. PICK q \in Top.graph, g \in Bodies :
            /\ phase[q] = IF g.job = "acquire" THEN "new" ELSE "ready"
            /\ phase' = [phase EXCEPT ![q] = IF g.job = "acquire" THEN "acquiring" ELSE "stepping"]
      BY <1>11 DEF Entering
    <2>2. items' = items /\ releases' = releases BY <1>11 DEF Entering
    <2>3. q \in Producer BY <1>11, TaskFields DEF Entering
    <2>4. \/ phase'[p] = phase[p]
          \/ <<phase[p], phase'[p]>> \in {<<"new", "acquiring">>, <<"ready", "stepping">>}
      BY <1>3, <2>1, <2>3
    <2>5. Second(p)' <=> Second(p) BY <1>9, <1>11
    <2>6. QED BY <1>2, <1>5, <2>2, <2>4, <2>5, SameRel
  <1>12. CASE Answering
    <2>1. /\ Top \in Bodies /\ Top.job \in {"acquire", "step"} /\ Depth > 1
          /\ phase' = [phase EXCEPT ![Top.of] = "ready"] /\ releases' = releases
          /\ Top.job = "acquire" => items' = [items EXCEPT ![Top.of] = 0]
          /\ Top.job = "step" => \/ items' = items
                                 \/ items' = [items EXCEPT ![Top.of] = @ + 1]
      BY <1>12 DEF Answering
    <2>2. Running BY <1>1, <1>12, AnsweringStands
    <2>3. /\ Top.of \in Producer
          /\ phase[Top.of] = IF Top.job = "acquire" THEN "acquiring" ELSE "stepping"
      BY <2>1, <2>2, TopCallback
    <2>4. Second(p)' <=> Second(p) BY <1>9, <1>12
    <2>5. CASE p = Top.of
      <3>1. phase'[p] = "ready" /\ releases'[p] = releases[p] BY <1>3, <2>1, <2>5
      <3>2. releases[p] = <<>> /\ (Second(p) => Len(releases[p]) = 1)
        BY <1>5, <2>3, <2>5 DEF Rel
      <3>3. items'[p] # NoState
        <4>1. CASE Top.job = "acquire"
          BY <1>3, <2>1, <2>5, <4>1 DEF NoState
        <4>2. CASE Top.job = "step"
          <5>1. items[p] # NoState BY <1>5, <2>3, <2>5, <4>2 DEF Rel
          <5>2. items[p] \in NoState..MaxItems BY <1>3
          <5>3. items'[p] \in {items[p], items[p] + 1} BY <1>3, <2>1, <2>5, <4>2
          <5>4. QED BY <5>1, <5>2, <5>3, Bounds DEF NoState
        <4>3. QED BY <2>1, <4>1, <4>2
      <3>4. QED BY <2>4, <3>1, <3>2, <3>3 DEF Rel
    <2>6. CASE p # Top.of
      <3>1. phase'[p] = phase[p] /\ items'[p] = items[p] /\ releases'[p] = releases[p]
        BY <1>3, <2>1, <2>3, <2>6
      <3>2. QED BY <1>2, <1>5, <2>4, <3>1, SameRel
    <2>7. QED BY <2>5, <2>6
  <1>13. \A f \in CleanupFrames : f.actions \in Seq(Actions) BY CleanupFields
  <1>14. PICK e \in Seq(Actions) : e = <<>> /\ Len(e) = 0 /\ 1..Len(e) = {}
    <2>1. <<>> \in Seq(Actions) /\ Len(<<>>) = 0 BY PairIs
    <2>2. 1..0 = {} OBVIOUS
    <2>3. QED BY <2>1, <2>2
  \* The action that a cleanup has done is not the second application.
  <1>15. ASSUME NEW n, NEW d \in Nat, NEW x \in Seq(Actions), Working(n, d, x),
                errors' > 0 \/ \A k \in 1..d : frames[n].actions[k] # Act("second", p),
                \A k \in 1..Len(x) : x[k] # Act("second", p)
         PROVE  /\ Second(p)' => Second(p)
                /\ Second(p) => Second(p)' \/ errors' > 0
    BY <1>1, <1>15, SecondWorks
  <1>e. ASSUME NEW n, NEW d \in Nat, Working(n, d, <<>>),
               errors' > 0 \/ \A k \in 1..d : frames[n].actions[k] # Act("second", p)
        PROVE  /\ Second(p)' => Second(p)
               /\ Second(p) => Second(p)' \/ errors' > 0
    <2>1. Working(n, d, e) BY <1>14, <1>e
    <2>2. \A k \in 1..Len(e) : e[k] # Act("second", p) BY <1>14
    <2>3. QED BY <1>15, <1>e, <2>1, <2>2
  <1>16. ASSUME Running, frames[Depth].actions[1] # Act("second", p)
         PROVE  \A k \in 1..1 : frames[Depth].actions[k] # Act("second", p)
    BY <1>16
  <1>17. CASE Scoping
    <2>1. /\ Running /\ Stands(Depth) /\ Len(frames') = Depth /\ Same(Depth)
          /\ Top \in CleanupFrames
          /\ \E q \in Producer, x \in Seq(Actions) : \E S, keys :
               /\ Top.actions[1] = Act("scope", q)
               /\ Continues(frames'[Depth], 1, x) /\ Closes(x, S, keys)
      BY <1>1, <1>17, ScopingStands
    <2>2. PICK q \in Producer, x \in Seq(Actions) : \E S, keys :
               /\ Top.actions[1] = Act("scope", q)
               /\ Continues(frames'[Depth], 1, x) /\ Closes(x, S, keys)
      BY <2>1
    <2>3. Working(Depth, 1, x)
      BY <1>1, <2>1, <2>2, WorksIs DEF Continues
    <2>4. \A k \in 1..1 : frames[Depth].actions[k] # Act("second", p)
      <3>1. Act("scope", q) # Act("second", p) BY DEF Act
      <3>2. QED BY <1>1, <1>16, <2>1, <2>2, <3>1, TopIs
    <2>5. \A k \in 1..Len(x) : x[k] # Act("second", p)
      BY <2>2 DEF Closes, Act
    <2>6. items' = items /\ releases' = releases /\ phase' = phase
      BY <1>17 DEF Scoping, Still, producing
    <2>7. QED BY <1>6, <1>15, <2>3, <2>4, <2>5, <2>6
  <1>18. CASE Finishing
    <2>1. /\ Running /\ Stands(Depth) /\ Len(frames') = Depth /\ Same(Depth)
          /\ Top \in CleanupFrames /\ Top.actions # <<>>
          /\ \E q \in Producer :
               /\ Top.actions[1] = Act("finish", q)
               /\ Continues(frames'[Depth], 1, <<>>)
               /\ phase' = [phase EXCEPT ![q] = "closed"]
      BY <1>1, <1>18, FinishingStands
    <2>2. PICK q \in Producer :
               /\ Top.actions[1] = Act("finish", q)
               /\ Continues(frames'[Depth], 1, <<>>)
               /\ phase' = [phase EXCEPT ![q] = "closed"]
      BY <2>1
    <2>3. Working(Depth, 1, <<>>)
      BY <1>1, <2>1, <2>2, WorksIs DEF Continues
    <2>4. \A k \in 1..1 : frames[Depth].actions[k] # Act("second", p)
      <3>1. Act("finish", q) # Act("second", p) BY DEF Act
      <3>2. QED BY <1>1, <1>16, <2>1, <2>2, <3>1, TopIs
    <2>5. phase[q] = "closing"
      <3>1. Acts(Depth, 1, Act("finish", q)) BY <1>1, <2>1, <2>2, TopActs
      <3>2. QED BY <1>1, <3>1 DEF FinishInv
    <2>6. items' = items /\ releases' = releases BY <1>18 DEF Finishing
    <2>7. phase'[p] = phase[p] \/ (phase[p] = "closing" /\ phase'[p] = "closed")
      BY <1>3, <2>2, <2>5
    <2>8. /\ Second(p)' => Second(p)
          /\ Second(p) => Second(p)' \/ errors' > 0
      BY <1>e, <2>3, <2>4
    <2>9. QED BY <1>2, <1>5, <2>6, <2>7, <2>8, SameRel
  <1>19. CASE Passing
    <2>1. errors' \in 0..MaxTroubles BY <1>1, Counted
    <2>2. /\ Running /\ Stands(Depth) /\ Len(frames') = Depth /\ Same(Depth)
          /\ Top \in CleanupFrames /\ frames'[Depth] \in CleanupFrames
          /\ Follows(Top.actions, frames'[Depth].actions, 1, <<>>)
      BY <1>1, <1>19, <2>1, PassingStands
    <2>3. Working(Depth, 1, <<>>) BY <1>1, <2>2, WorksIs
    <2>4. \A k \in 1..1 : frames[Depth].actions[k] # Act("second", p)
      <3>1. Top.actions[1].do # "second" BY <1>19 DEF Passing
      <3>2. Top.actions[1] # Act("second", p) BY <3>1 DEF Act
      <3>3. QED BY <1>1, <1>16, <2>2, <3>2, TopIs
    <2>5. items' = items /\ releases' = releases /\ phase' = phase BY <1>19 DEF Passing, producing
    <2>6. QED BY <1>6, <1>e, <2>3, <2>4, <2>5
  <1>20. CASE Reasoning
    <2>1. /\ Running /\ Stands(Depth) /\ Len(frames') = Depth + 1 /\ Same(Depth)
          /\ Top \in CleanupFrames /\ Top.actions # <<>>
          /\ \E q \in Producer :
               /\ Top.actions[1] = Act("second", q)
               /\ Continues(frames'[Depth], 1, <<>>)
               /\ frames'[Depth + 1] \in Bodies /\ frames'[Depth + 1].job = "reason"
               /\ releases' = [releases EXCEPT ![q] = Append(@, Top.reason)]
      BY <1>1, <1>20, ReasoningStands DEF Enters
    <2>2. PICK q \in Producer :
               /\ Top.actions[1] = Act("second", q)
               /\ Continues(frames'[Depth], 1, <<>>)
               /\ frames'[Depth + 1] \in Bodies /\ frames'[Depth + 1].job = "reason"
               /\ releases' = [releases EXCEPT ![q] = Append(@, Top.reason)]
      BY <2>1
    <2>3. Working(Depth, 1, <<>>)
      BY <1>1, <2>1, <2>2, WorksIs DEF Continues
    <2>4. items' = items /\ phase' = phase BY <1>20 DEF Reasoning, producing
    <2>5. CASE p # q
      <3>1. Act("second", q) # Act("second", p) BY <2>5 DEF Act
      <3>2. \A k \in 1..1 : frames[Depth].actions[k] # Act("second", p)
        BY <1>1, <1>16, <2>1, <2>2, <3>1, TopIs
      <3>3. /\ Second(p)' => Second(p)
            /\ Second(p) => Second(p)' \/ errors' > 0
        BY <1>e, <2>3, <3>2
      <3>4. releases'[p] = releases[p] BY <1>3, <2>2, <2>5
      <3>5. QED BY <1>2, <1>5, <2>4, <3>3, <3>4, SameRel
    <2>6. CASE p = q
      <3>1. Acts(Depth, 1, Act("second", p)) BY <1>1, <2>1, <2>2, <2>6, TopActs
      <3>2. /\ phase[p] = "closing"
            /\ \A j, l : Acts(j, l, Act("second", p)) => j = Depth /\ l = 1
        BY <1>1, <3>1, SecondOnce
      <3>3. Len(releases[p]) = 1 BY <1>5, <3>1 DEF Rel, Second
      <3>4. items[p] # NoState /\ releases[p][1] = items[p]
        <4>1. Len(<<>>) = 0 OBVIOUS
        <4>2. QED BY <1>5, <3>2, <3>3, <4>1 DEF Rel, Applied
      <3>5. releases[p] \in Seq(Int \cup Reason) /\ Top.reason \in Int \cup Reason
        BY <1>3, <2>1, CleanupFields
      <3>6. /\ Len(releases'[p]) = 2 /\ releases'[p][1] = items'[p] /\ releases'[p] # <<>>
        <4>1. releases'[p] = Append(releases[p], Top.reason) BY <1>3, <2>2, <2>6
        <4>2. PICK s, r : s = releases[p] /\ r = Top.reason OBVIOUS
        <4>3. s \in Seq(Int \cup Reason) /\ r \in Int \cup Reason /\ Len(s) = 1 BY <3>3, <3>5, <4>2
        <4>4. Len(Append(s, r)) = 2 /\ Append(s, r)[1] = s[1] /\ Append(s, r) # <<>>
          <5>1. PICK S : S = Int \cup Reason OBVIOUS
          <5>2. s \in Seq(S) /\ r \in S BY <4>3, <5>1
          <5>3. /\ Append(s, r) # <<>> /\ Len(Append(s, r)) = Len(s) + 1
                /\ \A i \in 1..Len(s) : Append(s, r)[i] = s[i]
            BY <5>2, AppendProperties
          <5>4. 1 \in 1..Len(s) BY <4>3
          <5>5. QED BY <4>3, <5>3, <5>4
        <4>5. QED BY <2>4, <3>4, <4>1, <4>2, <4>4
      <3>7. ~Second(p)'
        <4> DEFINE a == Act("second", p)
        <4>1. Second(p)' => \E i, k : Acts(i, k, a)' BY DEF Second, Act
        <4>2. \A i, k : Acts(i, k, a) => i = Depth /\ k = 1 BY <3>2
        <4> HIDE DEF a
        <4>3. ASSUME NEW i, NEW k, Acts(i, k, a)' PROVE FALSE
          <5>1. \/ i \in 1..Depth - 1 /\ Acts(i, k, a)
                \/ i = Depth /\ k > 0 /\ Acts(i, k - 0 + 1, a)
            <6>1. PICK n \in Nat, d \in Nat, l \in Nat : n = Depth /\ d = 1 /\ l = Len(e)
              BY <1>14, <1>1, <2>1, TopIs
            <6>2. Working(n, d, e) BY <1>14, <2>3, <6>1
            <6>3. \A i1, k1, a1 : Acts(i1, k1, a1)' =>
                     \/ i1 \in 1..n - 1 /\ Acts(i1, k1, a1)
                     \/ i1 = n /\ k1 \in 1..l /\ e[k1] = a1
                     \/ i1 = n /\ k1 > l /\ Acts(i1, k1 - l + d, a1)
              <7>1. ShapeInv /\ frames' \in Seq(Frame) /\ e \in Seq(Actions) /\ d \in Nat BY <1>1
              <7>2. l = Len(e) BY <6>1
              <7>3. QED BY <6>2, <7>1, <7>2, WorkMoves
            <6>4. l = 0 /\ 1..l = {} BY <1>14, <6>1
            <6>5. QED BY <4>3, <6>1, <6>3, <6>4
          <5>2. Depth \in Nat BY <1>1, <2>1, TopIs
          <5>3. i # Depth \/ i \notin 1..Depth - 1 BY <5>2
          <5>4. k \in Nat
            <6>1. ShapeInv' BY <1>1, ShapeStep
            <6>2. QED BY <4>3, <6>1, ActsNext DEF ActsNat
          <5>5. QED BY <4>2, <5>1, <5>2, <5>3, <5>4
        <4>4. QED BY <4>1, <4>3
      <3>8. phase'[p] = "closing" BY <2>4, <3>2
      <3>9. items'[p] # NoState BY <2>4, <3>4
      <3>10. QED BY <3>6, <3>7, <3>8, <3>9 DEF Rel, Applied
    <2>7. QED BY <2>5, <2>6
  <1>21. CASE Deferring
    <2>1. PICK n \in 1..Depth, d \in 0..2 : Working(n, d, <<>>) BY <1>1, <1>21, DeferringWorks
    <2>2. items' = items /\ releases' = releases /\ phase' = phase BY <1>21 DEF Deferring, Ruins
    <2>3. errors' > 0 BY <1>21, <1>1, OriginCause DEF Deferring
    <2>4. d \in Nat OBVIOUS
    <2>5. QED BY <1>6, <1>e, <2>1, <2>2, <2>3, <2>4
  <1>22. CASE Beginning
    <2>1. /\ Running /\ Stands(Depth) /\ Same(Depth) /\ Top \in CleanupFrames /\ Top.actions # <<>>
          /\ \E q \in Producer :
               /\ Top.actions[1] = Act("producer", q)
               /\ phase' = [phase EXCEPT ![q] = "closing"]
               /\ \/ /\ phase[q] \in {"ready", "stepping"} /\ Len(frames') = Depth + 1
                     /\ Continues(frames'[Depth], 1, <<Act("second", q), Act("check", q),
                                                       Act("scope", q), Act("finish", q)>>)
                     /\ frames'[Depth + 1] \in Bodies /\ frames'[Depth + 1].job = "release"
                     /\ releases' = [releases EXCEPT ![q] = Append(@, items[q])]
                  \/ /\ phase[q] \in {"new", "acquiring"} /\ Len(frames') = Depth
                     /\ Continues(frames'[Depth], 1, <<Act("scope", q), Act("finish", q)>>)
                     /\ releases' = releases
      BY <1>1, <1>22, BeginningStands DEF Enters
    <2>2. PICK q \in Producer :
               /\ Top.actions[1] = Act("producer", q)
               /\ phase' = [phase EXCEPT ![q] = "closing"]
               /\ \/ /\ phase[q] \in {"ready", "stepping"} /\ Len(frames') = Depth + 1
                     /\ Continues(frames'[Depth], 1, <<Act("second", q), Act("check", q),
                                                       Act("scope", q), Act("finish", q)>>)
                     /\ frames'[Depth + 1] \in Bodies /\ frames'[Depth + 1].job = "release"
                     /\ releases' = [releases EXCEPT ![q] = Append(@, items[q])]
                  \/ /\ phase[q] \in {"new", "acquiring"} /\ Len(frames') = Depth
                     /\ Continues(frames'[Depth], 1, <<Act("scope", q), Act("finish", q)>>)
                     /\ releases' = releases
      BY <2>1
    <2>3. items' = items BY <1>22 DEF Beginning
    <2>4. PICK x4 \in Seq(Actions) :
            x4 = <<Act("second", q), Act("check", q), Act("scope", q), Act("finish", q)>>
      BY PairIs
    <2>5. PICK x2 \in Seq(Actions) : x2 = <<Act("scope", q), Act("finish", q)>>
      BY PairIs
    <2>6. \A k \in 1..1 : frames[Depth].actions[k] # Act("second", p)
      <3>1. Act("producer", q) # Act("second", p) BY DEF Act
      <3>2. QED BY <1>1, <1>16, <2>1, <2>2, <3>1, TopIs
    <2>7. Len(x4) = 4 /\ \A k \in 1..Len(x4) : \E do : x4[k] = Act(do, q)
      <3>1. Len(x4) = 4 BY <2>4
      <3>2. \A k \in 1..4 : k = 1 \/ k = 2 \/ k = 3 \/ k = 4 OBVIOUS
      <3>3. QED BY <2>4, <3>1, <3>2
    <2>8. \A k \in 1..Len(x2) : x2[k] # Act("second", p)
      <3>1. Len(x2) = 2 BY <2>5
      <3>2. \A k \in 1..2 : k = 1 \/ k = 2 OBVIOUS
      <3>3. Act("scope", q) # Act("second", p) /\ Act("finish", q) # Act("second", p) BY DEF Act
      <3>4. QED BY <2>5, <3>1, <3>2, <3>3
    <2>9. CASE /\ phase[q] \in {"ready", "stepping"} /\ Len(frames') = Depth + 1
               /\ Continues(frames'[Depth], 1, x4)
               /\ frames'[Depth + 1] \in Bodies /\ frames'[Depth + 1].job = "release"
               /\ releases' = [releases EXCEPT ![q] = Append(@, items[q])]
      <3>1. Working(Depth, 1, x4) BY <1>1, <2>1, <2>9, WorksIs DEF Continues
      <3>2. CASE p # q
        <4>1. \A k \in 1..Len(x4) : x4[k] # Act("second", p) BY <2>7, <3>2 DEF Act
        <4>2. phase'[p] = phase[p] /\ releases'[p] = releases[p]
          BY <1>3, <2>2, <2>9, <3>2
        <4>3. /\ Second(p)' => Second(p)
              /\ Second(p) => Second(p)' \/ errors' > 0
          BY <1>15, <2>6, <3>1, <4>1
        <4>4. QED BY <1>2, <1>5, <2>3, <4>2, <4>3, SameRel
      <3>3. CASE p = q
        <4>1. items[p] # NoState /\ releases[p] = <<>> BY <1>5, <2>9, <3>3 DEF Rel
        <4>2. /\ Len(releases'[p]) = 1 /\ releases'[p][1] = items'[p] /\ releases'[p] # <<>>
          <5>1. releases'[p] = Append(releases[p], items[p]) BY <1>3, <2>9, <3>3
          <5>2. releases'[p] = <<items[p]>> BY <4>1, <5>1
          <5>3. QED BY <2>3, <5>2
        <4>3. Second(p)'
          <5>1. /\ frames'[Depth] \in CleanupFrames
                /\ Follows(Top.actions, frames'[Depth].actions, 1, x4)
            BY <2>9 DEF Continues
          <5>2. x4[1] = Act("second", p) BY <2>4, <3>3
          <5>3. frames'[Depth].actions[1] = Act("second", p) BY <2>7, <5>1, <5>2 DEF Follows
          <5>4. 1 \in 1..Len(frames'[Depth].actions)
            <6>1. PICK a, b : a = Len(frames'[Depth].actions) /\ b = Len(Top.actions) OBVIOUS
            <6>2. b \in Nat /\ a = 4 + b - 1
              BY <1>13, <2>1, <2>7, <5>1, <6>1, LenProperties DEF Follows
            <6>3. 1 \in 1..a BY <6>2
            <6>4. QED BY <6>1, <6>3
          <5>5. Depth \in 1..Len(frames')
            <6>1. Depth \in Nat \ {0} BY <1>1, <2>1, TopIs
            <6>2. QED BY <2>9, <6>1
          <5>6. frames'[Depth].kind = "cleanup" BY <5>1, CleanupFields
          <5>7. QED BY <5>3, <5>4, <5>5, <5>6 DEF Second, Acts, Act
        <4>4. phase'[p] = "closing" BY <1>3, <2>2, <3>3
        <4>5. items'[p] # NoState BY <2>3, <4>1
        <4>6. QED BY <4>2, <4>3, <4>4, <4>5 DEF Rel, Applied
      <3>4. QED BY <3>2, <3>3
    <2>10. CASE /\ phase[q] \in {"new", "acquiring"} /\ Len(frames') = Depth
                /\ Continues(frames'[Depth], 1, x2)
                /\ releases' = releases
      <3>1. Working(Depth, 1, x2) BY <1>1, <2>1, <2>10, WorksIs DEF Continues
      <3>2. /\ Second(p)' => Second(p)
            /\ Second(p) => Second(p)' \/ errors' > 0
        BY <1>15, <2>6, <2>8, <3>1
      <3>3. CASE p # q
        <4>1. phase'[p] = phase[p] BY <1>3, <2>2, <3>3
        <4>2. QED BY <1>2, <1>5, <2>3, <2>10, <3>2, <4>1, SameRel
      <3>4. CASE p = q
        <4>1. ~Second(p) BY <1>1, <2>10, <3>4, SecondOnce DEF Second
        <4>2. items[p] = NoState /\ releases[p] = <<>> BY <1>5, <2>10, <3>4 DEF Rel
        <4>3. phase'[p] = "closing" BY <1>3, <2>2, <3>4
        <4>4. QED BY <2>3, <2>10, <3>2, <4>1, <4>2, <4>3 DEF Rel
      <3>5. QED BY <3>3, <3>4
    <2>11. QED BY <2>2, <2>4, <2>5, <2>9, <2>10
  <1>23. CASE Produce \/ Open \/ UNCHANGED vars
    BY <1>7, <1>23 DEF Produce, Open, vars
  <1>24. CASE Ending \/ Quitting
    BY <1>8, <1>24 DEF Ending, Quitting, GivenUp
  <1>25. CASE Failed
    BY <1>1, <1>10, <1>21, <1>24, <1>25, FailedKinds
  <1>26. QED
    BY <1>1, <1>10, <1>11, <1>12, <1>17, <1>18, <1>19, <1>20, <1>22, <1>23, <1>24, <1>25 DEF Kinds


-----------------------------------------------------------------------------
(* What a scope that is being closed covers, and what is left when it is.  *)

\* A step that neither constructs nor opens leaves less active and less open; only
\* the last action of a producer's cleanup closes it.
LEMMA VarsStep ==
  ASSUME HeldInv, [Next]_vars
  PROVE  /\ Produce \/ \A q \in Producer :
              phase'[q] \in {"new", "acquiring", "ready", "stepping"} => Active(q)
         /\ Open \/ (live' \subseteq live /\ resources' = resources)
         /\ \A p \in Producer : phase'[p] = "closed" =>
              \/ phase[p] = "closed"
              \/ Finishing /\ Acts(Depth, 1, Act("finish", p))
  <1>1. ShapeInv /\ Kinds /\ frames' \in Seq(Frame) BY StepIs DEF HeldInv
  <1>2. phase \in [Producer -> Phases] BY <1>1 DEF ShapeInv, TypeInv, VarInv
  <1>3. ASSUME phase' = phase, live' \subseteq live, resources' = resources
        PROVE  /\ \A q \in Producer :
                    phase'[q] \in {"new", "acquiring", "ready", "stepping"} => Active(q)
               /\ live' \subseteq live /\ resources' = resources
               /\ \A p \in Producer : phase'[p] = "closed" => phase[p] = "closed"
    BY <1>3 DEF Active
  <1>4. CASE Minor \/ Calling \/ Shutting \/ Consuming \/ Joining
    <2>1. UNCHANGED <<phase, opening>>
      BY <1>4 DEF Minor, Calling, Shutting, Consuming, Joining, Still, producing
    <2>2. QED BY <1>3, <2>1 DEF opening
  <1>5. CASE Failed \/ Interrupting \/ Ending \/ Reasoning \/ Scoping \/ UNCHANGED vars
    <2>1. phase' = phase /\ live' = live /\ resources' = resources
      BY <1>5 DEF Failed, Interrupting, Ending, Reasoning, Scoping, Still, producing, opening, vars
    <2>2. QED BY <1>3, <2>1
  <1>6. CASE Passing
    <2>1. phase' = phase /\ live' \subseteq live /\ resources' = resources
      BY <1>6 DEF Passing, producing
    <2>2. QED BY <1>3, <2>1
  <1>7. CASE Entering
    <2>1. live' = live /\ resources' = resources BY <1>7 DEF Entering, opening
    <2>2. PICK p, job : /\ phase[p] = IF job = "acquire" THEN "new" ELSE "ready"
                        /\ phase' = [phase EXCEPT ![p] = IF job = "acquire" THEN "acquiring"
                                                         ELSE "stepping"]
      BY <1>7 DEF Entering
    <2>3. \A q \in Producer : phase'[q] = phase[q] \/ (Active(q) /\ phase'[q] # "closed")
      BY <1>2, <2>2 DEF Active
    <2>4. QED BY <2>1, <2>3 DEF Active
  <1>8. CASE Answering
    <2>1. live' = live /\ resources' = resources BY <1>8 DEF Answering, opening
    <2>2. phase' = [phase EXCEPT ![Top.of] = "ready"] BY <1>8 DEF Answering
    <2>3. Running BY <1>8, EmptySeq DEF Answering, Running, Depth
    <2>4. Active(Top.of) BY <1>8, <2>3, TopCallback DEF Answering
    <2>5. \A q \in Producer : phase'[q] = phase[q] \/ (Active(q) /\ phase'[q] # "closed")
      BY <1>2, <2>2, <2>4
    <2>6. QED BY <2>1, <2>5 DEF Active
  <1>9. CASE Beginning
    <2>1. live' = live /\ resources' = resources BY <1>9 DEF Beginning, opening
    <2>2. PICK p : phase' = [phase EXCEPT ![p] = "closing"] BY <1>9 DEF Beginning
    <2>3. \A q \in Producer : phase'[q] = phase[q] \/ phase'[q] = "closing"
      BY <1>2, <2>2
    <2>4. QED BY <2>1, <2>3 DEF Active
  <1>10. CASE Finishing
    <2>1. live' = live /\ resources' = resources BY <1>10 DEF Finishing, opening
    <2>2. PICK p \in Producer : /\ Top.actions[1] = Act("finish", p)
                                /\ phase' = [phase EXCEPT ![p] = "closed"]
      BY <1>10 DEF Finishing
    <2>3. Running BY <1>1, <1>10, FinishingStands
    <2>4. Acts(Depth, 1, Act("finish", p)) BY <1>1, <1>10, <2>2, <2>3, TopActs DEF Finishing
    <2>5. \A q \in Producer : phase'[q] = phase[q] \/ (q = p /\ phase'[q] = "closed")
      BY <1>2, <2>2
    <2>6. QED BY <1>10, <2>1, <2>4, <2>5 DEF Active
  <1>11. CASE Produce
    <2>1. live' = live /\ resources' = resources BY <1>11 DEF Produce, opening
    <2>2. PICK p : phase' = [phase EXCEPT ![p] = "new"] BY <1>11 DEF Produce
    <2>3. \A q \in Producer : phase'[q] = phase[q] \/ phase'[q] = "new"
      BY <1>2, <2>2
    <2>4. QED BY <1>11, <2>1, <2>3
  <1>12. CASE Open
    BY <1>12 DEF Open, producing, Active
  <1>13. QED
    BY <1>1, <1>4, <1>5, <1>6, <1>7, <1>8, <1>9, <1>10, <1>11, <1>12 DEF Kinds


\* The cleanup at i is to close, before its action k, all that is open in the scope of p.
Covered(i, k, p) ==
  /\ \A q \in Producer : Active(q) /\ parent[q] = p =>
       \E l : l < k /\ Acts(i, l, Act("producer", q))
  /\ \A r \in live : resources[r] = p =>
       \E l, keys : l < k /\ Acts(i, l, Act("close", keys)) /\ r \in keys
\* Between the closing of a scope and the end of its producer, the cleanup covers the
\* scope; a closed producer has nothing open in it; nothing is open at the end.
CoverInv ==
  \A p \in Producer : \A i, k :
    Acts(i, k, Act("finish", p)) /\ ~Acts(i, k - 1, Act("scope", p)) => Covered(i, k, p)
ClosedInv ==
  \A p \in Producer : phase[p] = "closed" =>
    /\ \A q \in Producer : Active(q) => parent[q] # p
    /\ \A r \in live : resources[r] # p
EndInv == frames = <<>> => live = {} /\ \A p \in Producer : ~Active(p)

\* Code runs in no scope that is covered or closed.
LEMMA RunningScope ==
  ASSUME HeldInv, Running, Top.kind # "cleanup", NEW p \in Producer, Top.owner = p
  PROVE  /\ phase[p] # "closed"
         /\ \A i, k : Acts(i, k, Act("finish", p)) => Acts(i, k - 1, Act("scope", p))
  <1>1. ShapeInv /\ FinishInv /\ OwnerInv BY DEF HeldInv, ScopeInv
  <1>2. Depth \in Nat \ {0} /\ Depth \in 1..Depth /\ Top = frames[Depth] BY <1>1, TopIs
  <1>3. ~Doomed(Depth)
    <2>1. Depth + 1..Len(frames) = {} BY <1>2 DEF Depth
    <2>2. QED BY <2>1 DEF Doomed
  <1>4. p # 0 BY Bounds DEF Producer
  <1>5. \/ phase[p] \in {"acquiring", "stepping"}
        \/ phase[p] = "closing" /\ Pending(Depth, p)
    BY <1>1, <1>2, <1>3, <1>4 DEF OwnerInv
  <1>6. ASSUME NEW i, NEW k, Acts(i, k, Act("finish", p))
        PROVE  Acts(i, k - 1, Act("scope", p))
    <2>1. phase[p] = "closing" BY <1>1, <1>6 DEF FinishInv
    <2>2. PICK j, l : Acts(j, l, Act("scope", p)) BY <1>5, <2>1 DEF Pending
    <2>3. Acts(j, l + 1, Act("finish", p)) /\ l \in Nat BY <1>1, <2>2, ScopeFinishes
    <2>4. i = j /\ k = l + 1 BY <1>1, <1>6, <2>3 DEF FinishInv
    <2>5. k - 1 = l BY <2>3, <2>4
    <2>6. QED BY <2>2, <2>4, <2>5
  <1>7. QED BY <1>5, <1>6


\* What the scope's cleanup is still to close is covered when each action done before
\* left nothing of what it was to close.
LEMMA CoverKept ==
  ASSUME HeldInv, [Next]_vars, ~Produce, ~Open, NEW p \in Producer, NEW i, NEW k, NEW h,
         Covered(i, k, p),
         \A l, a : l < k /\ Acts(i, l, a) =>
           \/ \E m : m < h /\ Acts(i, m, a)'
           \/ /\ a.do = "producer" => phase'[a.on] \notin {"new", "acquiring", "ready", "stepping"}
              /\ a.do = "close" => live' \cap a.on = {}
  PROVE  Covered(i, h, p)'
  <1>1. /\ \A q \in Producer : phase'[q] \in {"new", "acquiring", "ready", "stepping"} => Active(q)
        /\ live' \subseteq live /\ resources' = resources
    BY VarsStep
  <1>2. Lasting BY PhasesStep DEF HeldInv
  <1>3. ASSUME NEW q \in Producer, parent'[q] = p,
               phase'[q] \in {"new", "acquiring", "ready", "stepping"}
        PROVE  \E l : l < h /\ Acts(i, l, Act("producer", q))'
    <2>1. Active(q) BY <1>1, <1>3
    <2>2. parent[q] = p BY <1>2, <1>3, <2>1 DEF Lasting, Active
    <2>3. PICK l : l < k /\ Acts(i, l, Act("producer", q)) BY <2>1, <2>2 DEF Covered
    <2>4. PICK a : a = Act("producer", q) OBVIOUS
    <2>5. a.do = "producer" /\ a.on = q BY <2>4 DEF Act
    <2>6. \E m : m < h /\ Acts(i, m, a)' BY <1>3, <2>3, <2>4, <2>5
    <2>7. QED BY <2>4, <2>6
  <1>4. ASSUME NEW r \in live', resources'[r] = p
        PROVE  \E l, keys : l < h /\ Acts(i, l, Act("close", keys))' /\ r \in keys
    <2>1. r \in live /\ resources[r] = p BY <1>1, <1>4
    <2>2. PICK l, keys : l < k /\ Acts(i, l, Act("close", keys)) /\ r \in keys BY <2>1 DEF Covered
    <2>3. PICK a : a = Act("close", keys) OBVIOUS
    <2>4. a.do = "close" /\ a.on = keys BY <2>3 DEF Act
    <2>5. \E m : m < h /\ Acts(i, m, a)' BY <1>4, <2>2, <2>3, <2>4
    <2>6. QED BY <2>2, <2>3, <2>5
  <1>5. QED BY <1>3, <1>4 DEF Covered, Active, Act

LEMMA TopScope ==
  ASSUME ShapeInv, Running, Top.kind # "cleanup"
  PROVE  Top.owner \in Scope
  <1>1. Top \in Frame BY TopIs
  <1>2. Top \in Bodies \/ Top \in TaskFrames BY <1>1, CleanupFields DEF Frame
  <1>3. QED BY <1>2, BodyFields, TaskFields

LEMMA CoverAlone ==
  ASSUME HeldInv, CoverInv, [Next]_vars, Produce \/ Open
  PROVE  CoverInv'
  <1>1. ShapeInv BY DEF HeldInv
  <1>2. frames' = frames /\ Running /\ Top.kind # "cleanup"
    BY DEF Produce, Open, Coding, OnTop
  <1>3. \A i, k, a : Acts(i, k, a)' <=> Acts(i, k, a) BY <1>2, AloneIs
  <1>4. SUFFICES ASSUME NEW p \in Producer, NEW i, NEW k, Acts(i, k, Act("finish", p))',
                        ~Acts(i, k - 1, Act("scope", p))'
                 PROVE  Covered(i, k, p)'
    BY DEF CoverInv, Act
  <1>5. Acts(i, k, Act("finish", p)) /\ ~Acts(i, k - 1, Act("scope", p)) BY <1>3, <1>4
  <1>6. Covered(i, k, p) BY <1>5 DEF CoverInv
  <1>7. Top.owner # p BY <1>2, <1>5, RunningScope
  <1>8. ASSUME NEW q \in Producer, parent'[q] = p,
               phase'[q] \in {"new", "acquiring", "ready", "stepping"}
        PROVE  \E l : l < k /\ Acts(i, l, Act("producer", q))'
    <2>1. Active(q) /\ parent[q] = p
      <3>1. CASE Open BY <1>8, <3>1 DEF Open, producing, Active
      <3>2. CASE Produce
        <4>1. PICK n \in Producer : /\ phase' = [phase EXCEPT ![n] = "new"]
                                    /\ parent' = [parent EXCEPT ![n] = Top.owner]
          BY <3>2 DEF Produce
        <4>2. phase \in [Producer -> Phases] /\ parent \in [Producer -> Scope]
          BY <1>1 DEF ShapeInv, TypeInv, VarInv
        <4>3. q # n BY <1>7, <1>8, <4>1, <4>2
        <4>4. QED BY <1>8, <4>1, <4>2, <4>3 DEF Active
      <3>3. QED BY <3>1, <3>2
    <2>2. PICK l : l < k /\ Acts(i, l, Act("producer", q)) BY <1>6, <2>1 DEF Covered
    <2>3. PICK a : a = Act("producer", q) OBVIOUS
    <2>4. Acts(i, l, a)' BY <1>3, <2>2, <2>3
    <2>5. QED BY <2>2, <2>3, <2>4
  <1>9. ASSUME NEW r \in live', resources'[r] = p
        PROVE  \E l, keys : l < k /\ Acts(i, l, Act("close", keys))' /\ r \in keys
    <2>1. r \in live /\ resources[r] = p
      <3>1. CASE Produce BY <1>9, <3>1 DEF Produce, opening
      <3>2. CASE Open
        <4>1. /\ resources' = Append(resources, Top.owner)
              /\ live' = live \cup {Len(resources) + 1}
          BY <3>2 DEF Open
        <4>2. resources \in Seq(Scope) /\ live \subseteq 1..Len(resources)
          BY <1>1 DEF ShapeInv, TypeInv, VarInv
        <4>3. Top.owner \in Scope BY <3>2, <1>1, <1>2, TopScope
        <4>4. /\ \A j \in 1..Len(resources) : resources'[j] = resources[j]
              /\ resources'[Len(resources) + 1] = Top.owner
          BY <4>1, <4>2, <4>3, AppendProperties
        <4>5. QED BY <1>7, <1>9, <4>1, <4>2, <4>4
      <3>3. QED BY <3>1, <3>2
    <2>2. PICK l, keys : l < k /\ Acts(i, l, Act("close", keys)) /\ r \in keys
      BY <1>6, <2>1 DEF Covered
    <2>3. PICK a : a = Act("close", keys) OBVIOUS
    <2>4. Acts(i, l, a)' BY <1>3, <2>2, <2>3
    <2>5. QED BY <2>2, <2>3, <2>4
  <1>10. QED BY <1>8, <1>9 DEF Covered, Active, Act


LEMMA CoverQuiet ==
  ASSUME HeldInv, CoverInv, [Next]_vars, ~Produce, ~Open, NEW n \in 1..Depth, Quieting(n)
  PROVE  CoverInv'
  <1>1. ShapeInv /\ frames' \in Seq(Frame) BY StepIs DEF HeldInv
  <1>2. \A i, k, a : Acts(i, k, a) => Acts(i, k, a)' BY <1>1, QuietActs
  <1>3. SUFFICES ASSUME NEW p \in Producer, NEW i, NEW k, Acts(i, k, Act("finish", p))',
                        ~Acts(i, k - 1, Act("scope", p))'
                 PROVE  Covered(i, k, p)'
    BY DEF CoverInv, Act
  <1>4. Acts(i, k, Act("finish", p))
    <2>1. PICK a : a = Act("finish", p) OBVIOUS
    <2>2. a.do = "finish" BY <2>1 DEF Act
    <2>3. \A q, keys : a # Act("producer", q) /\ a # Act("close", keys) BY <2>2 DEF Act
    <2>4. Acts(i, k, a)' BY <1>3, <2>1
    <2>5. Acts(i, k, a) BY <1>1, <2>3, <2>4, QuietActs
    <2>6. QED BY <2>1, <2>5
  <1>5. ~Acts(i, k - 1, Act("scope", p))
    <2>1. PICK a : a = Act("scope", p) OBVIOUS
    <2>2. ~Acts(i, k - 1, a)' BY <1>3, <2>1
    <2>3. ~Acts(i, k - 1, a) BY <1>2, <2>2
    <2>4. QED BY <2>1, <2>3
  <1>6. Covered(i, k, p) BY <1>4, <1>5 DEF CoverInv
  <1>7. QED BY <1>2, <1>6, CoverKept

\* What a cleanup has done of its actions has left nothing of what it was to close.
LEMMA WorkDone ==
  ASSUME ShapeInv, NEW n \in 1..Depth, NEW d, NEW x, Works(n, d, x),
         NEW l \in 1..d, NEW a, frames[n].actions[l] = a
  PROVE  /\ a.do = "producer" /\ a.on \in Producer =>
              phase'[a.on] \notin {"new", "acquiring", "ready", "stepping"}
         /\ a.do = "close" => live' \cap a.on = {}
  <1>1. phase \in [Producer -> Phases] BY DEF ShapeInv, TypeInv, VarInv
  <1>2. CASE Begins(n, d, x)
    <2>1. PICK p \in Producer : /\ frames[n].actions[1] = Act("producer", p)
                                /\ phase' = [phase EXCEPT ![p] = "closing"]
      BY <1>2 DEF Begins
    <2>2. d = 1 /\ l = 1 BY <1>2 DEF Begins
    <2>3. a.do = "producer" /\ a.on = p BY <2>1, <2>2 DEF Act
    <2>4. phase'[p] = "closing" BY <1>1, <2>1
    <2>5. QED BY <2>3, <2>4
  <1>3. CASE Scopes(n, d, x) \/ Finishes(n, d, x)
    <2>1. PICK p \in Producer : frames[n].actions[1] \in {Act("scope", p), Act("finish", p)}
      BY <1>3 DEF Scopes, Finishes
    <2>2. d = 1 /\ l = 1 BY <1>3 DEF Scopes, Finishes
    <2>3. a.do \in {"scope", "finish"} BY <2>1, <2>2 DEF Act
    <2>4. QED BY <2>3
  <1>4. CASE Passes(n, d, x)
    <2>1. \/ a.do \in {"second", "check"}
          \/ a.do = "close" /\ live' = live \ a.on
          \/ a.do = "producer" /\ ~Active(a.on)
      BY <1>4 DEF Passes
    <2>2. phase' = phase BY <1>4 DEF Passes, Reasoning, Passing, Deferring, Ruins, producing
    <2>3. QED BY <2>1, <2>2 DEF Active
  <1>5. QED BY <1>2, <1>3, <1>4 DEF Works

LEMMA CoverWorks ==
  ASSUME HeldInv, CoverInv, [Next]_vars, ~Produce, ~Open, NEW n \in 1..Depth, NEW d, NEW x,
         Works(n, d, x)
  PROVE  CoverInv'
  <1>1. ShapeInv /\ frames' \in Seq(Frame) BY StepIs DEF HeldInv
  <1>2. /\ Working(n, d, x) /\ d \in Nat /\ x \in Seq(Actions)
        /\ Begins(n, d, x) \/ Scopes(n, d, x) \/ Finishes(n, d, x) \/ Passes(n, d, x)
    BY DEF Works
  <1>3. PICK m \in Nat : m = Len(x) BY <1>2, LenProperties
  <1>4. Depth \in Nat /\ n \in Nat BY <1>1, LenProperties DEF Depth, ShapeInv, TypeInv
  <1>5. \A i, k, a : Acts(i, k, a) =>
          \/ i \in 1..n - 1 /\ Acts(i, k, a)'
          \/ i = n /\ k \in 1..d /\ frames[n].actions[k] = a
          \/ i = n /\ k > d /\ Acts(i, k - d + m, a)'
    BY <1>1, <1>2, <1>3, WorkMoves
  <1>6. \A i, k, a : Acts(i, k, a)' =>
          \/ i \in 1..n - 1 /\ Acts(i, k, a)
          \/ i = n /\ k \in 1..m /\ x[k] = a
          \/ i = n /\ k > m /\ Acts(i, k - m + d, a)
    BY <1>1, <1>2, <1>3, WorkMoves
  <1>7. \A i, k, a : Acts(i, k, a)' => i \in Nat /\ k \in Nat
    BY <1>1, ShapeStep, ActsNext DEF ActsNat
  <1>8. \A i, k, a : Acts(i, k, a) => i \in Nat /\ k \in Nat \ {0} /\ a \in Actions
    BY <1>1, ActsIs
  <1>9. \A l \in 1..d, a \in Actions : frames[n].actions[l] = a =>
          /\ a.do = "producer" => phase'[a.on] \notin {"new", "acquiring", "ready", "stepping"}
          /\ a.do = "close" => live' \cap a.on = {}
    BY <1>1, WorkDone, ActionKinds
  \* What x puts first is in the cleanup now.
  <1>10. \A k \in 1..m : Acts(n, k, x[k])'
    <2>1. /\ frames'[n] \in CleanupFrames /\ n \in 1..Len(frames')
          /\ Follows(frames[n].actions, frames'[n].actions, d, x)
      BY <1>2, <1>4 DEF Working, Stands
    <2>2. frames[n].actions \in Seq(Actions) /\ frames'[n].kind = "cleanup"
      BY <1>2, <2>1, CleanupFields DEF Working
    <2>3. Len(frames[n].actions) \in Nat BY <2>2, LenProperties
    <2>4. /\ Len(frames'[n].actions) = m + Len(frames[n].actions) - d
          /\ d \in 0..Len(frames[n].actions)
          /\ \A k \in 1..m : frames'[n].actions[k] = x[k]
      BY <1>3, <2>1 DEF Follows
    <2>5. \A k \in 1..m : k \in 1..Len(frames'[n].actions) BY <2>3, <2>4
    <2>6. QED BY <2>1, <2>2, <2>4, <2>5 DEF Acts
  <1>11. SUFFICES ASSUME NEW p \in Producer, NEW i, NEW k, Acts(i, k, Act("finish", p))',
                         ~Acts(i, k - 1, Act("scope", p))'
                  PROVE  Covered(i, k, p)'
    BY DEF CoverInv, Act
  <1> DEFINE f == Act("finish", p)
             s == Act("scope", p)
  <1>a. Acts(i, k, f)' /\ ~Acts(i, k - 1, s)' BY <1>11 DEF Act
  <1>b. f.do = "finish" /\ f.on = p /\ s.do = "scope" /\ s.on = p BY DEF Act
  <1>c. \A h, g : Acts(h, g, f) /\ ~Acts(h, g - 1, s) => Covered(h, g, p) BY DEF CoverInv
  <1>d. f = Act("finish", p) /\ s = Act("scope", p) OBVIOUS
  <1> HIDE DEF f, s
  <1>12. i \in Nat /\ k \in Nat BY <1>7, <1>a
  <1>13. CASE i \in 1..n - 1 /\ Acts(i, k, f)
    <2>1. i # n BY <1>4, <1>13
    <2>2. \A l, a : Acts(i, l, a) => Acts(i, l, a)' BY <1>5, <2>1
    <2>3. Covered(i, k, p) BY <1>a, <1>c, <1>13, <2>2
    <2>4. QED BY <2>2, <2>3, CoverKept
  <1>14. CASE i = n /\ k \in 1..m /\ x[k] = f
    <2>1. CASE Begins(n, d, x)
      <3>1. PICK q \in Producer :
              x \in {<<Act("second", q), Act("check", q), Act("scope", q), Act("finish", q)>>,
                     <<Act("scope", q), Act("finish", q)>>}
        BY <2>1 DEF Begins
      <3>2. k - 1 \in 1..m /\ x[k - 1] = s
        <4>1. CASE x = <<Act("second", q), Act("check", q), Act("scope", q), Act("finish", q)>>
          <5>1. m = 4 /\ k \in 1..4 BY <1>3, <1>14, <4>1
          <5>2. k = 1 \/ k = 2 \/ k = 3 \/ k = 4 BY <5>1
          <5>3. k = 4 /\ q = p BY <1>b, <1>14, <4>1, <5>2 DEF Act
          <5>4. QED BY <1>d, <4>1, <5>1, <5>3
        <4>2. CASE x = <<Act("scope", q), Act("finish", q)>>
          <5>1. m = 2 /\ k \in 1..2 BY <1>3, <1>14, <4>2
          <5>2. k = 1 \/ k = 2 BY <5>1
          <5>3. k = 2 /\ q = p BY <1>b, <1>14, <4>2, <5>2 DEF Act
          <5>4. QED BY <1>d, <4>2, <5>1, <5>3
        <4>3. QED BY <3>1, <4>1, <4>2
      <3>3. QED BY <1>10, <1>14, <1>a, <3>2
    <2>2. CASE Scopes(n, d, x)
      <3>1. PICK S, keys : Closes(x, S, keys) BY <2>2 DEF Scopes
      <3>2. x[k].do \in {"producer", "close"} BY <1>3, <1>14, <3>1 DEF Closes, Act
      <3>3. QED BY <1>14, <1>b, <3>2
    <2>3. CASE x = <<>>
      <3>1. m = 0 BY <1>3, <2>3, EmptySeq
      <3>2. QED BY <1>14, <3>1
    <2>4. QED BY <1>2, <2>1, <2>2, <2>3 DEF Finishes, Passes
  <1>15. CASE i = n /\ k > m /\ Acts(n, k - m + d, f)
    <2>1. PICK h \in Nat : h = k - m + d
      <3>1. k - m + d \in Nat BY <1>2, <1>3, <1>12, <1>15
      <3>2. QED BY <3>1
    <2>2. h > d /\ k = h - d + m BY <1>2, <1>3, <1>12, <1>15, <2>1
    \* Of the actions before, those that are done left nothing open.
    <2>3. ASSUME NEW l, NEW a, l < h, Acts(n, l, a)
          PROVE  \/ \E g : g < k /\ Acts(n, g, a)'
                 \/ /\ a.do = "producer" =>
                         phase'[a.on] \notin {"new", "acquiring", "ready", "stepping"}
                    /\ a.do = "close" => live' \cap a.on = {}
      <3>1. l \in Nat /\ a \in Actions BY <1>8, <2>3
      <3>2. CASE l \in 1..d /\ frames[n].actions[l] = a BY <1>9, <3>1, <3>2
      <3>3. CASE l > d /\ Acts(n, l - d + m, a)'
        <4>1. l - d + m < k BY <1>2, <1>3, <2>2, <2>3, <3>1
        <4>2. QED BY <3>3, <4>1
      <3>4. n \notin 1..n - 1 BY <1>4
      <3>5. QED BY <1>5, <2>3, <3>2, <3>3, <3>4
    <2>4. CASE ~Acts(n, h - 1, s)
      <3>1. Covered(n, h, p) BY <1>c, <1>15, <2>1, <2>4
      <3>2. QED BY <1>15, <2>3, <3>1, CoverKept
    <2>5. CASE Acts(n, h - 1, s)
      <3>1. n \notin 1..n - 1 BY <1>4
      <3>2. CASE h - 1 > d /\ Acts(n, h - 1 - d + m, s)'
        <4>1. h - 1 - d + m = k - 1 BY <1>2, <1>3, <2>2
        <4>2. QED BY <1>15, <1>a, <3>2, <4>1
      <3>3. CASE h - 1 \in 1..d /\ frames[n].actions[h - 1] = s
        <4>1. h - 1 = d /\ k = m + 1 BY <1>2, <1>3, <1>12, <2>2, <3>3
        <4>2. frames[n].actions[d] = s /\ d \in 1..d BY <3>3, <4>1
        <4>3. Scopes(n, d, x)
          <5>1. ASSUME Begins(n, d, x) PROVE FALSE
            <6>1. PICK q : frames[n].actions[1] = Act("producer", q) /\ d = 1 BY <5>1 DEF Begins
            <6>2. s.do = "producer" BY <4>2, <6>1 DEF Act
            <6>3. QED BY <1>b, <6>2
          <5>2. ASSUME Finishes(n, d, x) PROVE FALSE
            <6>1. PICK q : frames[n].actions[1] = Act("finish", q) /\ d = 1 BY <5>2 DEF Finishes
            <6>2. s.do = "finish" BY <4>2, <6>1 DEF Act
            <6>3. QED BY <1>b, <6>2
          <5>3. ~Passes(n, d, x) BY <1>b, <4>2 DEF Passes
          <5>4. QED BY <1>2, <5>1, <5>2, <5>3
        <4>4. Closes(x, {q \in Producer : Active(q) /\ parent[q] = p}, {r \in live : resources[r] = p})
          <5>1. PICK q \in Producer :
                   /\ frames[n].actions[1] = Act("scope", q)
                   /\ Closes(x, {z \in Producer : Active(z) /\ parent[z] = q},
                                {r \in live : resources[r] = q})
            BY <4>3 DEF Scopes
          <5>2. d = 1 BY <4>3 DEF Scopes
          <5>3. q = p BY <1>b, <4>2, <5>1, <5>2 DEF Act
          <5>4. QED BY <5>1, <5>3
        <4>5. \A q \in Producer : phase'[q] \in {"new", "acquiring", "ready", "stepping"} =>
                                  Active(q)
          BY VarsStep
        <4>6. live' \subseteq live /\ resources' = resources BY VarsStep
        <4>7. Lasting BY PhasesStep DEF HeldInv
        <4>8. \A j \in 1..m : j < k BY <1>3, <4>1
        <4>9. ASSUME NEW q \in Producer, parent'[q] = p,
                     phase'[q] \in {"new", "acquiring", "ready", "stepping"}
              PROVE  \E l : l < k /\ Acts(n, l, Act("producer", q))'
          <5>1. Active(q) BY <4>5, <4>9
          <5>2. parent[q] = p BY <4>7, <4>9, <5>1 DEF Lasting, Active
          <5>3. PICK j \in 1..m : x[j] = Act("producer", q) BY <1>3, <4>4, <5>1, <5>2 DEF Closes
          <5>4. Acts(n, j, x[j])' BY <1>10
          <5>5. PICK a : a = x[j] OBVIOUS
          <5>6. Acts(n, j, a)' /\ a = Act("producer", q) BY <5>3, <5>4, <5>5
          <5>7. QED BY <4>8, <5>6
        <4>10. ASSUME NEW r \in live', resources'[r] = p
               PROVE  \E l, keys : l < k /\ Acts(n, l, Act("close", keys))' /\ r \in keys
          <5>1. r \in live /\ resources[r] = p BY <4>6, <4>10
          <5>2. PICK j \in 1..m : x[j].do = "close" /\ r \in x[j].on
            BY <1>3, <4>4, <5>1 DEF Closes
          <5>3. PICK a : a = x[j] OBVIOUS
          <5>4. a = Act("close", a.on)
            <6>1. PICK S, keys : Closes(x, S, keys) BY <4>4
            <6>2. a.do = "producer" \/ a = Act("close", keys) BY <1>3, <5>3, <6>1 DEF Closes
            <6>3. a = Act("close", keys) BY <5>2, <5>3, <6>2
            <6>4. a.on = keys BY <6>3 DEF Act
            <6>5. QED BY <6>3, <6>4
          <5>5. Acts(n, j, a)' BY <1>10, <5>3
          <5>6. QED BY <4>8, <5>2, <5>3, <5>4, <5>5
        <4>11. QED BY <1>15, <4>9, <4>10 DEF Covered, Active, Act
      <3>4. QED BY <1>5, <2>5, <3>1, <3>2, <3>3
    <2>6. QED BY <2>4, <2>5
  <1>16. QED BY <1>6, <1>a, <1>13, <1>14, <1>15


LEMMA CoverStep ==
  ASSUME HeldInv, CoverInv, [Next]_vars
  PROVE  CoverInv'
  <1>1. ShapeInv /\ frames' \in Seq(Frame) BY StepIs DEF HeldInv
  <1>2. CASE Produce \/ Open BY <1>2, CoverAlone
  <1>3. ASSUME ~Produce, ~Open PROVE CoverInv'
    <2>1. CASE frames' = <<>>
      <3>1. Len(frames') = 0 BY <2>1, EmptySeq
      <3>2. \A i, k, a : ~Acts(i, k, a)' BY <3>1 DEF Acts
      <3>3. QED BY <3>2 DEF CoverInv, Act
    <2>2. CASE UNCHANGED vars
      BY <2>2 DEF CoverInv, Covered, Acts, Active, vars, producing, opening
    <2>3. QED BY <1>1, <1>3, <2>1, <2>2, StepActs, CoverQuiet, CoverWorks
  <1>4. QED BY <1>2, <1>3

LEMMA ClosedStep ==
  ASSUME HeldInv, CoverInv, ClosedInv, [Next]_vars
  PROVE  ClosedInv'
  <1>1. ShapeInv BY DEF HeldInv
  <1>2. SUFFICES ASSUME NEW p \in Producer, phase'[p] = "closed"
                 PROVE  /\ \A q \in Producer :
                             phase'[q] \in {"new", "acquiring", "ready", "stepping"} => parent'[q] # p
                        /\ \A r \in live' : resources'[r] # p
    BY DEF ClosedInv, Active
  \* Nothing was open in its scope before the step ...
  <1>3. /\ \A q \in Producer : Active(q) => parent[q] # p
        /\ \A r \in live : resources[r] # p
    <2>1. CASE phase[p] = "closed" BY <2>1 DEF ClosedInv
    <2>2. CASE Acts(Depth, 1, Act("finish", p))
      <3>1. ~Acts(Depth, 0, Act("scope", p)) BY DEF Acts
      <3>2. Covered(Depth, 1, p)
        <4>1. 1 - 1 = 0 OBVIOUS
        <4>2. QED BY <2>2, <3>1, <4>1 DEF CoverInv
      <3>3. \A l, a : Acts(Depth, l, a) => ~(l < 1) BY DEF Acts
      <3>4. QED BY <3>2, <3>3 DEF Covered
    <2>3. QED BY <1>2, <2>1, <2>2, VarsStep
  \* ... and no step constructs or opens anything in it.
  <1>4. ASSUME Produce \/ Open
        PROVE  Top.owner # p
    <2>1. /\ Running /\ Top.kind # "cleanup" BY <1>4 DEF Produce, Open, Coding, OnTop
    <2>2. ~Finishing
      <3>1. Finishing => Top.kind = "cleanup" BY CleanupFields DEF Finishing
      <3>2. QED BY <2>1, <3>1
    <2>3. phase[p] = "closed" BY <1>2, <2>2, VarsStep
    <2>4. QED BY <2>1, <2>3, RunningScope
  <1>5. ASSUME NEW q \in Producer, phase'[q] \in {"new", "acquiring", "ready", "stepping"}
        PROVE  parent'[q] # p
    <2>1. CASE Produce
      <3>1. PICK n \in Producer : /\ phase' = [phase EXCEPT ![n] = "new"]
                                  /\ parent' = [parent EXCEPT ![n] = Top.owner]
        BY <2>1 DEF Produce
      <3>2. phase \in [Producer -> Phases] /\ parent \in [Producer -> Scope]
        BY <1>1 DEF ShapeInv, TypeInv, VarInv
      <3>3. QED BY <1>3, <1>4, <1>5, <2>1, <3>1, <3>2 DEF Active
    <2>2. CASE ~Produce
      <3>1. Active(q) BY <1>5, <2>2, VarsStep
      <3>2. Lasting BY PhasesStep DEF HeldInv
      <3>3. parent'[q] = parent[q] BY <3>1, <3>2 DEF Lasting, Active
      <3>4. QED BY <1>3, <3>1, <3>3
    <2>3. QED BY <2>1, <2>2
  <1>6. ASSUME NEW r \in live'
        PROVE  resources'[r] # p
    <2>1. CASE Open
      <3>1. /\ resources' = Append(resources, Top.owner)
            /\ live' = live \cup {Len(resources) + 1}
        BY <2>1 DEF Open
      <3>2. resources \in Seq(Scope) /\ live \subseteq 1..Len(resources)
        BY <1>1 DEF ShapeInv, TypeInv, VarInv
      <3>3. Running /\ Top.kind # "cleanup" BY <2>1 DEF Open, Coding, OnTop
      <3>4. Top.owner \in Scope BY <1>1, <3>3, TopScope
      <3>5. /\ \A j \in 1..Len(resources) : resources'[j] = resources[j]
            /\ resources'[Len(resources) + 1] = Top.owner
        BY <3>1, <3>2, <3>4, AppendProperties
      <3>6. QED BY <1>3, <1>4, <1>6, <2>1, <3>1, <3>2, <3>5
    <2>2. CASE ~Open
      BY <1>3, <1>6, <2>2, VarsStep
    <2>3. QED BY <2>1, <2>2
  <1>7. QED BY <1>5, <1>6

LEMMA EndStep ==
  ASSUME HeldInv, EndInv, [Next]_vars
  PROVE  EndInv'
  <1>1. ShapeInv /\ frames' \in Seq(Frame) BY StepIs DEF HeldInv
  <1>2. SUFFICES ASSUME frames' = <<>>
                 PROVE  /\ live' = {}
                        /\ \A p \in Producer :
                             phase'[p] \notin {"new", "acquiring", "ready", "stepping"}
    BY DEF EndInv, Active
  <1>3. CASE frames' = frames /\ (Produce \/ Open \/ UNCHANGED vars)
    <2>1. ~Running BY <1>2, <1>3 DEF Running
    <2>2. UNCHANGED vars BY <1>3, <2>1 DEF Produce, Open, Coding, OnTop
    <2>3. QED BY <1>2, <1>3, <2>2 DEF EndInv, Active, vars, producing, opening
  <1>4. CASE Ending
    BY <1>4 DEF Ending, Active, opening
  <1>5. CASE Quitting
    <2>1. PICK m, error, fs : Origin(m, fs, error) /\ GivenUp(fs, error) BY <1>5 DEF Quitting
    <2>2. phase' = phase /\ live' = live BY <1>5 DEF Quitting, Ruins, opening
    <2>3. LeftOpen(fs, 0) = {} /\ Unclosed(fs, 0) = {} BY <2>1 DEF GivenUp
    <2>4. Made(fs, 0) = Producer BY Bounds DEF Made, Producer
    <2>5. \A p \in Producer : ~Active(p) BY <2>3, <2>4 DEF LeftOpen
    <2>6. live \subseteq Nat \ {0} BY <1>1 DEF ShapeInv, TypeInv, VarInv
    <2>7. live = {} BY <2>3, <2>6 DEF Unclosed
    <2>8. QED BY <2>2, <2>5, <2>7 DEF Active
  <1>6. ASSUME NEW n \in 1..Depth, Stands(n) PROVE FALSE
    <2>1. Len(frames') = 0 BY <1>2, EmptySeq
    <2>2. Depth \in Nat BY <1>1, LenProperties DEF Depth, ShapeInv, TypeInv
    <2>3. Len(frames') \in {n, n + 1} BY <1>6 DEF Stands
    <2>4. QED BY <2>1, <2>2, <2>3
  <1>7. QED BY <1>1, <1>3, <1>4, <1>5, <1>6, StepActs DEF Quieting, Quiet, Works, Working

-----------------------------------------------------------------------------
(* Nothing is released twice, or left.                                     *)
ReleasesInv ==
  HeldInv /\ CauseInv /\ ReleaseInv /\ CoverInv /\ ClosedInv /\ EndInv

LEMMA ReleasesInit ==
  ASSUME Init
  PROVE  ReleasesInv
  <1>1. HeldInv BY HeldInit
  <1>2. PICK f : frames = <<f>> /\ f.kind = "body" BY DEF Init
  <1>3. Len(frames) = 1 /\ frames[1] = f BY <1>2
  <1>4. \A i \in 1..Len(frames) : frames[i].kind # "cleanup"
    <2>1. \A i \in 1..1 : i = 1 OBVIOUS
    <2>2. QED BY <1>2, <1>3, <2>1
  <1>5. \A i, k, a : ~Acts(i, k, a) BY <1>4 DEF Acts
  <1>6. CauseInv BY <1>4 DEF CauseInv, Caused, Depth
  <1>7. ReleaseInv BY <1>5 DEF Init, ReleaseInv, Rel, Second, NoState
  <1>8. CoverInv BY <1>5 DEF CoverInv
  <1>9. ClosedInv BY DEF Init, ClosedInv
  <1>10. EndInv
    <2>1. frames # <<>> BY <1>3, EmptySeq
    <2>2. QED BY <2>1 DEF EndInv
  <1>11. QED BY <1>1, <1>6, <1>7, <1>8, <1>9, <1>10 DEF ReleasesInv

LEMMA ReleasesStep ==
  ASSUME ReleasesInv, [Next]_vars
  PROVE  ReleasesInv'
  <1>1. /\ HeldInv /\ CauseInv /\ ReleaseInv /\ CoverInv /\ ClosedInv /\ EndInv /\ ShapeInv
    BY DEF ReleasesInv, HeldInv
  <1>2. QED
    BY <1>1, HeldStep, CauseStep, ReleaseStep, CoverStep, ClosedStep, EndStep DEF ReleasesInv

LEMMA ReleasesHold ==
  ASSUME ReleasesInv
  PROVE  ReleasedOnce
  <1>1. /\ HeldInv /\ ShapeInv /\ FinishInv /\ ReleaseInv /\ ClosedInv /\ EndInv
    BY DEF ReleasesInv, HeldInv, ScopeInv
  <1>2. phase \in [Producer -> Phases] BY <1>1 DEF ShapeInv, TypeInv, VarInv
  <1>3. ASSUME Ended PROVE \A i, k, a : ~Acts(i, k, a)
    <2>1. Len(frames) = 0 BY <1>3, EmptySeq DEF Ended
    <2>2. QED BY <2>1 DEF Acts
  <1>4. ReleasedLatest
    <2>1. SUFFICES ASSUME NEW p \in Producer
                   PROVE  /\ releases[p] # <<>> =>
                               items[p] # NoState /\ releases[p][1] = items[p] /\ Len(releases[p]) <= 2
                          /\ Ended /\ items[p] # NoState =>
                               Len(releases[p]) = 2 \/ (releases[p] # <<>> /\ errors > 0)
      BY DEF ReleasedLatest
    <2>2. Rel(p) /\ phase[p] \in Phases BY <1>1, <1>2 DEF ReleaseInv
    <2>3. ASSUME releases[p] # <<>> \/ (Ended /\ items[p] # NoState)
          PROVE  items[p] # NoState /\ Applied(p)
      <3>1. Ended => ~Active(p) BY <1>1 DEF EndInv, Ended
      <3>2. QED BY <2>2, <2>3, <3>1 DEF Rel, Phases, Active
    <2>4. Ended => ~Second(p) BY <1>3 DEF Second
    <2>5. \A h \in {1, 2} : h <= 2 OBVIOUS
    <2>6. ASSUME releases[p] # <<>>
          PROVE  items[p] # NoState /\ releases[p][1] = items[p] /\ Len(releases[p]) <= 2
      BY <2>3, <2>5, <2>6 DEF Applied
    <2>7. ASSUME Ended, items[p] # NoState
          PROVE  Len(releases[p]) = 2 \/ (releases[p] # <<>> /\ errors > 0)
      BY <2>3, <2>4, <2>7 DEF Applied
    <2>8. QED BY <2>6, <2>7
  <1>5. AllClosed
    <2>1. Ended => \A p \in Producer : phase[p] # "closing" BY <1>1, <1>3 DEF FinishInv
    <2>2. QED BY <1>1, <2>1 DEF AllClosed, ClosedInv, EndInv, Ended
  <1>6. QED BY <1>4, <1>5 DEF ReleasedOnce

(* Release is applied at most once, to the latest state and only after an  *)
(* acquisition, and with a reason unless an error prevented it; an ended   *)
(* evaluation leaves no producer and no resource open, and a closed        *)
(* producer nothing in its scope (vm/cleanup.rs).                          *)
THEOREM ReleasesOnce == Spec => []ReleasedOnce
  <1>1. Spec => []ReleasesInv BY ReleasesInit, ReleasesStep, PTL DEF Spec
  <1>2. ReleasesInv => ReleasedOnce BY ReleasesHold
  <1>3. QED BY <1>1, <1>2, PTL

-----------------------------------------------------------------------------
(* How errors travel: what a step does to those that cleanups retain.      *)

Retains(i) == i \in 1..Depth /\ frames[i].kind = "cleanup"
Outermost(i) == Retains(i) /\ \A j \in 1..i - 1 : ~Retains(j)

\* Each is kept where it is; a cleanup that is over retained none, and a new one,
\* which stands on all the others, retains none yet.
Carried ==
  /\ UNCHANGED <<errors, stops, caught, outcome, aborting>>
  /\ Running' <=> Running
  /\ \A i : Retains(i) => \/ frames[i].error.kind = "none"
                          \/ Retains(i)' /\ frames'[i].error = frames[i].error
  /\ \A i : Retains(i)' => \/ Retains(i) /\ frames'[i].error = frames[i].error
                           \/ frames'[i].error = None /\ \A j : Retains(j)' => j <= i

\* An error arises above the cleanups up to m: it is raised, the first interruption,
\* or retained by the cleanup on top, which is over.
Arises(m, e) ==
  /\ m \in 1..Depth /\ e \in Causes /\ e.kind \in {"op", "cancel", "exit"}
  /\ \/ m = Depth /\ e = Error("op", errors + 1) /\ errors' = errors + 1 /\ stops' = stops
     \/ /\ m = Depth /\ \A i : ~Retains(i)
        /\ e = Error(e.kind, 0) /\ e.kind # "op" /\ errors' = errors /\ stops' = Append(stops, e.kind)
     \/ /\ m + 1 = Depth /\ Retains(Depth) /\ e = frames[Depth].error
        /\ errors' = errors /\ stops' = stops

\* The cleanups up to m are left.
LeftTo(m) == \A i : Retains(i)' <=> i <= m /\ Retains(i)
\* The last one retains the error too, ...
Joins(m, e) ==
  /\ LeftTo(m) /\ UNCHANGED <<caught, outcome>> /\ aborting' = Aborts(e) /\ Running'
  /\ \E n : /\ Retains(n) /\ n <= m /\ \A i : Retains(i)' => i <= n
            /\ frames'[n].error = IF frames[n].error.kind \in {"none", "exit"} THEN e
                                  ELSE Noted(frames[n].error, e)
            /\ \A i : Retains(i)' => i = n \/ frames'[i].error = frames[i].error
\* ... or a new one does, ...
Opens(m, e) ==
  /\ \A i : Retains(i)' <=> (i <= m /\ Retains(i)) \/ i = m + 1
  /\ frames'[m + 1].error = e
  /\ \A i : i <= m /\ Retains(i) => frames'[i].error = frames[i].error
  /\ UNCHANGED <<caught, outcome>> /\ aborting' = Aborts(e) /\ Running'
\* ... an attempt returns it, ...
Delivers(m, e) ==
  /\ LeftTo(m) /\ caught' = caught \cup {e} /\ UNCHANGED outcome
  /\ aborting' = Aborts(e) /\ Running'
  /\ \A i : Retains(i)' => frames'[i].error = frames[i].error
  /\ Aborts(e) => \E i : i <= m /\ Retains(i)
\* ... or the evaluation ends with it.
EndsWith(m, e) ==
  /\ \A i : i <= m => ~Retains(i)
  /\ frames' = <<>> /\ outcome' = e /\ UNCHANGED caught /\ aborting' = FALSE

Completes ==
  /\ \A i : ~Retains(i)
  /\ frames' = <<>> /\ outcome' = [None EXCEPT !.kind = "ok"]
  /\ UNCHANGED <<errors, stops, caught, aborting>> /\ Running

Interrupts ==
  /\ \A i : Retains(i)' <=> Retains(i)
  /\ \E i \in Nat, kind \in {"cancel", "exit"} :
       /\ Outermost(i) /\ stops' = Append(stops, kind)
       /\ frames'[i].error = Interrupted(frames[i], kind).error
       /\ \A j : Retains(j) => j = i \/ frames'[j].error = frames[j].error
  /\ aborting' = TRUE /\ UNCHANGED <<outcome, caught, errors>> /\ Running /\ Running'

Travels ==
  \/ Carried \/ Completes \/ Interrupts
  \/ \E m, e : Arises(m, e) /\ (Joins(m, e) \/ Opens(m, e) \/ Delivers(m, e) \/ EndsWith(m, e))

LEMMA CarriedIs ==
  ASSUME ShapeInv, frames' \in Seq(Frame), NEW n, Stands(n), Same(n),
         UNCHANGED <<errors, stops, caught, outcome, aborting>>,
         frames[n].kind = "cleanup" => frames'[n].error = frames[n].error,
         \A i \in n + 1..Depth : frames[i].kind = "cleanup" => frames[i].error.kind = "none",
         Len(frames') = n + 1 /\ frames'[n + 1].kind = "cleanup" => frames'[n + 1].error = None
  PROVE  Carried
  <1>1. Depth \in Nat /\ n \in 1..Depth /\ Len(frames') \in {n, n + 1} /\ frames \in Seq(Frame)
    BY LenProperties DEF Depth, Stands, ShapeInv, TypeInv
  <1>2. \A i \in 1..n : frames'[i].kind = frames[i].kind BY Former
  <1>3. \A i \in 1..n : frames[i].kind = "cleanup" => frames'[i].error = frames[i].error
    <2> SUFFICES ASSUME NEW i \in 1..n, frames[i].kind = "cleanup"
                 PROVE  frames'[i].error = frames[i].error
      OBVIOUS
    <2>1. i = n \/ i \in 1..n - 1 BY <1>1
    <2>2. QED BY <2>1 DEF Same
  <1>4. Running /\ Running' BY <1>1, EmptySeq DEF Running, Depth
  <1>5. ASSUME NEW i, Retains(i)
        PROVE  frames[i].error.kind = "none" \/ (Retains(i)' /\ frames'[i].error = frames[i].error)
    <2>1. i \in 1..Depth /\ frames[i].kind = "cleanup" BY <1>5 DEF Retains
    <2>2. CASE i \in 1..n
      <3>1. i \in 1..Len(frames') BY <1>1, <2>2
      <3>2. frames'[i].kind = "cleanup" /\ frames'[i].error = frames[i].error
        BY <1>2, <1>3, <2>1, <2>2
      <3>3. QED BY <3>1, <3>2 DEF Retains, Depth
    <2>3. CASE i \in n + 1..Depth BY <2>1, <2>3
    <2>4. QED BY <1>1, <2>1, <2>2, <2>3
  <1>6. ASSUME NEW i, Retains(i)'
        PROVE  \/ Retains(i) /\ frames'[i].error = frames[i].error
               \/ frames'[i].error = None /\ \A j : Retains(j)' => j <= i
    <2>1. i \in 1..Len(frames') /\ frames'[i].kind = "cleanup" BY <1>6 DEF Retains, Depth
    <2>2. CASE i \in 1..n
      <3>1. i \in 1..Depth /\ frames[i].kind = "cleanup" BY <1>1, <1>2, <2>1, <2>2
      <3>2. QED BY <1>3, <2>2, <3>1 DEF Retains
    <2>3. CASE i = n + 1 /\ Len(frames') = n + 1
      <3>1. \A j : Retains(j)' => j <= i BY <1>1, <2>3 DEF Retains, Depth
      <3>2. QED BY <2>1, <2>3, <3>1
    <2>4. QED BY <1>1, <2>1, <2>2, <2>3
  <1>7. QED BY <1>4, <1>5, <1>6 DEF Carried

LEMMA LeftIs ==
  ASSUME ShapeInv, NEW m \in 1..Depth, NEW n, Stands(n), n <= m, Len(frames') = n,
         \A i \in n + 1..m : frames[i].kind # "cleanup"
  PROVE  LeftTo(m)
  <1>1. Depth \in Nat /\ n \in 1..Depth BY LenProperties DEF Depth, Stands, ShapeInv, TypeInv
  <1>2. \A i \in 1..n : frames'[i].kind = frames[i].kind BY Former
  <1>3. ASSUME NEW i, Retains(i)' PROVE i <= m /\ Retains(i)
    <2>1. i \in 1..n /\ frames'[i].kind = "cleanup" BY <1>3 DEF Retains, Depth
    <2>2. QED BY <1>1, <1>2, <2>1 DEF Retains
  <1>4. ASSUME NEW i, i <= m, Retains(i) PROVE Retains(i)'
    <2>1. i \in 1..Depth /\ frames[i].kind = "cleanup" BY <1>4 DEF Retains
    <2>2. i \in 1..n BY <1>1, <1>4, <2>1
    <2>3. QED BY <1>2, <2>1, <2>2 DEF Retains, Depth
  <1>5. QED BY <1>3, <1>4 DEF LeftTo

LEMMA OriginArises ==
  ASSUME ShapeInv, NEW m, NEW fs, NEW error, Origin(m, fs, error)
  PROVE  Arises(m, error)
  <1>1. /\ m \in 1..Depth /\ Running /\ error \in Causes /\ error.kind \in {"op", "cancel", "exit"}
    BY OriginIs
  <1>2. CASE m = Depth /\ error = Error("op", errors + 1) /\ errors' = errors + 1 /\ stops' = stops
    BY <1>1, <1>2 DEF Arises
  <1>3. CASE /\ m = Depth /\ Cleanups(frames) = {} /\ error.kind \in {"cancel", "exit"}
             /\ error = Error(error.kind, 0) /\ errors' = errors /\ stops' = Append(stops, error.kind)
    <2>1. DOMAIN frames = 1..Depth BY <1>1, TopIs
    <2>2. \A i : ~Retains(i) BY <1>3, <2>1 DEF Retains, Cleanups
    <2>3. QED BY <1>1, <1>3, <2>2 DEF Arises
  <1>4. CASE /\ m + 1 = Depth /\ Top \in CleanupFrames /\ error = Top.error
             /\ errors' = errors /\ stops' = stops
    <2>1. Top = frames[Depth] /\ Depth \in 1..Depth /\ Top.kind = "cleanup"
      BY <1>1, <1>4, TopIs, CleanupFields
    <2>2. QED BY <1>1, <1>4, <2>1 DEF Arises, Retains
  <1>5. QED BY <1>2, <1>3, <1>4 DEF Origin

LEMMA DeferredJoins ==
  ASSUME ShapeInv, NEW m, NEW fs, NEW error, Origin(m, fs, error), Deferred(fs, error)
  PROVE  Joins(m, error)
  <1>1. PICK at : at = Checkpoint(fs, Aborts(error)) OBVIOUS
  <1>2. /\ at \in 1..m /\ Stands(at) /\ Len(frames') = at /\ Same(at)
        /\ frames[at] \in CleanupFrames /\ frames'[at] = Survives(frames[at], error)
    BY <1>1, DeferredStands
  <1>3. /\ m \in 1..Depth /\ Depth \in Nat \ {0} /\ fs \in Seq(Frame) /\ Len(fs) = m
        /\ DOMAIN fs = 1..m /\ \A i \in 1..m : fs[i] = frames[i]
        /\ error \in Causes /\ error.kind \in {"op", "cancel", "exit"} /\ Aborts(error) \in BOOLEAN
    BY OriginIs
  <1>4. \A i \in Cleanups(fs) : i <= at BY <1>1, <1>3, CheckpointIs
  <1>5. \A i \in at + 1..m : frames[i].kind # "cleanup"
    <2> SUFFICES ASSUME NEW i \in at + 1..m, frames[i].kind = "cleanup" PROVE FALSE OBVIOUS
    <2>1. i \in 1..m /\ ~(i <= at) BY <1>2, <1>3
    <2>2. i \in Cleanups(fs) BY <1>3, <2>1 DEF Cleanups
    <2>3. QED BY <1>4, <2>1, <2>2
  <1>6. at <= m BY <1>2, <1>3
  <1>7. LeftTo(m) BY <1>2, <1>3, <1>5, <1>6, LeftIs
  <1>8. Retains(at) /\ frames'[at].error = IF frames[at].error.kind \in {"none", "exit"} THEN error
                                          ELSE Noted(frames[at].error, error)
    <2>1. frames[at].kind = "cleanup" /\ at \in 1..Depth BY <1>2, <1>3, CleanupFields
    <2>2. QED BY <1>2, <1>3, <2>1, SurvivesIs DEF Retains
  <1>9. \A i : Retains(i)' => i <= at /\ (i = at \/ frames'[i].error = frames[i].error)
    <2> SUFFICES ASSUME NEW i, Retains(i)'
                 PROVE  i <= at /\ (i = at \/ frames'[i].error = frames[i].error)
      OBVIOUS
    <2>1. i \in 1..at BY <1>2 DEF Retains, Depth
    <2>2. i = at \/ i \in 1..at - 1 BY <1>2, <1>3, <2>1
    <2>3. QED BY <1>2, <1>3, <2>1, <2>2 DEF Same
  <1>10. Running' BY <1>2, <1>3, EmptySeq DEF Running
  <1>11. UNCHANGED <<caught, outcome>> /\ aborting' = Aborts(error) BY DEF Deferred
  <1>12. QED BY <1>6, <1>7, <1>8, <1>9, <1>10, <1>11 DEF Joins

LEMMA UnwoundOpens ==
  ASSUME ShapeInv, NEW m, NEW fs, NEW error, Origin(m, fs, error), Unwound(fs, error)
  PROVE  Opens(m, error)
  <1>1. /\ Stands(m) /\ Len(frames') = m + 1
        /\ \A i \in 1..m : frames'[i] = frames[i]
        /\ frames'[m + 1] \in CleanupFrames /\ frames'[m + 1].error = error
    BY UnwoundStands
  <1>2. m \in 1..Depth /\ Depth \in Nat BY OriginIs
  <1>3. frames'[m + 1].kind = "cleanup" BY <1>1, CleanupFields
  <1>4. \A i : Retains(i)' <=> (i <= m /\ Retains(i)) \/ i = m + 1
    <2> SUFFICES ASSUME NEW i
                 PROVE  Retains(i)' <=> (i <= m /\ Retains(i)) \/ i = m + 1
      OBVIOUS
    <2>1. Retains(i)' <=> i \in 1..m + 1 /\ frames'[i].kind = "cleanup"
      BY <1>1 DEF Retains, Depth
    <2>2. Retains(i) <=> i \in 1..Depth /\ frames[i].kind = "cleanup" BY DEF Retains
    <2>3. m + 1 \in 1..m + 1 BY <1>2
    <2>4. CASE i = m + 1 BY <1>3, <2>1, <2>3, <2>4
    <2>5. CASE i # m + 1
      <3>1. i \in 1..m + 1 <=> i \in 1..m BY <1>2, <2>5
      <3>2. i \in 1..Depth /\ i <= m <=> i \in 1..m BY <1>2
      <3>3. QED BY <1>1, <2>1, <2>2, <2>5, <3>1, <3>2
    <2>6. QED BY <2>4, <2>5
  <1>5. \A i : i <= m /\ Retains(i) => frames'[i].error = frames[i].error
    BY <1>1, <1>2 DEF Retains
  <1>6. Running' BY <1>1, <1>2, EmptySeq DEF Running
  <1>7. UNCHANGED <<caught, outcome>> /\ aborting' = Aborts(error) BY DEF Unwound
  <1>8. QED BY <1>1, <1>4, <1>5, <1>6, <1>7 DEF Opens

LEMMA ReturnedDelivers ==
  ASSUME ShapeInv, NEW m, NEW fs, NEW error, Origin(m, fs, error), Returned(fs, error)
  PROVE  Delivers(m, error)
  <1>1. PICK at : at = Checkpoint(fs, Aborts(error)) OBVIOUS
  <1>2. PICK n : n = at - 1 OBVIOUS
  <1>3. /\ at \in 2..m /\ IsAttempt(frames[at])
        /\ Stands(n) /\ Len(frames') = n /\ Same(n) /\ frames'[n] = frames[n]
    BY <1>1, <1>2, ReturnedStands
  <1>4. /\ m \in 1..Depth /\ Depth \in Nat \ {0} /\ fs \in Seq(Frame) /\ Len(fs) = m
        /\ DOMAIN fs = 1..m /\ \A i \in 1..m : fs[i] = frames[i]
        /\ Aborts(error) \in BOOLEAN
    BY OriginIs
  <1>5. /\ \A i \in Cleanups(fs) : i <= at
        /\ Aborts(error) /\ Cleanups(fs) = {} => at = 0
    BY <1>1, <1>4, CheckpointIs
  <1>6. n \in 1..m /\ n <= m /\ at = n + 1 /\ n \in Nat BY <1>2, <1>3, <1>4
  <1>7. \A i \in n + 1..m : frames[i].kind # "cleanup"
    <2> SUFFICES ASSUME NEW i \in n + 1..m, frames[i].kind = "cleanup" PROVE FALSE OBVIOUS
    <2>1. i \in 1..m /\ i >= at BY <1>4, <1>6
    <2>2. i \in Cleanups(fs) BY <1>4, <2>1 DEF Cleanups
    <2>3. i = at BY <1>3, <1>4, <1>5, <2>1, <2>2
    <2>4. QED BY <1>3, <2>3 DEF IsAttempt
  <1>8. LeftTo(m) BY <1>3, <1>4, <1>6, <1>7, LeftIs
  <1>9. \A i : Retains(i)' => frames'[i].error = frames[i].error
    <2> SUFFICES ASSUME NEW i, Retains(i)' PROVE frames'[i].error = frames[i].error OBVIOUS
    <2>1. i \in 1..n BY <1>3 DEF Retains, Depth
    <2>2. i = n \/ i \in 1..n - 1 BY <1>6, <2>1
    <2>3. QED BY <1>3, <2>2 DEF Same
  <1>10. ASSUME Aborts(error) PROVE \E i : i <= m /\ Retains(i)
    <2>1. Cleanups(fs) # {} BY <1>3, <1>5, <1>10
    <2>2. PICK i \in 1..m : fs[i].kind = "cleanup" BY <1>4, <2>1 DEF Cleanups
    <2>3. i \in 1..Depth /\ i <= m /\ frames[i].kind = "cleanup" BY <1>4, <2>2
    <2>4. QED BY <2>3 DEF Retains
  <1>11. Running' BY <1>3, <1>6, EmptySeq DEF Running
  <1>12. /\ caught' = caught \cup {error} /\ UNCHANGED outcome /\ aborting' = Aborts(error)
    BY DEF Returned
  <1>13. QED BY <1>8, <1>9, <1>10, <1>11, <1>12 DEF Delivers

LEMMA GivenUpEnds ==
  ASSUME ShapeInv, NEW m, NEW fs, NEW error, Origin(m, fs, error), GivenUp(fs, error)
  PROVE  EndsWith(m, error)
  <1>1. /\ m \in 1..Depth /\ Depth \in Nat \ {0} /\ fs \in Seq(Frame) /\ Len(fs) = m
        /\ DOMAIN fs = 1..m /\ \A i \in 1..m : fs[i] = frames[i]
        /\ Aborts(error) \in BOOLEAN
    BY OriginIs
  <1>2. Checkpoint(fs, Aborts(error)) = 0 BY DEF GivenUp
  <1>3. \A i \in Cleanups(fs) : i <= 0
    <2>1. \A i \in Cleanups(fs) : i <= Checkpoint(fs, Aborts(error)) BY <1>1, CheckpointIs
    <2>2. QED BY <1>2, <2>1
  <1>4. ASSUME NEW i, i <= m, Retains(i) PROVE FALSE
    <2>1. i \in 1..m /\ frames[i].kind = "cleanup" BY <1>1, <1>4 DEF Retains
    <2>2. i \in Cleanups(fs) BY <1>1, <2>1 DEF Cleanups
    <2>3. QED BY <1>1, <1>3, <2>1, <2>2
  <1>5. QED BY <1>4 DEF EndsWith, GivenUp

LEMMA InterruptingIs ==
  ASSUME ShapeInv, Interrupting, frames' \in Seq(Frame)
  PROVE  Interrupts
  <1>1. /\ Running /\ Stands(Depth) /\ Len(frames') = Depth
    BY InterruptingStands
  <1>2. PICK i \in Cleanups(frames), kind \in {"cancel", "exit"} :
          /\ \A j \in Cleanups(frames) : i <= j
          /\ frames' = [frames EXCEPT ![i] = Interrupted(frames[i], kind)]
          /\ stops' = Append(stops, kind)
    BY DEF Interrupting
  <1>3. DOMAIN frames = 1..Depth /\ Depth \in Nat \ {0} BY <1>1, TopIs
  <1>4. \A j \in 1..Depth : frames'[j].kind = frames[j].kind BY <1>1, Former
  <1>5. \A j : Retains(j)' <=> Retains(j) BY <1>1, <1>4 DEF Retains, Depth
  <1>6. \A j : Retains(j) <=> j \in Cleanups(frames) BY <1>3 DEF Retains, Cleanups
  <1>7. i \in 1..Depth /\ i \in Nat BY <1>2, <1>6 DEF Retains
  <1>8. Outermost(i)
    <2>1. \A j \in 1..i - 1 : ~(i <= j) BY <1>3, <1>7
    <2>2. QED BY <1>2, <1>6, <2>1 DEF Outermost
  <1>9. frames'[i].error = Interrupted(frames[i], kind).error BY <1>2, <1>3, <1>7
  <1>10. \A j : Retains(j) => j = i \/ frames'[j].error = frames[j].error
    BY <1>2, <1>3 DEF Retains
  <1>11. Running' BY <1>1, <1>3, EmptySeq DEF Running
  <1>12. aborting' = TRUE /\ UNCHANGED <<outcome, caught, errors>> BY DEF Interrupting
  <1>13. QED BY <1>1, <1>2, <1>5, <1>7, <1>8, <1>9, <1>10, <1>11, <1>12 DEF Interrupts

LEMMA EndingCompletes ==
  ASSUME ShapeInv, Ending
  PROVE  Completes
  <1>1. Running /\ Top.kind = "body" /\ Top.job = "ended" BY DEF Ending
  <1>2. /\ Depth \in Nat \ {0} /\ Top = frames[Depth]
        /\ Depth > 1 => Above(Caller, Top)
    BY <1>1, TopIs
  <1>3. Depth = 1 BY <1>1, <1>2 DEF Above
  <1>4. \A i : ~Retains(i) BY <1>1, <1>2, <1>3 DEF Retains
  <1>5. QED BY <1>1, <1>4 DEF Completes, Ending

\* What is known of every kind of step, in one place.
LEMMA TravelStep ==
  ASSUME ShapeInv, [Next]_vars
  PROVE  Travels
  <1>1. Kinds /\ frames' \in Seq(Frame) BY StepIs
  <1>2. errors' \in 0..MaxTroubles BY Counted
  <1>3. Depth \in Nat BY LenProperties DEF Depth, ShapeInv, TypeInv
  <1>4. CASE Produce \/ Open \/ UNCHANGED vars
    <2>1. frames' = frames /\ UNCHANGED <<errors, stops, caught, outcome, aborting>>
      BY <1>4 DEF Produce, Open, vars, ending
    <2>2. \A i : Retains(i)' <=> Retains(i) BY <2>1 DEF Retains, Depth
    <2>3. Running' <=> Running BY <2>1 DEF Running
    <2>4. Carried BY <2>1, <2>2, <2>3 DEF Carried
    <2>5. QED BY <2>4 DEF Travels
  <1>5. ASSUME NEW n, Stands(n), Same(n), UNCHANGED <<errors, stops, caught, outcome, aborting>>,
               frames[n].kind = "cleanup" => frames'[n].error = frames[n].error,
               \A i \in n + 1..Depth : frames[i].kind = "cleanup" => frames[i].error.kind = "none",
               Len(frames') = n + 1 /\ frames'[n + 1].kind = "cleanup" => frames'[n + 1].error = None
        PROVE  Travels
    BY <1>1, <1>5, CarriedIs DEF Travels
  <1>6. ASSUME Stands(Depth), Same(Depth), UNCHANGED <<errors, stops, caught, outcome, aborting>>,
               frames[Depth].kind = "cleanup" => frames'[Depth].error = frames[Depth].error,
               Len(frames') = Depth + 1 /\ frames'[Depth + 1].kind = "cleanup" =>
                 frames'[Depth + 1].error = None
        PROVE  Travels
    <2>1. \A i \in Depth + 1..Depth : FALSE BY <1>3
    <2>2. QED BY <1>5, <1>6, <2>1
  <1>7. CASE Minor
    <2>1. PICK n \in Nat : /\ Stands(n) /\ Len(frames') = n /\ Same(n)
                           /\ Alike(frames[n], frames'[n])
                           /\ \A i \in n + 1..Depth : frames[i].kind = "cleanup" =>
                                frames[i].error.kind = "none"
      BY <1>1, <1>7, MinorStands
    <2>2. frames[n].kind = "cleanup" => frames'[n].error = frames[n].error BY <2>1 DEF Alike
    <2>3. Len(frames') # n + 1 BY <2>1
    <2>4. UNCHANGED <<errors, stops, caught, outcome, aborting>> BY <1>7 DEF Minor, Still, ending
    <2>5. QED BY <1>5, <2>1, <2>2, <2>3, <2>4
  <1>8. CASE Calling
    <2>1. /\ Running /\ Stands(Depth) /\ Len(frames') = Depth + 1 /\ Same(Depth)
          /\ frames'[Depth + 1] \in Bodies
      BY <1>1, <1>8, CallingStands
    <2>2. frames[Depth].kind # "cleanup" BY <1>8, <2>1, TopIs DEF Calling
    <2>3. frames'[Depth + 1].kind # "cleanup" BY <2>1, BodyFields
    <2>4. UNCHANGED <<errors, stops, caught, outcome, aborting>> BY <1>8 DEF Calling, Still, ending
    <2>5. QED BY <1>6, <2>1, <2>2, <2>3, <2>4
  <1>9. CASE Shutting
    <2>1. /\ Running /\ Stands(Depth) /\ Len(frames') = Depth + 1 /\ Same(Depth)
          /\ Top.kind # "cleanup" /\ frames'[Depth + 1].error = None
      BY <1>1, <1>9, ShuttingStands
    <2>2. frames[Depth].kind # "cleanup" BY <2>1, TopIs
    <2>3. UNCHANGED <<errors, stops, caught, outcome, aborting>> BY <1>9 DEF Shutting
    <2>4. QED BY <1>6, <2>1, <2>2, <2>3
  <1>10. CASE Consuming
    <2>1. /\ Running /\ Stands(Depth) /\ Len(frames') = Depth + 1 /\ Same(Depth)
          /\ Top.kind = "body" /\ frames'[Depth + 1] \in TaskFrames
      BY <1>1, <1>10, ConsumingStands
    <2>2. frames[Depth].kind # "cleanup" /\ frames'[Depth + 1].kind # "cleanup"
      BY <2>1, TopIs, TaskFields
    <2>3. UNCHANGED <<errors, stops, caught, outcome, aborting>> BY <1>10 DEF Consuming, ending
    <2>4. QED BY <1>6, <2>1, <2>2, <2>3
  <1>11. CASE Entering
    <2>1. /\ Running /\ Stands(Depth) /\ Len(frames') = Depth + 1 /\ Same(Depth)
          /\ frames'[Depth + 1] \in Bodies
      BY <1>1, <1>11, EnteringStands
    <2>2. Top.kind = "task" BY <1>11, TaskFields DEF Entering
    <2>3. frames[Depth].kind # "cleanup" /\ frames'[Depth + 1].kind # "cleanup"
      BY <2>1, <2>2, TopIs, BodyFields
    <2>4. UNCHANGED <<errors, stops, caught, outcome, aborting>> BY <1>11 DEF Entering, ending
    <2>5. QED BY <1>6, <2>1, <2>3, <2>4
  <1>12. CASE Answering
    <2>1. PICK m : m = Depth - 1 OBVIOUS
    <2>2. /\ Running /\ Depth > 1 /\ Stands(m) /\ Same(m) /\ Caller = frames[m]
          /\ \/ Len(frames') = m
             \/ Len(frames') = Depth /\ frames'[Depth] \in Bodies
             \/ Len(frames') = Depth /\ frames'[Depth].error = None
      BY <1>1, <1>12, <2>1, AnsweringStands
    <2>3. Caller \in TaskFrames /\ Top \in Bodies BY <1>12 DEF Answering
    <2>4. frames[m].kind # "cleanup" BY <2>2, <2>3, TaskFields
    <2>5. m + 1 = Depth /\ m # Depth /\ m \in Nat BY <1>3, <2>1, <2>2
    <2>6. Len(frames') = m + 1 /\ frames'[m + 1].kind = "cleanup" => frames'[m + 1].error = None
      BY <2>2, <2>5, BodyFields
    <2>7. \A i \in m + 1..Depth : frames[i].kind # "cleanup"
      <3>1. Top = frames[Depth] BY <2>2, TopIs
      <3>2. \A i \in m + 1..Depth : i = Depth BY <2>5
      <3>3. QED BY <2>3, <3>1, <3>2, BodyFields
    <2>8. UNCHANGED <<errors, stops, caught, outcome, aborting>> BY <1>12 DEF Answering, ending
    <2>9. QED BY <1>5, <2>2, <2>4, <2>6, <2>7, <2>8
  <1>13. CASE Joining
    <2>1. PICK m : m = Depth - 1 OBVIOUS
    <2>2. /\ Running /\ Depth > 1 /\ Stands(m) /\ Len(frames') = m /\ Same(m)
          /\ Caller = frames[m] /\ Caller \in TaskFrames
      BY <1>1, <1>13, <2>1, JoiningStands, EmptySeq DEF Joining, Running, Depth
    <2>3. frames[m].kind # "cleanup" BY <2>2, TaskFields
    <2>4. m + 1 = Depth /\ m \in Nat /\ Len(frames') # m + 1 BY <1>3, <2>1, <2>2
    <2>5. \A i \in m + 1..Depth : frames[i].kind # "cleanup"
      <3>1. Top = frames[Depth] BY <2>2, TopIs
      <3>2. \A i \in m + 1..Depth : i = Depth BY <2>4
      <3>3. Top \in Bodies BY <1>13 DEF Joining
      <3>4. QED BY <3>1, <3>2, <3>3, BodyFields
    <2>6. UNCHANGED <<errors, stops, caught, outcome, aborting>> BY <1>13 DEF Joining, ending
    <2>7. QED BY <1>5, <2>2, <2>3, <2>4, <2>5, <2>6
  <1>14. ASSUME Running, Stands(Depth), Same(Depth),
                Len(frames') = Depth \/ frames'[Depth + 1] \in Bodies,
                frames'[Depth].error = Top.error,
                UNCHANGED <<errors, stops, caught, outcome, aborting>>
         PROVE  Travels
    <2>1. Top = frames[Depth] BY <1>14, TopIs
    <2>2. Len(frames') = Depth + 1 => frames'[Depth + 1].kind # "cleanup"
      BY <1>3, <1>14, BodyFields
    <2>3. QED BY <1>6, <1>14, <2>1, <2>2
  <1>15. CASE Beginning
    BY <1>1, <1>14, <1>15, BeginningStands DEF Continues, Beginning, ending
  <1>16. CASE Reasoning
    BY <1>1, <1>14, <1>16, ReasoningStands DEF Continues, Reasoning, ending
  <1>17. CASE Scoping
    BY <1>1, <1>14, <1>17, ScopingStands DEF Continues, Scoping, Still, ending
  <1>18. CASE Finishing
    BY <1>1, <1>14, <1>18, FinishingStands DEF Continues, Finishing, ending
  <1>19. CASE Passing
    <2>1. /\ Running /\ Stands(Depth) /\ Len(frames') = Depth /\ Same(Depth)
          /\ Top \in CleanupFrames
          /\ \/ frames'[Depth].error = Top.error /\ UNCHANGED <<aborting, errors>>
             \/ /\ errors' = errors + 1
                /\ frames'[Depth].error =
                     IF Top.error.kind \in {"none", "exit"} THEN Error("op", errors + 1)
                     ELSE Noted(Top.error, Error("op", errors + 1))
      BY <1>1, <1>2, <1>19, PassingStands
    <2>2. UNCHANGED <<caught, outcome, stops>> BY <1>19 DEF Passing
    <2>3. CASE frames'[Depth].error = Top.error /\ UNCHANGED <<aborting, errors>>
      BY <1>14, <2>1, <2>2, <2>3
    <2>4. ASSUME errors' = errors + 1,
                 frames'[Depth].error =
                   IF Top.error.kind \in {"none", "exit"} THEN Error("op", errors + 1)
                   ELSE Noted(Top.error, Error("op", errors + 1))
          PROVE  Travels
      <3> DEFINE e == Error("op", errors + 1)
      <3>1. e \in Causes /\ e.kind = "op"
        <4>1. errors + 1 \in 0..MaxTroubles BY <1>2, <2>4
        <4>2. QED BY <4>1, ErrorIs DEF Causes
      <3>2. Depth \in 1..Depth /\ Top = frames[Depth] /\ Top.kind = "cleanup"
        BY <2>1, TopIs, CleanupFields
      <3>3. aborting' = Aborts(e)
        <4>1. aborting \in BOOLEAN BY DEF ShapeInv, TypeInv, VarInv
        <4>2. aborting' = aborting \/ aborting' = Aborts(e) BY <1>19 DEF Passing
        <4>3. Aborts(e) = aborting BY <3>1, <4>1 DEF Aborts
        <4>4. QED BY <4>2, <4>3
      <3>4. Arises(Depth, e) BY <2>2, <2>4, <3>1, <3>2 DEF Arises
      <3> HIDE DEF e
      <3>5. \A i \in Depth + 1..Depth : FALSE BY <1>3
      <3>6. Depth <= Depth BY <1>3
      <3>7. LeftTo(Depth) BY <2>1, <3>2, <3>5, <3>6, LeftIs
      <3>8. \A i : Retains(i)' => i <= Depth /\ (i = Depth \/ frames'[i].error = frames[i].error)
        <4> SUFFICES ASSUME NEW i, Retains(i)'
                     PROVE  i <= Depth /\ (i = Depth \/ frames'[i].error = frames[i].error)
          OBVIOUS
        <4>1. i \in 1..Depth BY <2>1 DEF Retains, Depth
        <4>2. i = Depth \/ i \in 1..Depth - 1 BY <1>3, <4>1
        <4>3. QED BY <1>3, <2>1, <4>1, <4>2 DEF Same
      <3>9. Retains(Depth) BY <3>2 DEF Retains
      <3>10. frames'[Depth].error = IF frames[Depth].error.kind \in {"none", "exit"} THEN e
                                    ELSE Noted(frames[Depth].error, e)
        BY <2>4, <3>2 DEF e
      <3>11. Running' BY <1>3, <2>1, <3>2, EmptySeq DEF Running
      <3>12. Joins(Depth, e) BY <2>2, <3>3, <3>6, <3>7, <3>8, <3>9, <3>10, <3>11 DEF Joins
      <3>13. QED BY <3>4, <3>12 DEF Travels
    <2>5. QED BY <2>1, <2>3, <2>4
  <1>20. CASE Failed
    <2>1. Deferring \/ Unwinding \/ Returning \/ Quitting BY <1>20, FailedKinds
    <2>2. PICK m, error, fs :
            /\ Origin(m, fs, error)
            /\ Deferred(fs, error) \/ Unwound(fs, error) \/ Returned(fs, error) \/ GivenUp(fs, error)
      BY <2>1 DEF Deferring, Unwinding, Returning, Quitting
    <2>3. Arises(m, error) BY <2>2, OriginArises
    <2>4. Joins(m, error) \/ Opens(m, error) \/ Delivers(m, error) \/ EndsWith(m, error)
      BY <2>2, DeferredJoins, UnwoundOpens, ReturnedDelivers, GivenUpEnds
    <2>5. QED BY <2>3, <2>4 DEF Travels
  <1>21. CASE Interrupting BY <1>1, <1>21, InterruptingIs DEF Travels
  <1>22. CASE Ending BY <1>22, EndingCompletes DEF Travels
  <1>23. QED
    BY <1>1, <1>4, <1>7, <1>8, <1>9, <1>10, <1>11, <1>12, <1>13, <1>15, <1>16, <1>17, <1>18, <1>19,
       <1>20, <1>21, <1>22 DEF Kinds

-----------------------------------------------------------------------------
(* Cancellation.                                                           *)

\* While the machine is aborting its outermost cleanup retains why; once it was
\* interrupted it aborts, and what it retains stays a cancellation.
StopInv ==
  /\ aborting => \E i : Outermost(i) /\ frames[i].error.kind # "none"
  /\ Running /\ stops # <<>> => aborting
  /\ Running /\ "cancel" \in Range(stops) =>
       \A i : Outermost(i) => frames[i].error.kind = "cancel"
  /\ CancellationKept

LEMMA AppendRange ==
  ASSUME NEW S, NEW s \in Seq(S), NEW x \in S
  PROVE  /\ Append(s, x) # <<>>
         /\ \A y : y \in Range(Append(s, x)) => y \in Range(s) \/ y = x
         /\ s = <<>> => \A y : y \notin Range(s)
  <1>1. PICK n \in Nat : n = Len(s) /\ DOMAIN s = 1..n BY LenProperties
  <1>2. /\ Append(s, x) \in Seq(S) /\ Len(Append(s, x)) = n + 1
        /\ \A i \in 1..n : Append(s, x)[i] = s[i]
        /\ Append(s, x)[n + 1] = x
    BY <1>1, AppendProperties
  <1>3. DOMAIN Append(s, x) = 1..n + 1 BY <1>1, <1>2, LenProperties
  <1>4. ASSUME NEW y, y \in Range(Append(s, x)) PROVE y \in Range(s) \/ y = x
    <2>1. PICK i \in 1..n + 1 : Append(s, x)[i] = y BY <1>3, <1>4 DEF Range
    <2>2. i = n + 1 \/ i \in 1..n BY <1>1, <2>1
    <2>3. QED BY <1>1, <1>2, <2>1, <2>2 DEF Range
  <1>5. Append(s, x) # <<>> BY <1>1, <1>2, EmptySeq
  <1>6. s = <<>> => \A y : y \notin Range(s)
    <2>1. s = <<>> => DOMAIN s = {} BY <1>1, EmptySeq
    <2>2. QED BY <2>1 DEF Range
  <1>7. QED BY <1>4, <1>5, <1>6

LEMMA OutermostIs ==
  ASSUME ShapeInv
  PROVE  /\ \A i, j : Outermost(i) /\ Retains(j) => i <= j
         /\ \A j : Retains(j) => \E i : Outermost(i)
         /\ Depth \in Nat
  <1>1. Depth \in Nat BY LenProperties DEF Depth, ShapeInv, TypeInv
  <1>2. ASSUME NEW i, NEW j, Outermost(i), Retains(j) PROVE i <= j
    <2>1. i \in 1..Depth /\ j \in 1..Depth BY <1>2 DEF Outermost, Retains
    <2>2. ~(j \in 1..i - 1) BY <1>2 DEF Outermost
    <2>3. QED BY <1>1, <2>1, <2>2
  <1>3. ASSUME NEW j, Retains(j) PROVE \E i : Outermost(i)
    <2> DEFINE P == {k \in 1..Depth : Retains(k)}
    <2>1. j \in P /\ P \subseteq Nat /\ P # {} BY <1>3 DEF Retains
    <2>2. PICK i \in P : \A k \in P : i <= k
      <3> HIDE DEF P
      <3>1. QED BY <2>1, LeastNumber
    <2>3. \A k \in 1..i - 1 : k \in 1..Depth /\ ~(i <= k) BY <1>1, <2>2
    <2>4. Outermost(i) BY <2>2, <2>3 DEF Outermost
    <2>5. QED BY <2>4
  <1>4. QED BY <1>1, <1>2, <1>3

LEMMA LeftOutermost ==
  ASSUME NEW m \in Int, LeftTo(m)
  PROVE  \A i : Outermost(i)' <=> i <= m /\ Outermost(i)
  <1> SUFFICES ASSUME NEW i, Retains(i), i <= m, i \in Int
               PROVE  \A j \in 1..i - 1 : Retains(j)' <=> Retains(j)
    BY DEF Outermost, LeftTo, Retains
  <1>1. \A j \in 1..i - 1 : j <= m OBVIOUS
  <1>2. QED BY <1>1 DEF LeftTo

LEMMA StopArises ==
  ASSUME ShapeInv, CauseInv, StopInv, NEW m, NEW e, Arises(m, e)
  PROVE  /\ e.kind # "op" => \A i : i <= m => ~Retains(i)
         /\ Aborts(e) /\ (\E i : i <= m /\ Retains(i)) =>
              \E i : i <= m /\ Outermost(i) /\ frames[i].error.kind # "none"
         /\ stops' # <<>> => Aborts(e)
         /\ "cancel" \in Range(stops') =>
              /\ \A i : i <= m /\ Outermost(i) => frames[i].error.kind = "cancel"
              /\ (\A i : i <= m => ~Retains(i)) => e.kind = "cancel"
  <1>1. /\ m \in 1..Depth /\ Depth \in Nat /\ e.kind \in {"op", "cancel", "exit"}
        /\ frames \in Seq(Frame)
    BY OutermostIs DEF Arises, ShapeInv, TypeInv
  <1>2. Running BY <1>1, EmptySeq DEF Running, Depth
  <1>3. aborting \in BOOLEAN /\ stops \in Seq({"cancel", "exit"}) BY DEF ShapeInv, TypeInv, VarInv
  <1>4. /\ aborting => \E i : Outermost(i) /\ frames[i].error.kind # "none"
        /\ stops # <<>> => aborting
        /\ "cancel" \in Range(stops) => \A i : Outermost(i) => frames[i].error.kind = "cancel"
    BY <1>2 DEF StopInv
  <1>5. stops = <<>> => "cancel" \notin Range(stops)
    <2>1. "exit" \in {"cancel", "exit"} OBVIOUS
    <2>2. QED BY <1>3, <2>1, AppendRange
  <1>6. CASE m = Depth /\ e = Error("op", errors + 1) /\ stops' = stops
    <2>1. e.kind = "op" BY <1>6 DEF Error
    <2>2. \A i : Retains(i) => i <= m BY <1>1, <1>6 DEF Retains
    <2>3. \A i : Outermost(i) => Retains(i) BY DEF Outermost
    <2>4. Aborts(e) <=> aborting BY <2>1 DEF Aborts
    <2>5. QED BY <1>4, <1>5, <1>6, <2>1, <2>2, <2>3, <2>4
  <1>7. CASE /\ m = Depth /\ \A i : ~Retains(i)
             /\ e.kind # "op" /\ stops' = Append(stops, e.kind)
    <2>1. \A i : ~Outermost(i) BY <1>7 DEF Outermost
    <2>2. stops = <<>> BY <1>4, <2>1
    <2>3. e.kind \in {"cancel", "exit"} BY <1>1, <1>7
    <2>4. "cancel" \in Range(stops') => e.kind = "cancel"
      <3>1. \A y : y \in Range(Append(stops, e.kind)) => y \in Range(stops) \/ y = e.kind
        BY <1>3, <2>3, AppendRange
      <3>2. QED BY <1>5, <1>7, <2>2, <3>1
    <2>5. Aborts(e) BY <1>7 DEF Aborts
    <2>6. QED BY <1>7, <2>1, <2>4, <2>5
  <1>8. CASE m + 1 = Depth /\ Retains(Depth) /\ e = frames[Depth].error /\ stops' = stops
    <2>1. \A i : Retains(i) => i <= m \/ i = Depth BY <1>1, <1>8 DEF Retains
    <2>2. ASSUME e.kind # "op", NEW i, i <= m, Retains(i) PROVE FALSE
      <3>1. i \in 1..Depth - 1 /\ Depth \in 1..Depth /\ frames[i].kind = "cleanup"
            /\ frames[Depth].kind = "cleanup"
        BY <1>1, <1>8, <2>2 DEF Retains
      <3>2. Caused(Depth) BY <3>1 DEF CauseInv
      <3>3. QED BY <1>1, <1>8, <2>2, <3>1, <3>2 DEF Caused
    <2>3. ASSUME Aborts(e), NEW i, i <= m, Retains(i)
          PROVE  \E j : j <= m /\ Outermost(j) /\ frames[j].error.kind # "none"
      <3>1. e.kind = "op" BY <2>2, <2>3
      <3>2. aborting BY <2>3, <3>1 DEF Aborts
      <3>3. PICK j : Outermost(j) /\ frames[j].error.kind # "none" BY <1>4, <3>2
      <3>4. j <= i /\ Retains(j) BY <2>3, <3>3, OutermostIs DEF Outermost
      <3>5. j <= m BY <1>1, <2>3, <3>4 DEF Retains
      <3>6. QED BY <3>3, <3>5
    <2>4. ASSUME "cancel" \in Range(stops), \A i : i <= m => ~Retains(i)
          PROVE  e.kind = "cancel"
      <3>1. \A j \in 1..Depth - 1 : j <= m BY <1>1, <1>8
      <3>2. Outermost(Depth) BY <1>8, <2>4, <3>1 DEF Outermost
      <3>3. QED BY <1>4, <1>8, <2>4, <3>2
    <2>5. stops # <<>> => Aborts(e) BY <1>4 DEF Aborts
    <2>6. QED BY <1>4, <1>8, <2>2, <2>3, <2>4, <2>5
  <1>9. QED BY <1>6, <1>7, <1>8 DEF Arises

LEMMA RetainedIs ==
  ASSUME ShapeInv, NEW i, Retains(i)
  PROVE  /\ i \in 1..Depth /\ i \in Nat /\ frames[i] \in CleanupFrames
         /\ frames[i].error \in Causes /\ frames[i].error \in Errors
  <1>1. i \in 1..Depth /\ frames[i].kind = "cleanup" BY DEF Retains
  <1>2. frames[i] \in Frame BY <1>1, ElementOfSeq DEF Depth, ShapeInv, TypeInv
  <1>3. frames[i] \in CleanupFrames BY <1>1, <1>2, FrameKinds
  <1>4. QED BY <1>1, <1>3, CleanupFields DEF Causes

\* What a cleanup retains after it has met e.
LEMMA JoinedIs ==
  ASSUME NEW f \in Causes, NEW e \in Causes, NEW g, e.kind # "none",
         g = IF f.kind \in {"none", "exit"} THEN e ELSE Noted(f, e)
  PROVE  /\ g.kind = IF f.kind \in {"none", "exit"} THEN e.kind ELSE f.kind
         /\ g.kind # "none"
         /\ g.id = IF f.kind \in {"none", "exit"} THEN e.id ELSE f.id
         /\ g.notes = IF f.kind \in {"none", "exit"} THEN e.notes
                      ELSE f.notes \cup {e.id} \cup e.notes
  <1>1. f \in Errors /\ e \in Errors BY DEF Causes
  <1>2. Noted(f, e).kind = f.kind /\ Noted(f, e).id = f.id BY <1>1, NotedIs
  <1>3. Noted(f, e).notes = f.notes \cup {e.id} \cup e.notes BY <1>1 DEF Noted, Errors
  <1>4. QED BY <1>2, <1>3

LEMMA StopStep ==
  ASSUME ShapeInv, CauseInv, StopInv, [Next]_vars
  PROVE  StopInv'
  <1>1. Travels BY TravelStep
  <1>2. aborting \in BOOLEAN /\ stops \in Seq({"cancel", "exit"}) BY DEF ShapeInv, TypeInv, VarInv
  <1>3. /\ aborting => \E i : Outermost(i) /\ frames[i].error.kind # "none"
        /\ Running /\ stops # <<>> => aborting
        /\ Running /\ "cancel" \in Range(stops) => \A i : Outermost(i) => frames[i].error.kind = "cancel"
        /\ CancellationKept
    BY DEF StopInv
  <1>4. stops = <<>> => "cancel" \notin Range(stops)
    <2>1. "exit" \in {"cancel", "exit"} OBVIOUS
    <2>2. QED BY <1>2, <2>1, AppendRange
  <1>5. Running' => CancellationKept' BY DEF CancellationKept, Ended, Running
  <1>6. CASE Carried
    <2>1. /\ UNCHANGED <<errors, stops, caught, outcome, aborting>>
          /\ Running' <=> Running
          /\ \A i : Retains(i) => \/ frames[i].error.kind = "none"
                                  \/ Retains(i)' /\ frames'[i].error = frames[i].error
          /\ \A i : Retains(i)' => \/ Retains(i) /\ frames'[i].error = frames[i].error
                                   \/ frames'[i].error = None /\ \A j : Retains(j)' => j <= i
      BY <1>6 DEF Carried
    <2>2. ASSUME NEW i, Outermost(i), frames[i].error.kind # "none"
          PROVE  Outermost(i)' /\ frames'[i].error = frames[i].error
      <3>1. Retains(i) /\ \A j \in 1..i - 1 : ~Retains(j) BY <2>2 DEF Outermost
      <3>2. Retains(i)' /\ frames'[i].error = frames[i].error BY <2>1, <2>2, <3>1
      <3>3. i \in Nat BY <3>1, RetainedIs
      <3>4. ASSUME NEW j \in 1..i - 1, Retains(j)' PROVE FALSE
        <4>1. \A k : Retains(k)' => k <= j BY <2>1, <3>1, <3>4
        <4>2. i <= j BY <3>2, <4>1
        <4>3. QED BY <3>3, <4>2
      <3>5. QED BY <3>2, <3>4 DEF Outermost
    <2>3. aborting' => (\E i : Outermost(i) /\ frames[i].error.kind # "none")' BY <1>3, <2>1, <2>2
    <2>4. Running' /\ stops' # <<>> => aborting' BY <1>3, <2>1
    <2>5. ASSUME Running', "cancel" \in Range(stops'), NEW i, Outermost(i)'
          PROVE  frames'[i].error.kind = "cancel"
      <3>1. aborting /\ Running /\ "cancel" \in Range(stops) BY <1>3, <1>4, <2>1, <2>5
      <3>2. PICK j : Outermost(j) /\ frames[j].error.kind # "none" BY <1>3, <3>1
      <3>3. Outermost(j)' /\ frames'[j].error = frames[j].error BY <2>2, <3>2
      <3>4. i \in Nat /\ j \in Nat
        <4>1. \A k : Retains(k)' => k \in Nat BY DEF Retains
        <4>2. QED BY <2>5, <3>3, <4>1 DEF Outermost
      <3>5. ~(j \in 1..i - 1) /\ ~(i \in 1..j - 1) /\ i >= 1 /\ j >= 1
        BY <2>5, <3>3 DEF Outermost, Retains
      <3>6. i = j BY <3>4, <3>5
      <3>7. QED BY <1>3, <3>1, <3>2, <3>3, <3>6
    <2>6. CancellationKept' BY <1>3, <2>1 DEF CancellationKept, Ended, Running
    <2>7. QED BY <2>3, <2>4, <2>5, <2>6 DEF StopInv
  <1>7. CASE Completes
    <2>1. /\ \A i : ~Outermost(i)
          /\ Running /\ frames' = <<>> /\ outcome' = [None EXCEPT !.kind = "ok"]
          /\ UNCHANGED <<errors, stops, caught, aborting>>
      BY <1>7 DEF Completes, Outermost
    <2>2. ~aborting /\ stops = <<>> BY <1>3, <2>1
    <2>3. ~aborting' /\ stops' = <<>> /\ "cancel" \notin Range(stops') BY <1>4, <2>1, <2>2
    <2>4. QED BY <2>3 DEF StopInv, CancellationKept
  <1>8. CASE Interrupts
    <2>1. PICK i \in Nat, kind \in {"cancel", "exit"} :
            /\ Outermost(i) /\ stops' = Append(stops, kind)
            /\ frames'[i].error = Interrupted(frames[i], kind).error
      BY <1>8 DEF Interrupts
    <2>2. /\ \A j : Retains(j)' <=> Retains(j)
          /\ aborting' = TRUE /\ Running /\ Running'
      BY <1>8 DEF Interrupts
    <2>3. \A j : Outermost(j)' <=> Outermost(j) BY <2>2 DEF Outermost
    <2>4. Retains(i) /\ frames[i] \in CleanupFrames /\ frames[i].error \in Errors
      BY <2>1, RetainedIs DEF Outermost
    <2>5. frames'[i].error.kind # "none" BY <2>1, <2>4, InterruptedIs
    <2>6. ASSUME "cancel" \in Range(stops') PROVE frames'[i].error.kind = "cancel"
      <3>1. kind = "cancel" \/ "cancel" \in Range(stops) BY <1>2, <2>1, <2>6, AppendRange
      <3>2. kind = "cancel" \/ frames[i].error.kind = "cancel" BY <1>3, <2>1, <2>2, <3>1
      <3>3. Interrupted(frames[i], kind).error.kind = "cancel"
        <4>1. Error(kind, 0) \in Errors /\ Error(kind, 0).kind = kind BY ErrorIs, Bounds
        <4>2. Noted(Error(kind, 0), frames[i].error).kind = kind BY <2>4, <4>1, NotedIs
        <4>3. [frames[i] EXCEPT !.error = IF frames[i].error.kind = "none" THEN Error(kind, 0)
                                   ELSE Noted(Error(kind, 0), frames[i].error)].error =
                IF frames[i].error.kind = "none" THEN Error(kind, 0)
                ELSE Noted(Error(kind, 0), frames[i].error)
          BY <2>4 DEF CleanupFrames
        <4>4. CASE frames[i].error.kind = "none" \/ (kind = "cancel" /\ frames[i].error.kind # "cancel")
          BY <3>2, <4>1, <4>2, <4>3, <4>4 DEF Interrupted
        <4>5. CASE ~(frames[i].error.kind = "none" \/ (kind = "cancel" /\ frames[i].error.kind # "cancel"))
          BY <3>2, <4>5 DEF Interrupted
        <4>6. QED BY <4>4, <4>5
      <3>4. QED BY <2>1, <3>3
    <2>7. \A j : Outermost(j) => j = i
      <3>1. \A j : Outermost(j) => Retains(j) /\ j \in Nat BY RetainedIs DEF Outermost
      <3>2. \A j : Outermost(j) => i <= j /\ j <= i BY <2>1, <3>1, OutermostIs
      <3>3. QED BY <3>1, <3>2
    <2>8. QED BY <1>5, <2>1, <2>2, <2>3, <2>5, <2>6, <2>7 DEF StopInv
  <1>9. ASSUME NEW m, NEW e, Arises(m, e), Joins(m, e) \/ Opens(m, e) \/ Delivers(m, e)
        PROVE  StopInv'
    <2>1. /\ m \in 1..Depth /\ m \in Int /\ e \in Causes /\ e.kind \in {"op", "cancel", "exit"}
          /\ Running
      <3>1. Depth \in Nat BY OutermostIs
      <3>2. m \in 1..Depth /\ e \in Causes /\ e.kind \in {"op", "cancel", "exit"}
        BY <1>9 DEF Arises
      <3>3. Running BY <3>1, <3>2, EmptySeq DEF Running, Depth
      <3>4. QED BY <3>1, <3>2, <3>3
    <2>2. /\ e.kind # "op" => \A i : i <= m => ~Retains(i)
          /\ Aborts(e) /\ (\E i : i <= m /\ Retains(i)) =>
               \E i : i <= m /\ Outermost(i) /\ frames[i].error.kind # "none"
          /\ stops' # <<>> => Aborts(e)
          /\ "cancel" \in Range(stops') =>
               /\ \A i : i <= m /\ Outermost(i) => frames[i].error.kind = "cancel"
               /\ (\A i : i <= m => ~Retains(i)) => e.kind = "cancel"
      BY <1>9, StopArises
    <2>3. aborting' = Aborts(e) /\ Running' BY <1>9 DEF Joins, Opens, Delivers
    <2>4. ASSUME aborting' => \E i : Outermost(i)' /\ frames'[i].error.kind # "none",
                 "cancel" \in Range(stops') => \A i : Outermost(i)' => frames'[i].error.kind = "cancel"
          PROVE  StopInv'
      BY <1>5, <2>2, <2>3, <2>4 DEF StopInv
    <2>5. CASE Joins(m, e)
      <3>1. /\ LeftTo(m)
            /\ \A i : Outermost(i)' <=> i <= m /\ Outermost(i)
        BY <2>1, <2>5, LeftOutermost DEF Joins
      <3>2. PICK n : /\ Retains(n) /\ n <= m /\ \A i : Retains(i)' => i <= n
                     /\ frames'[n].error = IF frames[n].error.kind \in {"none", "exit"} THEN e
                                           ELSE Noted(frames[n].error, e)
                     /\ \A i : Retains(i)' => i = n \/ frames'[i].error = frames[i].error
        BY <2>5 DEF Joins
      <3>3. /\ frames'[n].error.kind =
                 IF frames[n].error.kind \in {"none", "exit"} THEN e.kind ELSE frames[n].error.kind
            /\ frames'[n].error.kind # "none"
        <4>1. frames[n].error \in Causes /\ e.kind # "none" BY <2>1, <3>2, RetainedIs
        <4>2. PICK g : g = frames'[n].error OBVIOUS
        <4>3. PICK f : f = frames[n].error OBVIOUS
        <4>4. g = IF f.kind \in {"none", "exit"} THEN e ELSE Noted(f, e) BY <3>2, <4>2, <4>3
        <4>5. f \in Causes /\ e \in Causes BY <2>1, <4>1, <4>3
        <4>6. /\ g.kind = IF f.kind \in {"none", "exit"} THEN e.kind ELSE f.kind
              /\ g.kind # "none"
          <5>1. e.kind # "none" BY <4>1
          <5>2. QED BY <5>1, <4>4, <4>5, JoinedIs, Zenon
        <4>7. QED BY <4>2, <4>3, <4>6
      <3>4. \A i : Outermost(i)' => Retains(i)' BY DEF Outermost
      <3>5. QED BY <2>2, <2>3, <2>4, <3>1, <3>2, <3>3, <3>4
    <2>6. CASE Opens(m, e)
      <3>1. /\ \A i : Retains(i)' <=> (i <= m /\ Retains(i)) \/ i = m + 1
            /\ frames'[m + 1].error = e
            /\ \A i : i <= m /\ Retains(i) => frames'[i].error = frames[i].error
        BY <2>6 DEF Opens
      <3>2. \A i : Retains(i) => i \in Nat BY RetainedIs
      <3>3. \A i : i <= m /\ Outermost(i) => Outermost(i)'
        <4> SUFFICES ASSUME NEW i, i <= m, Outermost(i) PROVE Outermost(i)' OBVIOUS
        <4>1. Retains(i) /\ i \in Nat /\ \A j \in 1..i - 1 : ~Retains(j)
          BY <3>2 DEF Outermost
        <4>2. \A j \in 1..i - 1 : j # m + 1 BY <2>1, <4>1
        <4>3. QED BY <3>1, <4>1, <4>2 DEF Outermost
      <3>4. \A i : Outermost(i)' => \/ i <= m /\ Outermost(i)
                                    \/ i = m + 1 /\ \A j : j <= m => ~Retains(j)
        <4> SUFFICES ASSUME NEW i, Outermost(i)'
                     PROVE  \/ i <= m /\ Outermost(i)
                            \/ i = m + 1 /\ \A j : j <= m => ~Retains(j)
          OBVIOUS
        <4>1. Retains(i)' /\ \A j \in 1..i - 1 : ~Retains(j)' BY DEF Outermost
        <4>2. CASE i = m + 1
          <5>1. ASSUME NEW j, j <= m, Retains(j) PROVE FALSE
            <6>1. j \in 1..i - 1 BY <2>1, <4>2, <5>1, RetainedIs
            <6>2. QED BY <3>1, <4>1, <5>1, <6>1
          <5>2. QED BY <4>2, <5>1
        <4>3. CASE i <= m /\ Retains(i)
          <5>1. i \in Nat BY <3>2, <4>3
          <5>2. \A j \in 1..i - 1 : j <= m BY <2>1, <4>3, <5>1
          <5>3. QED BY <3>1, <4>1, <4>3, <5>2 DEF Outermost
        <4>4. QED BY <3>1, <4>1, <4>2, <4>3
      <3>5. ASSUME \A j : j <= m => ~Retains(j)
            PROVE  Outermost(m + 1)'
        <4>1. \A j \in 1..m + 1 - 1 : j <= m /\ j # m + 1 BY <2>1
        <4>2. QED BY <3>1, <3>5, <4>1 DEF Outermost
      <3>6. aborting' => \E i : Outermost(i)' /\ frames'[i].error.kind # "none"
        <4>1. CASE \A j : j <= m => ~Retains(j) BY <2>1, <3>1, <3>5, <4>1
        <4>2. CASE \E j : j <= m /\ Retains(j)
          <5>1. \A i : Outermost(i) => Retains(i) BY DEF Outermost
          <5>2. QED BY <2>2, <2>3, <3>1, <3>3, <4>2, <5>1
        <4>3. QED BY <4>1, <4>2
      <3>7. ASSUME "cancel" \in Range(stops'), NEW i, Outermost(i)'
            PROVE  frames'[i].error.kind = "cancel"
        <4>1. \A j : Outermost(j) => Retains(j) BY DEF Outermost
        <4>2. QED BY <2>2, <3>1, <3>4, <3>7, <4>1
      <3>8. QED BY <2>4, <3>6, <3>7
    <2>7. CASE Delivers(m, e)
      <3>1. /\ LeftTo(m)
            /\ \A i : Outermost(i)' <=> i <= m /\ Outermost(i)
            /\ \A i : Retains(i)' => frames'[i].error = frames[i].error
            /\ Aborts(e) => \E i : i <= m /\ Retains(i)
        BY <2>1, <2>7, LeftOutermost DEF Delivers
      <3>2. \A i : Outermost(i)' => Retains(i)' BY DEF Outermost
      <3>3. QED BY <2>2, <2>3, <2>4, <3>1, <3>2
    <2>8. QED BY <1>9, <2>5, <2>6, <2>7
  <1>10. ASSUME NEW m, NEW e, Arises(m, e), EndsWith(m, e)
         PROVE  StopInv'
    <2>1. /\ \A i : i <= m => ~Retains(i)
          /\ frames' = <<>> /\ outcome' = e /\ aborting' = FALSE
      BY <1>10 DEF EndsWith
    <2>2. e.kind # "ok" BY <1>10 DEF Arises
    <2>3. "cancel" \in Range(stops') => e.kind = "cancel" BY <1>10, <2>1, StopArises
    <2>4. QED BY <2>1, <2>2, <2>3 DEF StopInv, CancellationKept, Running
  <1>11. QED BY <1>1, <1>6, <1>7, <1>8, <1>9, <1>10 DEF Travels

-----------------------------------------------------------------------------
(* No error is lost, and the first one is the primary one.                 *)

Told(e) == Reports(e) \ {0}
Later(id, e) == \A r \in Told(e) : r > id
Ordered(e) == e.kind = "op" => \A r \in e.notes \ {0} : r > e.id

\* Of n errors so far, e tells of some: of none if it is an exit, of later ones than
\* itself if one of them is the primary one.
Sound(e, n) ==
  /\ Reports(e) \subseteq 0..n
  /\ e.kind \in {"none", "exit"} => Told(e) = {}
  /\ Ordered(e)

Known(r) ==
  \/ \E e \in caught : r \in Told(e)
  \/ \E i : Retains(i) /\ r \in Told(frames[i].error)
  \/ ~Running /\ r \in Told(outcome)

\* An outer cleanup that retains an error has met it before all that an inner one
\* knows of.
ErrorInv ==
  /\ \A i : Retains(i) => Sound(frames[i].error, errors)
  /\ \A i, j : Retains(i) /\ Retains(j) /\ i < j /\ frames[i].error.kind = "op" =>
       Later(frames[i].error.id, frames[j].error)
  /\ \A e \in caught \cup {outcome} : Ordered(e)
  /\ \A r \in 1..errors : Known(r)

LEMMA ErrorTells ==
  ASSUME NEW kind \in {"op", "cancel", "exit", "none"}, NEW id \in Nat
  PROVE  /\ Error(kind, id).kind = kind /\ Error(kind, id).id = id /\ Error(kind, id).notes = {}
         /\ Reports(Error(kind, id)) = {id} /\ Told(Error(kind, id)) = {id} \ {0}
         /\ Ordered(Error(kind, id))
         /\ None = Error("none", 0)
  BY DEF Error, Reports, Told, Ordered, None

LEMMA JoinedSound ==
  ASSUME NEW n \in Nat, NEW f \in Causes, NEW e \in Causes, NEW g,
         Sound(f, n), Sound(e, n), e.kind \in {"op", "cancel", "exit"},
         f.kind = "op" => Later(f.id, e),
         g = IF f.kind \in {"none", "exit"} THEN e ELSE Noted(f, e)
  PROVE  /\ Sound(g, n) /\ Told(g) = Told(f) \cup Told(e)
         /\ g.kind = "op" => (f.kind = "op" /\ g.id = f.id) \/ g = e
  <1>1. CASE f.kind \in {"none", "exit"}
    <2>1. g = e BY <1>1
    <2>2. Told(f) = {} BY <1>1 DEF Sound
    <2>3. QED BY <2>1, <2>2
  <1>2. CASE f.kind \notin {"none", "exit"}
    <2>1. /\ g.kind = f.kind /\ g.id = f.id
          /\ g.notes = f.notes \cup {e.id} \cup e.notes
      <3>1. g = Noted(f, e) BY <1>2
      <3>2. f \in Errors /\ e \in Errors BY DEF Causes
      <3>3. Noted(f, e).kind = f.kind /\ Noted(f, e).id = f.id BY <3>2, NotedIs
      <3>4. Noted(f, e).notes = f.notes \cup {e.id} \cup e.notes BY <3>2 DEF Noted, Errors
      <3>5. QED BY <3>1, <3>3, <3>4
    <2>2. Reports(g) = Reports(f) \cup Reports(e) BY <2>1 DEF Reports
    <2>3. Told(g) = Told(f) \cup Told(e) BY <2>2 DEF Told
    <2>4. Ordered(g)
      <3>1. SUFFICES ASSUME g.kind = "op", NEW r \in g.notes \ {0} PROVE r > g.id
        BY DEF Ordered
      <3>2. f.kind = "op" /\ Later(f.id, e) /\ Ordered(f) BY <2>1, <3>1 DEF Sound
      <3>3. r \in f.notes \ {0} \/ r \in Told(e) BY <2>1, <3>1 DEF Told, Reports
      <3>4. QED BY <2>1, <3>2, <3>3 DEF Later, Ordered
    <2>5. Sound(g, n) BY <1>2, <2>1, <2>2, <2>4 DEF Sound
    <2>6. QED BY <2>1, <2>3, <2>5
  <1>3. QED BY <1>1, <1>2

LEMMA InterruptedSound ==
  ASSUME NEW n \in Nat, NEW f \in CleanupFrames, NEW kind \in {"cancel", "exit"}, NEW g,
         Sound(f.error, n), g = Interrupted(f, kind).error
  PROVE  /\ Sound(g, n) /\ Told(g) = Told(f.error)
         /\ g.kind = "op" => g = f.error
  <1> DEFINE c == Error(kind, 0)
             x == IF f.error.kind = "none" THEN c ELSE Noted(c, f.error)
             hit == f.error.kind = "none" \/ (kind = "cancel" /\ f.error.kind # "cancel")
  <1>1. /\ c.kind = kind /\ c.id = 0 /\ c.notes = {} /\ Reports(c) = {0} /\ Told(c) = {}
      BY ErrorTells
  <1>2. c \in Causes /\ f.error \in Causes
    <2>1. c \in Errors BY ErrorIs, Bounds
    <2>2. QED BY <1>1, <2>1, CleanupFields DEF Causes
  <1>3. CASE ~hit
    <2>1. g = f.error BY <1>3 DEF Interrupted
    <2>2. QED BY <2>1
  <1>4. CASE hit
    <2>1. [f EXCEPT !.error = x].error = x BY DEF CleanupFrames
    <2>2. g = x BY <1>4, <2>1 DEF Interrupted
    <2>3. CASE f.error.kind = "none"
      <3>1. g = c /\ Told(f.error) = {} BY <2>2, <2>3 DEF Sound
      <3>2. Sound(c, n) BY <1>1 DEF Sound, Ordered
      <3>3. QED BY <1>1, <3>1, <3>2
    <2>4. CASE f.error.kind # "none"
      <3>1. kind = "cancel" /\ g = Noted(c, f.error) BY <1>4, <2>2, <2>4
      <3>2. /\ g.kind = c.kind /\ g.id = c.id
            /\ g.notes = c.notes \cup {f.error.id} \cup f.error.notes
        <4>1. c.kind \notin {"none", "exit"} BY <1>1, <3>1
        <4> HIDE DEF c
        <4>2. g = IF c.kind \in {"none", "exit"} THEN f.error ELSE Noted(c, f.error) BY <3>1, <4>1
        <4>3. PICK h : h = f.error OBVIOUS
        <4>4. /\ g.kind = IF c.kind \in {"none", "exit"} THEN h.kind ELSE c.kind
              /\ g.id = IF c.kind \in {"none", "exit"} THEN h.id ELSE c.id
              /\ g.notes = IF c.kind \in {"none", "exit"} THEN h.notes
                           ELSE c.notes \cup {h.id} \cup h.notes
          BY <1>2, <2>4, <4>2, <4>3, JoinedIs
        <4>5. QED BY <4>1, <4>3, <4>4
      <3>3. Reports(g) = {0} \cup Reports(f.error) BY <1>1, <3>2 DEF Reports
      <3>4. Told(g) = Told(f.error) BY <3>3 DEF Told
      <3>5. QED BY <1>1, <3>1, <3>2, <3>3, <3>4 DEF Sound, Ordered
    <2>5. QED BY <2>3, <2>4
  <1>5. QED BY <1>3, <1>4

LEMMA ErrorArises ==
  ASSUME ShapeInv, ErrorInv, NEW m, NEW e, Arises(m, e)
  PROVE  /\ Sound(e, errors')
         /\ \A i : i <= m /\ Retains(i) /\ frames[i].error.kind = "op" =>
              Later(frames[i].error.id, e)
         /\ \A r \in 1..errors' : r \in 1..errors \/ r \in Told(e)
         /\ \A i : Retains(i) => i <= m \/ frames[i].error = e
         /\ errors \in Nat /\ errors' \in Nat /\ errors <= errors'
  <1>1. /\ m \in 1..Depth /\ Depth \in Nat /\ e \in Causes /\ e.kind \in {"op", "cancel", "exit"}
    BY OutermostIs DEF Arises
  <1>2. errors \in Nat BY Bounds DEF ShapeInv, TypeInv, VarInv
  <1>3. \A i : Retains(i) => /\ frames[i].error.id \in 0..errors
                             /\ Sound(frames[i].error, errors)
    BY DEF ErrorInv, Sound, Reports
  <1>4. CASE m = Depth /\ e = Error("op", errors + 1) /\ errors' = errors + 1
    <2>1. Reports(e) = {errors + 1} /\ Told(e) = {errors + 1} /\ e.kind = "op" /\ Ordered(e)
      BY <1>2, <1>4, ErrorTells
    <2>2. Sound(e, errors') BY <1>2, <1>4, <2>1 DEF Sound
    <2>3. \A i : Retains(i) => Later(frames[i].error.id, e) BY <1>2, <1>3, <2>1 DEF Later
    <2>4. \A i : Retains(i) => i <= m BY <1>1, <1>4 DEF Retains
    <2>5. \A r \in 1..errors' : r \in 1..errors \/ r \in Told(e) BY <1>2, <1>4, <2>1
    <2>6. QED BY <1>2, <1>4, <2>2, <2>3, <2>4, <2>5
  <1>5. CASE /\ m = Depth /\ \A i : ~Retains(i)
             /\ e = Error(e.kind, 0) /\ e.kind # "op" /\ errors' = errors
    <2>1. Reports(e) = {0} /\ Told(e) = {} /\ Ordered(e) BY <1>1, <1>5, ErrorTells
    <2>2. Sound(e, errors') BY <1>2, <1>5, <2>1 DEF Sound
    <2>3. QED BY <1>2, <1>5, <2>2
  <1>6. CASE m + 1 = Depth /\ Retains(Depth) /\ e = frames[Depth].error /\ errors' = errors
    <2>1. Sound(e, errors') BY <1>3, <1>6
    <2>2. \A i : Retains(i) => i <= m \/ i = Depth BY <1>1, <1>6 DEF Retains
    <2>3. \A i : i <= m /\ Retains(i) => i < Depth BY <1>1, <1>6 DEF Retains
    <2>4. \A i : i <= m /\ Retains(i) /\ frames[i].error.kind = "op" => Later(frames[i].error.id, e)
      BY <1>6, <2>3 DEF ErrorInv
    <2>5. QED BY <1>2, <1>6, <2>1, <2>2, <2>4
  <1>7. QED BY <1>4, <1>5, <1>6 DEF Arises

LEMMA SoundStays ==
  ASSUME NEW e, NEW n \in Nat, NEW l \in Nat, n <= l, Sound(e, n)
  PROVE  Sound(e, l)
  BY DEF Sound

\* The four parts of the invariant, each with what a step leaves of it.
LEMMA ErrorStep ==
  ASSUME ShapeInv, StopInv, ErrorInv, [Next]_vars
  PROVE  ErrorInv'
  <1>1. Travels BY TravelStep
  <1>2. errors \in Nat BY Bounds DEF ShapeInv, TypeInv, VarInv
  <1>3. /\ \A i : Retains(i) => Sound(frames[i].error, errors)
        /\ \A i, j : Retains(i) /\ Retains(j) /\ i < j /\ frames[i].error.kind = "op" =>
             Later(frames[i].error.id, frames[j].error)
        /\ \A e \in caught \cup {outcome} : Ordered(e)
        /\ \A r \in 1..errors : Known(r)
    BY DEF ErrorInv
  <1>4. ASSUME \A i : Retains(i)' => Sound(frames'[i].error, errors'),
               \A i, j : Retains(i)' /\ Retains(j)' /\ i < j /\ frames'[i].error.kind = "op" =>
                 Later(frames'[i].error.id, frames'[j].error),
               \A e \in caught' \cup {outcome'} : Ordered(e),
               \A r \in 1..errors' : Known(r)'
        PROVE  ErrorInv'
    BY <1>4 DEF ErrorInv, Sound, Later, Ordered, Told, Reports
  <1>5. None.kind = "none" /\ Told(None) = {} /\ \A n \in Nat : Sound(None, n)
    BY DEF None, Told, Reports, Sound, Ordered
  <1>6. CASE Carried
    <2>1. /\ UNCHANGED <<errors, stops, caught, outcome, aborting>>
          /\ Running' <=> Running
          /\ \A i : Retains(i) => \/ frames[i].error.kind = "none"
                                  \/ Retains(i)' /\ frames'[i].error = frames[i].error
          /\ \A i : Retains(i)' => \/ Retains(i) /\ frames'[i].error = frames[i].error
                                   \/ frames'[i].error = None /\ \A j : Retains(j)' => j <= i
      BY <1>6 DEF Carried
    <2>2. \A i : Retains(i)' => Sound(frames'[i].error, errors') BY <1>2, <1>3, <1>5, <2>1
    <2>3. ASSUME NEW i, NEW j, Retains(i)', Retains(j)', i < j, frames'[i].error.kind = "op"
          PROVE  Later(frames'[i].error.id, frames'[j].error)
      <3>1. Retains(i) /\ frames'[i].error = frames[i].error BY <1>5, <2>1, <2>3
      <3>2. CASE Retains(j) /\ frames'[j].error = frames[j].error
        BY <1>3, <2>3, <3>1, <3>2
      <3>3. CASE frames'[j].error = None BY <1>5, <3>3 DEF Later
      <3>4. QED BY <2>1, <2>3, <3>2, <3>3
    <2>4. ASSUME NEW r \in 1..errors' PROVE Known(r)'
      <3>1. Known(r) BY <1>3, <2>1, <2>4
      <3>2. \A i : Retains(i) /\ r \in Told(frames[i].error) =>
              Retains(i)' /\ frames'[i].error = frames[i].error
        BY <1>3, <2>1 DEF Sound
      <3>3. Told(outcome)' = Told(outcome) BY <2>1 DEF Told, Reports
      <3>4. CASE \E e \in caught : r \in Told(e) BY <2>1, <3>4 DEF Known, Told, Reports
      <3>5. CASE \E i : Retains(i) /\ r \in Told(frames[i].error)
        BY <3>2, <3>5 DEF Known, Told, Reports
      <3>6. CASE ~Running /\ r \in Told(outcome) BY <2>1, <3>3, <3>6 DEF Known
      <3>7. QED BY <3>1, <3>4, <3>5, <3>6 DEF Known
    <2>5. QED BY <1>3, <1>4, <2>1, <2>2, <2>3, <2>4
  <1>7. CASE Completes
    <2>1. /\ \A i : ~Retains(i)
          /\ Running /\ frames' = <<>> /\ outcome' = [None EXCEPT !.kind = "ok"]
          /\ UNCHANGED <<errors, stops, caught, aborting>>
      BY <1>7 DEF Completes
    <2>2. \A i : ~Retains(i)'
      <3>1. 1..Len(frames') = {} BY <2>1, EmptySeq
      <3>2. QED BY <3>1 DEF Retains, Depth
    <2>3. Ordered(outcome') BY <2>1 DEF None, Ordered
    <2>4. \A r \in 1..errors : \E e \in caught : r \in Told(e) BY <1>3, <2>1 DEF Known
    <2>5. \A r \in 1..errors' : Known(r)' BY <2>1, <2>4 DEF Known, Told, Reports
    <2>6. QED BY <1>3, <1>4, <2>1, <2>2, <2>3, <2>5
  <1>8. CASE Interrupts
    <2>1. PICK i \in Nat, kind \in {"cancel", "exit"} :
            /\ Outermost(i)
            /\ frames'[i].error = Interrupted(frames[i], kind).error
            /\ \A j : Retains(j) => j = i \/ frames'[j].error = frames[j].error
      BY <1>8 DEF Interrupts
    <2>2. /\ \A j : Retains(j)' <=> Retains(j)
          /\ UNCHANGED <<outcome, caught, errors>> /\ Running /\ Running'
      BY <1>8 DEF Interrupts
    <2>3. Retains(i) /\ frames[i] \in CleanupFrames BY <2>1, RetainedIs DEF Outermost
    <2>4. /\ Sound(frames'[i].error, errors) /\ Told(frames'[i].error) = Told(frames[i].error)
          /\ frames'[i].error.kind = "op" => frames'[i].error = frames[i].error
      <3>1. PICK g : g = frames'[i].error OBVIOUS
      <3>2. Sound(g, errors) /\ Told(g) = Told(frames[i].error) /\ (g.kind = "op" => g = frames[i].error)
        BY <1>2, <1>3, <2>1, <2>3, <3>1, InterruptedSound
      <3>3. QED BY <3>1, <3>2
    <2>5. \A j : Retains(j) => /\ Told(frames'[j].error) = Told(frames[j].error)
                               /\ frames'[j].error.kind = "op" => frames'[j].error = frames[j].error
                               /\ Sound(frames'[j].error, errors)
      BY <1>3, <2>1, <2>4
    <2>6. \A j, k : Retains(j)' /\ Retains(k)' /\ j < k /\ frames'[j].error.kind = "op" =>
            Later(frames'[j].error.id, frames'[k].error)
      BY <1>3, <2>2, <2>5 DEF Later
    <2>7. ASSUME NEW r \in 1..errors' PROVE Known(r)'
      <3>1. Known(r) BY <1>3, <2>2, <2>7
      <3>2. CASE \E e \in caught : r \in Told(e) BY <2>2, <3>2 DEF Known, Told, Reports
      <3>3. CASE \E j : Retains(j) /\ r \in Told(frames[j].error)
        <4>1. \E j : Retains(j)' /\ r \in Told(frames'[j].error) BY <2>2, <2>5, <3>3
        <4>2. QED BY <4>1 DEF Known, Told, Reports
      <3>4. QED BY <2>2, <3>1, <3>2, <3>3 DEF Known
    <2>8. QED BY <1>3, <1>4, <2>2, <2>5, <2>6, <2>7
  <1>9. ASSUME NEW m, NEW e, Arises(m, e)
        PROVE  /\ m \in 1..Depth /\ m \in Nat /\ Running
               /\ e \in Causes /\ e.kind \in {"op", "cancel", "exit"}
               /\ Sound(e, errors')
               /\ \A i : i <= m /\ Retains(i) /\ frames[i].error.kind = "op" =>
                    Later(frames[i].error.id, e)
               /\ \A r \in 1..errors' : r \in 1..errors \/ r \in Told(e)
               /\ \A i : Retains(i) => i <= m \/ frames[i].error = e
               /\ errors' \in Nat /\ errors <= errors'
               /\ \A i : Retains(i) => Sound(frames[i].error, errors')
    <2>1. /\ Sound(e, errors')
          /\ \A i : i <= m /\ Retains(i) /\ frames[i].error.kind = "op" =>
               Later(frames[i].error.id, e)
          /\ \A r \in 1..errors' : r \in 1..errors \/ r \in Told(e)
          /\ \A i : Retains(i) => i <= m \/ frames[i].error = e
          /\ errors' \in Nat /\ errors <= errors'
      BY <1>9, ErrorArises
    <2>2. m \in 1..Depth /\ e \in Causes /\ e.kind \in {"op", "cancel", "exit"}
      BY <1>9 DEF Arises
    <2>3. Depth \in Nat BY OutermostIs
    <2>4. Running BY <2>2, <2>3, EmptySeq DEF Running, Depth
    <2>5. \A i : Retains(i) => Sound(frames[i].error, errors') BY <1>2, <1>3, <2>1, SoundStays
    <2>6. QED BY <2>1, <2>2, <2>3, <2>4, <2>5
  \* An error is known of if it was, or if the new one tells of it, once each cleanup
  \* that is left, and the new error, is told of somewhere.
  <1>10. ASSUME NEW m, NEW e, Arises(m, e), caught \subseteq caught',
                \A r \in Told(e) : Known(r)',
                \A i : i <= m /\ Retains(i) => \A r \in Told(frames[i].error) : Known(r)'
         PROVE  \A r \in 1..errors' : Known(r)'
    <2> SUFFICES ASSUME NEW r \in 1..errors', r \notin Told(e) PROVE Known(r)' BY <1>10
    <2>1. r \in 1..errors /\ Running BY <1>9, <1>10
    <2>2. CASE \E f \in caught : r \in Told(f)
      BY <1>10, <2>2 DEF Known, Told, Reports
    <2>3. CASE \E i : Retains(i) /\ r \in Told(frames[i].error)
      <3>1. PICK i : Retains(i) /\ r \in Told(frames[i].error) BY <2>3
      <3>2. i <= m \/ frames[i].error = e BY <1>9, <1>10, <3>1
      <3>3. QED BY <1>10, <3>1, <3>2
    <2>4. QED BY <1>3, <2>1, <2>2, <2>3 DEF Known
  <1>11. ASSUME NEW i, Retains(i)' PROVE \A r \in Told(frames'[i].error) : Known(r)'
    BY <1>11 DEF Known, Told, Reports
  <1>12. ASSUME NEW m, NEW e, Arises(m, e), Joins(m, e)
         PROVE  ErrorInv'
    <2>1. PICK n : /\ Retains(n) /\ n <= m /\ \A i : Retains(i)' => i <= n
                   /\ frames'[n].error = IF frames[n].error.kind \in {"none", "exit"} THEN e
                                         ELSE Noted(frames[n].error, e)
                   /\ \A i : Retains(i)' => i = n \/ frames'[i].error = frames[i].error
      BY <1>12 DEF Joins
    <2>2. \A i : Retains(i)' <=> i <= m /\ Retains(i) BY <1>12 DEF Joins, LeftTo
    <2>3. UNCHANGED <<caught, outcome>> BY <1>12 DEF Joins
    <2>4. PICK g : g = frames'[n].error OBVIOUS
    <2>5. PICK f : f = frames[n].error OBVIOUS
    <2>6. /\ Sound(g, errors') /\ Told(g) = Told(f) \cup Told(e)
          /\ g.kind = "op" => (f.kind = "op" /\ g.id = f.id) \/ g = e
      <3>1. f \in Causes /\ Sound(f, errors') /\ (f.kind = "op" => Later(f.id, e))
        BY <1>9, <1>12, <2>1, <2>5, RetainedIs
      <3>2. g = IF f.kind \in {"none", "exit"} THEN e ELSE Noted(f, e) BY <2>1, <2>4, <2>5
      <3>3. PICK l \in Nat : l = errors' BY <1>9, <1>12
      <3>4. Sound(f, l) /\ Sound(e, l) BY <1>9, <1>12, <3>1, <3>3
      <3>5. e \in Causes /\ e.kind \in {"op", "cancel", "exit"} BY <1>9, <1>12
      <3>6. /\ Sound(g, l) /\ Told(g) = Told(f) \cup Told(e)
            /\ g.kind = "op" => (f.kind = "op" /\ g.id = f.id) \/ g = e
        BY <3>1, <3>2, <3>4, <3>5, JoinedSound
      <3>7. QED BY <3>3, <3>6
    <2>7. \A i : Retains(i)' => Sound(frames'[i].error, errors')
      BY <1>9, <1>12, <2>1, <2>2, <2>4, <2>6
    <2>8. ASSUME NEW i, NEW j, Retains(i)', Retains(j)', i < j, frames'[i].error.kind = "op"
          PROVE  Later(frames'[i].error.id, frames'[j].error)
      <3>1. /\ Retains(i) /\ Retains(j) /\ i <= m /\ i # n
            /\ frames'[i].error = frames[i].error
        <4>1. Retains(i) /\ Retains(j) /\ i <= m /\ j <= n BY <2>1, <2>2, <2>8
        <4>2. i \in Nat /\ j \in Nat /\ n \in Nat BY <2>1, <4>1, RetainedIs
        <4>3. i # n BY <2>8, <4>1, <4>2
        <4>4. QED BY <2>1, <2>8, <4>1, <4>3
      <3>2. Later(frames[i].error.id, frames[j].error) BY <1>3, <2>8, <3>1
      <3>3. Later(frames[i].error.id, e) BY <1>9, <1>12, <2>8, <3>1
      <3>4. CASE j = n BY <2>4, <2>5, <2>6, <3>1, <3>2, <3>3, <3>4 DEF Later
      <3>5. CASE j # n BY <2>1, <2>8, <3>1, <3>2, <3>5
      <3>6. QED BY <3>4, <3>5
    <2>9. Retains(n)' BY <2>1, <2>2
    <2>10. \A r \in Told(e) : Known(r)' BY <1>11, <2>4, <2>6, <2>9
    <2>11. ASSUME NEW i, i <= m, Retains(i), NEW r \in Told(frames[i].error) PROVE Known(r)'
      <3>1. Retains(i)' BY <2>2, <2>11
      <3>2. r \in Told(frames'[i].error) BY <2>1, <2>4, <2>5, <2>6, <2>11, <3>1
      <3>3. QED BY <1>11, <3>1, <3>2
    <2>12. \A r \in 1..errors' : Known(r)' BY <1>10, <1>12, <2>3, <2>10, <2>11
    <2>13. \A h \in caught' \cup {outcome'} : Ordered(h) BY <1>3, <2>3
    <2>14. QED BY <1>4, <2>7, <2>8, <2>12, <2>13
  <1>13. ASSUME NEW m, NEW e, Arises(m, e), Opens(m, e)
         PROVE  ErrorInv'
    <2>1. /\ \A i : Retains(i)' <=> (i <= m /\ Retains(i)) \/ i = m + 1
          /\ frames'[m + 1].error = e
          /\ \A i : i <= m /\ Retains(i) => frames'[i].error = frames[i].error
          /\ UNCHANGED <<caught, outcome>>
      BY <1>13 DEF Opens
    <2>2. m \in Nat BY <1>9, <1>13
    <2>3. \A i : Retains(i)' => Sound(frames'[i].error, errors') BY <1>9, <1>13, <2>1
    <2>4. ASSUME NEW i, NEW j, Retains(i)', Retains(j)', i < j, frames'[i].error.kind = "op"
          PROVE  Later(frames'[i].error.id, frames'[j].error)
      <3>1. i <= m /\ Retains(i)
        <4>1. j \in Int /\ j <= m + 1
          <5>1. Retains(j) => j \in Nat BY RetainedIs
          <5>2. QED BY <2>1, <2>2, <2>4, <5>1
        <4>2. i # m + 1 BY <2>2, <2>4, <4>1
        <4>3. QED BY <2>1, <2>4, <4>2
      <3>2. CASE j = m + 1 BY <1>9, <1>13, <2>1, <2>4, <3>1, <3>2
      <3>3. CASE j <= m /\ Retains(j) BY <1>3, <2>1, <2>4, <3>1, <3>3
      <3>4. QED BY <2>1, <2>4, <3>2, <3>3
    <2>5. Retains(m + 1)' BY <2>1
    <2>6. \A r \in Told(e) : Known(r)' BY <1>11, <2>1, <2>5
    <2>7. \A i : i <= m /\ Retains(i) => \A r \in Told(frames[i].error) : Known(r)'
      BY <1>11, <2>1
    <2>8. \A r \in 1..errors' : Known(r)' BY <1>10, <1>13, <2>1, <2>6, <2>7
    <2>9. \A h \in caught' \cup {outcome'} : Ordered(h) BY <1>3, <2>1
    <2>10. QED BY <1>4, <2>3, <2>4, <2>8, <2>9
  <1>14. ASSUME NEW m, NEW e, Arises(m, e), Delivers(m, e)
         PROVE  ErrorInv'
    <2>1. /\ \A i : Retains(i)' <=> i <= m /\ Retains(i)
          /\ caught' = caught \cup {e} /\ outcome' = outcome
          /\ \A i : Retains(i)' => frames'[i].error = frames[i].error
      BY <1>14 DEF Delivers, LeftTo
    <2>2. \A i : Retains(i)' => Sound(frames'[i].error, errors') BY <1>9, <1>14, <2>1
    <2>3. \A i, j : Retains(i)' /\ Retains(j)' /\ i < j /\ frames'[i].error.kind = "op" =>
            Later(frames'[i].error.id, frames'[j].error)
      BY <1>3, <2>1
    <2>4. \A r \in Told(e) : Known(r)' BY <2>1 DEF Known, Told, Reports
    <2>5. \A i : i <= m /\ Retains(i) => \A r \in Told(frames[i].error) : Known(r)'
      BY <1>11, <2>1
    <2>6. \A r \in 1..errors' : Known(r)' BY <1>10, <1>14, <2>1, <2>4, <2>5
    <2>7. Ordered(e) BY <1>9, <1>14 DEF Sound
    <2>8. \A h \in caught' \cup {outcome'} : Ordered(h) BY <1>3, <2>1, <2>7
    <2>9. QED BY <1>4, <2>2, <2>3, <2>6, <2>8
  <1>15. ASSUME NEW m, NEW e, Arises(m, e), EndsWith(m, e)
         PROVE  ErrorInv'
    <2>1. /\ \A i : i <= m => ~Retains(i)
          /\ frames' = <<>> /\ outcome' = e /\ caught' = caught
      BY <1>15 DEF EndsWith
    <2>2. \A i : ~Retains(i)'
      <3>1. 1..Len(frames') = {} BY <2>1, EmptySeq
      <3>2. QED BY <3>1 DEF Retains, Depth
    <2>3. \A r \in Told(e) : Known(r)' BY <2>1 DEF Known, Told, Reports, Running
    <2>4. \A r \in 1..errors' : Known(r)' BY <1>10, <1>15, <2>1, <2>3
    <2>5. Ordered(e) BY <1>9, <1>15 DEF Sound
    <2>6. \A h \in caught' \cup {outcome'} : Ordered(h) BY <1>3, <2>1, <2>5
    <2>7. QED BY <1>4, <2>2, <2>4, <2>6
  <1>16. QED BY <1>1, <1>6, <1>7, <1>8, <1>12, <1>13, <1>14, <1>15 DEF Travels

-----------------------------------------------------------------------------
(* How an evaluation ends.                                                 *)

OutcomeInv == ShapeInv /\ CauseInv /\ StopInv /\ ErrorInv

LEMMA OutcomeInit ==
  ASSUME Init
  PROVE  OutcomeInv
  <1>1. ShapeInv BY ShapeInit
  <1>2. frames = <<[kind |-> "body", job |-> "entry", of |-> 0, owner |-> 0,
                    made |-> 0, opened |-> 0]>>
    BY DEF Init
  <1>3. Depth = 1 /\ frames[1].kind = "body" BY <1>2 DEF Depth
  <1>4. \A i : ~Retains(i) BY <1>3 DEF Retains
  <1>5. CauseInv BY <1>3 DEF CauseInv, Caused
  <1>6. StopInv
    <2>1. "cancel" \notin Range(stops)
      <3>1. stops \in Seq({"cancel", "exit"}) /\ stops = <<>> BY <1>1 DEF Init, ShapeInv, TypeInv, VarInv
      <3>2. "exit" \in {"cancel", "exit"} OBVIOUS
      <3>3. QED BY <3>1, <3>2, AppendRange
    <2>2. aborting = FALSE /\ stops = <<>> BY DEF Init
    <2>3. QED BY <2>1, <2>2 DEF StopInv, CancellationKept
  <1>7. ErrorInv
    <2>1. errors = 0 /\ caught = {} /\ outcome = None BY DEF Init
    <2>2. Ordered(outcome) BY <2>1 DEF None, Ordered
    <2>3. QED BY <1>4, <2>1, <2>2 DEF ErrorInv
  <1>8. QED BY <1>1, <1>5, <1>6, <1>7 DEF OutcomeInv

LEMMA OutcomeStep ==
  ASSUME OutcomeInv, [Next]_vars
  PROVE  OutcomeInv'
  BY ShapeStep, CauseStep, StopStep, ErrorStep DEF OutcomeInv

LEMMA OutcomeHolds ==
  ASSUME OutcomeInv
  PROVE  RightOutcome
  <1>1. ShapeInv /\ StopInv /\ ErrorInv BY DEF OutcomeInv
  <1>2. CancellationKept BY <1>1 DEF StopInv
  <1>3. AbortCleans
    <2> SUFFICES ASSUME aborting PROVE \E i \in DOMAIN frames : frames[i].kind = "cleanup"
      BY DEF AbortCleans
    <2>1. PICK i : i \in 1..Depth /\ frames[i].kind = "cleanup"
      BY <1>1 DEF StopInv, Outermost, Retains
    <2>2. DOMAIN frames = 1..Depth BY <1>1, LenProperties DEF Depth, ShapeInv, TypeInv
    <2>3. QED BY <2>1, <2>2
  <1>4. PrimaryFirst
    <2>1. \A e \in Delivered : e.kind = "op" => \A n \in e.notes \ {0} : n > e.id
      <3>1. Delivered \subseteq caught \cup {outcome} BY DEF Delivered
      <3>2. QED BY <1>1, <3>1 DEF ErrorInv, Ordered
    <2>2. ASSUME Ended, NEW r \in 1..errors
          PROVE  r \in UNION {Reports(e) : e \in Delivered}
      <3>1. Depth = 0 /\ ~Running BY <2>2, EmptySeq DEF Ended, Depth, Running
      <3>2. \A i : ~Retains(i) BY <3>1 DEF Retains
      <3>3. (\E e \in caught : r \in Told(e)) \/ r \in Told(outcome)
        BY <1>1, <2>2, <3>2 DEF ErrorInv, Known
      <3>4. \E e \in Delivered : r \in Reports(e) BY <2>2, <3>3 DEF Delivered, Told
      <3>5. QED BY <3>4
    <2>3. QED BY <2>1, <2>2 DEF PrimaryFirst
  <1>5. QED BY <1>2, <1>3, <1>4 DEF RightOutcome

(* The first operational error of an evaluation is the primary one and no  *)
(* error is lost; a cancellation stays a cancellation, after an exit the   *)
(* evaluation does not complete, and an aborting machine is in cleanup     *)
(* (vm.rs: fail and interrupted, vm/cleanup.rs).                           *)
THEOREM OutcomesAreRight == Spec => []RightOutcome
  <1>1. Spec => []OutcomeInv BY OutcomeInit, OutcomeStep, PTL DEF Spec
  <1>2. OutcomeInv => RightOutcome BY OutcomeHolds
  <1>3. QED BY <1>1, <1>2, PTL

-----------------------------------------------------------------------------
(* In which order producers close.                                         *)

\* A producer is made after the one in whose scope it is.
ParentInv == \A p \in Producer : phase[p] # "none" => parent[p] < p
\* What is to be done before a producer is closed concerns that producer or later ones ...
OrderA ==
  \A p \in Producer : \A j, k, i, l, a :
    /\ Acts(j, k, Act("finish", p)) /\ Acts(i, l, a) /\ a.do # "close"
    /\ j < i \/ (j = i /\ l < k)
    => p <= a.on
\* ... as does what runs meanwhile.
OrderB ==
  \A p \in Producer : \A j, k : Acts(j, k, Act("finish", p)) =>
    \A i \in 1..Depth : j < i /\ frames[i].kind # "cleanup" =>
      /\ p <= frames[i].owner
      /\ frames[i].kind = "body" => p <= frames[i].made
OrderInv == ParentInv /\ OrderA /\ OrderB

LEMMA ParentStep ==
  ASSUME HeldInv, ParentInv, [Next]_vars
  PROVE  ParentInv'
  <1>1. Lasting /\ (Barren \/ Produce) BY PhasesStep DEF HeldInv
  <1>2. SUFFICES ASSUME NEW p \in Producer, phase'[p] # "none"
                 PROVE  parent'[p] < p
    BY DEF ParentInv
  <1>3. CASE phase[p] # "none"
    BY <1>1, <1>3 DEF Lasting, ParentInv
  <1>4. CASE phase[p] = "none"
    <2>1. Produce BY <1>1, <1>2, <1>4 DEF Barren
    <2>2. PICK q \in Producer :
            /\ phase[q] = "none" /\ phase' = [phase EXCEPT ![q] = "new"]
            /\ parent' = [parent EXCEPT ![q] = Top.owner]
      BY <2>1 DEF Produce
    <2>3. ShapeInv /\ phase \in [Producer -> Phases] /\ parent \in [Producer -> Scope]
      BY DEF HeldInv, ShapeInv, TypeInv, VarInv
    <2>4. q = p /\ parent'[p] = Top.owner BY <1>2, <1>4, <2>2, <2>3
    <2>5. Running /\ Top.kind = "body" BY <2>1 DEF Produce, Coding, OnTop
    <2>6. Depth \in Nat \ {0} /\ Top = frames[Depth] /\ Top.owner \in Scope
      BY <2>3, <2>5, TopIs, TopScope
    <2>7. ~Doomed(Depth) BY <2>6 DEF Doomed, Depth
    <2>8. Top.owner = 0 \/ phase[Top.owner] # "none"
      BY <2>5, <2>6, <2>7 DEF HeldInv, ScopeInv, OwnerInv
    <2>9. PICK o \in Scope : o = Top.owner BY <2>6
    <2>10. o = 0 \/ o \in Producer BY <2>9, Bounds DEF Scope, Producer
    <2>11. ASSUME o \in Producer, p <= o
           PROVE  FALSE
      BY <1>4, <2>8, <2>9, <2>11, Bounds DEF HeldInv, MadeInv, Producer
    <2>12. o < p BY <2>10, <2>11, Bounds DEF Producer
    <2>13. QED BY <2>4, <2>9, <2>12
  <1>5. QED BY <1>3, <1>4

\* What a new cleanup is to close was made after whatever closes below it.
LEMMA PurposeOrder ==
  ASSUME HeldInv, OrderInv, NEW n \in 1..Depth, NEW S, NEW keys, Purpose(n, S, keys),
         NEW q \in S, q \in Producer, NEW p \in Producer,
         NEW j, NEW k, Acts(j, k, Act("finish", p)), j <= n
  PROVE  p <= q
  <1>1. ShapeInv /\ Depth \in Nat /\ frames \in Seq(Frame) /\ Depth = Len(frames)
    BY LenProperties DEF Depth, HeldInv, ShapeInv, TypeInv
  <1>2. Running BY <1>1, EmptySeq DEF Running, Depth
  <1>3. Top = frames[Depth] /\ DOMAIN frames = 1..Depth /\ \A i \in 1..Depth : frames[i] \in Frame
    BY <1>1, <1>2, TopIs
  <1>4. j \in 1..Depth /\ j \in Nat /\ frames[j].kind = "cleanup" BY <1>1 DEF Acts
  <1>5. n \in Nat /\ p \in Int /\ q \in Int BY <1>1, Bounds DEF Producer
  <1>6. ASSUME NEW t \in 1..Depth, j < t, frames[t].kind = "task", q \in frames[t].graph
        PROVE  p <= q
    <2>1. p <= frames[t].owner BY <1>6 DEF OrderInv, OrderB
    <2>2. phase[q] # "none" /\ parent[q] = frames[t].owner BY <1>6 DEF HeldInv, GraphInv
    <2>3. parent[q] < q BY <2>2 DEF OrderInv, ParentInv
    <2>4. frames[t].owner \in Scope BY <1>3, <1>6, OwnerFields
    <2>5. frames[t].owner \in Int BY <2>4, Bounds DEF Scope
    <2>6. QED BY <1>5, <2>1, <2>2, <2>3, <2>5
  <1>7. CASE n = Depth /\ Top.kind = "task" /\ S \subseteq Top.graph
    <2>1. frames[n].kind = "task" /\ q \in frames[n].graph BY <1>3, <1>7
    <2>2. j < n BY <1>4, <1>5, <2>1
    <2>3. QED BY <1>6, <2>1, <2>2
  <1>8. CASE n = Depth /\ Top.kind = "body" /\ Top.job = "ended"
    <2>1. Depth = 1 BY <1>1, <1>2, <1>8, EndedIs
    <2>2. j = 1 BY <1>4, <2>1
    <2>3. QED BY <1>3, <1>4, <1>8, <2>1, <2>2
  <1>9. CASE Answering /\ n + 1 = Depth /\ S = {Top.of}
    <2>1. Depth > 1 /\ Caller \in TaskFrames /\ Top.of \in Caller.graph
      BY <1>9 DEF Answering
    <2>2. Caller = frames[Depth - 1] BY <1>1, <1>2, <2>1, TopIs
    <2>3. n = Depth - 1 BY <1>1, <1>5, <1>9
    <2>4. frames[n].kind = "task" /\ q \in frames[n].graph BY <1>9, <2>1, <2>2, <2>3, TaskFields
    <2>5. j < n BY <1>4, <1>5, <2>4
    <2>6. QED BY <1>6, <2>4, <2>5
  <1>10. ASSUME Unwinding,
                NEW fs, NEW error, Origin(n, fs, error), Unwound(fs, error),
                S = LeftOpen(fs, Checkpoint(fs, Aborts(error)))
         PROVE  p <= q
    <2>1. PICK at : at = Checkpoint(fs, Aborts(error)) OBVIOUS
    <2>2. at \in 0..n /\ (at > 0 => IsAttempt(fs[at])) BY <1>1, <1>10, <2>1, UnwoundStands
    <2>3. /\ \A m \in 1..n : fs[m] = frames[m] /\ fs[m] \in Frame
          /\ DOMAIN fs = 1..n /\ fs \in Seq(Frame) /\ Aborts(error) \in BOOLEAN
      BY <1>1, <1>10, OriginIs
    <2>4. j \in 1..n BY <1>4, <1>5
    <2>5. j \in Cleanups(fs) BY <1>4, <2>3, <2>4 DEF Cleanups
    <2>6. j <= at BY <2>1, <2>3, <2>5, CheckpointIs
    <2>7. at \in 1..n /\ IsAttempt(frames[at]) BY <1>4, <1>5, <2>2, <2>3, <2>6
    <2>8. frames[at].kind = "body" BY <2>7 DEF IsAttempt
    <2>9. j < at /\ at \in 1..Depth BY <1>1, <1>4, <1>5, <2>6, <2>7, <2>8
    <2>10. q \in Served(fs, at) \/ q \in Made(fs, at) BY <1>10, <2>1 DEF LeftOpen
    <2>11. CASE q \in Served(fs, at)
      <3>1. PICK t \in Tasks(fs, at) : q \in Owned(fs[t]) BY <2>11 DEF Served
      <3>2. t \in 1..n /\ t >= at /\ fs[t].kind = "task" BY <2>3, <3>1 DEF Tasks
      <3>3. fs[t] \in TaskFrames BY <2>3, <3>2, FrameKinds
      <3>4. Owned(fs[t]) \subseteq fs[t].graph BY <3>3, TaskFields
      <3>5. frames[t].kind = "task" /\ q \in frames[t].graph /\ t \in 1..Depth
        BY <1>1, <1>5, <2>3, <3>1, <3>2, <3>4
      <3>6. j < t BY <1>4, <1>5, <2>7, <2>9, <3>2
      <3>7. QED BY <1>6, <3>5, <3>6
    <2>12. CASE q \in Made(fs, at)
      <3>1. frames[at] \in Bodies BY <1>3, <2>8, <2>9, FrameKinds
      <3>2. frames[at].made \in Nat BY <3>1, BodyFields, Bounds DEF Scope
      <3>3. at # 0 /\ fs[at] = frames[at] BY <1>4, <1>5, <2>3, <2>7
      <3>4. q \in frames[at].made + 1..MaxProducers BY <2>12, <3>3 DEF Made
      <3>5. p <= frames[at].made BY <2>8, <2>9 DEF OrderInv, OrderB
      <3>6. QED BY <1>5, <3>2, <3>4, <3>5, Bounds
    <2>13. QED BY <2>10, <2>11, <2>12
  <1>11. QED BY <1>7, <1>8, <1>9, <1>10 DEF Purpose

\* What a cleanup adds in place of its first action concerns that one's producer, or
\* others that were made later.
LEMMA WorkOrder ==
  ASSUME HeldInv, ParentInv, frames' \in Seq(Frame), NEW n \in 1..Depth, NEW d, NEW x,
         Works(n, d, x), NEW l \in 1..Len(x), x[l].do # "close"
  PROVE  \E q \in Producer, do \in {"producer", "scope"} :
           /\ Acts(n, 1, Act(do, q)) /\ d = 1
           /\ x[l].on \in Producer /\ q <= x[l].on
  <1>1. ShapeInv BY DEF HeldInv
  <1>2. CASE Begins(n, d, x)
    <2>1. PICK q \in Producer :
            /\ Beginning /\ n = Depth /\ d = 1
            /\ frames[n].actions[1] = Act("producer", q)
            /\ x \in {<<Act("second", q), Act("check", q), Act("scope", q), Act("finish", q)>>,
                      <<Act("scope", q), Act("finish", q)>>}
      BY <1>2 DEF Begins
    <2>3. Running /\ Top \in CleanupFrames /\ Top.actions # <<>>
      BY <1>1, <2>1, BeginningStands
    <2>4. Acts(n, 1, Act("producer", q)) BY <1>1, <2>1, <2>3, TopActs, TopIs
    <2>5. x[l].on = q
      <3>1. \E do : x[l] = Act(do, q) BY <2>1
      <3>2. QED BY <3>1 DEF Act
    <2>6. QED BY <2>1, <2>4, <2>5, Bounds DEF Producer
  <1>3. CASE Scopes(n, d, x)
    <2>1. PICK q \in Producer :
            /\ Scoping /\ n = Depth /\ d = 1
            /\ frames[n].actions[1] = Act("scope", q)
            /\ Closes(x, {r \in Producer : Active(r) /\ parent[r] = q},
                         {r \in live : resources[r] = q})
      BY <1>3 DEF Scopes
    <2>2. Running /\ Top \in CleanupFrames /\ Top.actions # <<>>
      BY <1>1, <2>1, ScopingStands
    <2>3. Acts(n, 1, Act("scope", q)) BY <1>1, <2>1, <2>2, TopActs, TopIs
    <2>4. \A keys : Act("close", keys).do = "close" BY DEF Act
    <2>5. x[l].on \in {r \in Producer : Active(r) /\ parent[r] = q}
      BY <2>1, <2>4 DEF Closes
    <2>6. PICK r \in Producer : r = x[l].on /\ Active(r) /\ parent[r] = q BY <2>5
    <2>7. q < r BY <2>6 DEF ParentInv, Active
    <2>8. QED BY <2>1, <2>3, <2>6, <2>7, Bounds DEF Producer
  <1>4. CASE x = <<>>
    BY <1>4
  <1>5. QED BY <1>2, <1>3, <1>4 DEF Works, Finishes, Passes

LEMMA OrderAStep ==
  ASSUME HeldInv, OrderInv, [Next]_vars
  PROVE  OrderA'
  <1>1. ShapeInv /\ frames' \in Seq(Frame) /\ ActsNat /\ ActsNat'
    BY StepIs, HeldStep, ActsIs, ActsNext DEF HeldInv, ActsNat
  <1>2. SUFFICES ASSUME NEW p \in Producer, NEW j, NEW k, NEW i, NEW l, NEW a,
                        Acts(j, k, Act("finish", p))', Acts(i, l, a)', a.do # "close",
                        j < i \/ (j = i /\ l < k)
                 PROVE  p <= a.on
    BY DEF OrderA, Act
  <1> DEFINE b == Act("finish", p)
  <1>3. Acts(j, k, b)' BY <1>2 DEF Act
  <1>4. b.do = "finish" /\ b.on = p BY DEF Act
  <1>5. \A do, q : do # "finish" => Act(do, q) # b BY DEF Act
  <1>6. j \in Nat /\ k \in Nat /\ i \in Nat /\ l \in Nat BY <1>1, <1>2, <1>3 DEF ActsNat
  <1>7. \A k1, i1, l1, a1 :
          /\ Acts(j, k1, b) /\ Acts(i1, l1, a1) /\ a1.do # "close"
          /\ j < i1 \/ (j = i1 /\ l1 < k1)
          => p <= a1.on
    BY DEF OrderInv, OrderA
  <1>b. b = Act("finish", p) OBVIOUS
  <1> HIDE DEF b
  <1>8. CASE frames' = frames /\ (Produce \/ Open \/ UNCHANGED vars)
    <2>1. Acts(j, k, b) /\ Acts(i, l, a) BY <1>2, <1>3, <1>8, AloneIs
    <2>2. QED BY <1>2, <1>7, <2>1
  <1>9. CASE frames' = <<>>
    BY <1>3, <1>9 DEF Acts
  <1>10. ASSUME NEW n \in 1..Depth, Quieting(n)
         PROVE  p <= a.on
    <2>1. Acts(j, k, b) /\ j \in 1..n
      <3>1. Acts(j, k, b) \/ (\E q, do : do # "finish" /\ b = Act(do, q))
        BY <1>1, <1>3, <1>10, QuietActs
      <3>2. Acts(j, k, b) BY <1>5, <3>1
      <3>3. QED BY <1>1, <1>10, <3>2, QuietActs
    <2>2. CASE Acts(i, l, a)
      BY <1>2, <1>7, <2>1, <2>2
    <2>3. CASE ~Acts(i, l, a)
      <3>1. PICK S \in SUBSET Producer, keys \in SUBSET live :
              /\ Purpose(n, S, keys)
              /\ (\E q \in S : a = Act("producer", q)) \/ a = Act("close", keys)
        BY <1>1, <1>2, <1>10, <2>3, QuietActs
      <3>2. PICK q \in S : a = Act("producer", q) BY <1>2, <3>1 DEF Act
      <3>3. a.on = q /\ q \in Producer BY <3>2 DEF Act
      <3>4. Depth \in Nat BY <1>1, LenProperties DEF Depth, ShapeInv, TypeInv
      <3>5. j <= n BY <2>1, <3>4
      <3>6. p <= q BY <1>b, <2>1, <3>1, <3>3, <3>5, PurposeOrder
      <3>7. QED BY <3>3, <3>6
    <2>4. QED BY <2>2, <2>3
  <1>11. ASSUME NEW n \in 1..Depth, NEW d, NEW x, Works(n, d, x)
         PROVE  p <= a.on
    <2>1. Working(n, d, x) /\ d \in Nat /\ x \in Seq(Actions) BY <1>11 DEF Works
    <2>2. PICK h \in Nat : h = Len(x) BY <2>1, LenProperties
    <2>3. Depth \in Nat BY <1>1, LenProperties DEF Depth, ShapeInv, TypeInv
    <2>4. n \in Nat BY <2>3
    <2>5. \A i1, k1, a1 : Acts(i1, k1, a1)' =>
            \/ i1 \in 1..n - 1 /\ Acts(i1, k1, a1)
            \/ i1 = n /\ k1 \in 1..h /\ x[k1] = a1
            \/ i1 = n /\ k1 > h /\ Acts(i1, k1 - h + d, a1)
      BY <1>1, <2>1, <2>2, WorkMoves
    <2>6. \/ j \in 1..n - 1 /\ Acts(j, k, b)
          \/ j = n /\ k \in 1..h /\ x[k] = b
          \/ j = n /\ k > h /\ Acts(j, k - h + d, b)
      BY <1>3, <2>5
    <2>7. \/ i \in 1..n - 1 /\ Acts(i, l, a)
          \/ i = n /\ l \in 1..h /\ x[l] = a
          \/ i = n /\ l > h /\ Acts(i, l - h + d, a)
      BY <1>2, <2>5
    \* It was there already ...
    <2>8. ASSUME NEW k1, Acts(j, k1, b), NEW l1, Acts(i, l1, a), j < i \/ l1 < k1
          PROVE  p <= a.on
      BY <1>2, <1>7, <2>8
    \* ... or stands for the first action.
    <2>9. ASSUME l \in 1..h, x[l] = a, i = n, NEW k1, Acts(j, k1, b), j < n \/ d < k1
          PROVE  p <= a.on
      <3>1. PICK q \in Producer, do \in {"producer", "scope"} :
               Acts(n, 1, Act(do, q)) /\ d = 1 /\ a.on \in Producer /\ q <= a.on
        BY <1>1, <1>2, <1>11, <2>2, <2>9, WorkOrder DEF OrderInv
      <3>2. Act(do, q).do # "close" /\ Act(do, q).on = q BY DEF Act
      <3>3. j <= n
        <4>1. QED BY <1>2, <1>6, <2>4, <2>9
      <3>4. j < n \/ (j = n /\ 1 < k1) BY <1>6, <2>4, <2>9, <3>1, <3>3
      <3>5. p <= q BY <1>7, <2>9, <3>1, <3>2, <3>4
      <3>6. QED BY <3>1, <3>5, Bounds DEF Producer
    <2>10. CASE j \in 1..n - 1 /\ Acts(j, k, b)
      <3>1. j < n BY <2>4, <2>10
      <3>2. CASE i \in 1..n - 1 /\ Acts(i, l, a)
        BY <1>2, <1>7, <2>10, <3>2
      <3>3. CASE i = n /\ l \in 1..h /\ x[l] = a
        BY <2>9, <2>10, <3>1, <3>3
      <3>4. CASE i = n /\ l > h /\ Acts(i, l - h + d, a)
        BY <2>8, <2>10, <3>1, <3>4
      <3>5. QED BY <2>7, <3>2, <3>3, <3>4
    <2>11. CASE j = n /\ k > h /\ Acts(j, k - h + d, b)
      <3>1. i \notin 1..n - 1 BY <1>2, <1>6, <2>4, <2>11
      <3>2. CASE i = n /\ l \in 1..h /\ x[l] = a
        <4>1. d < k - h + d BY <1>6, <2>1, <2>2, <2>11
        <4>2. QED BY <2>9, <2>11, <3>2, <4>1
      <3>3. CASE i = n /\ l > h /\ Acts(i, l - h + d, a)
        <4>1. l - h + d < k - h + d BY <1>2, <1>6, <2>1, <2>2, <2>4, <2>11, <3>3
        <4>2. QED BY <2>8, <2>11, <3>3, <4>1
      <3>4. QED BY <2>7, <3>1, <3>2, <3>3
    <2>12. CASE j = n /\ k \in 1..h /\ x[k] = b
      <3>1. i = n /\ l < k BY <1>2, <1>6, <2>3, <2>4, <2>7, <2>12
      <3>2. l \in 1..h /\ x[l] = a BY <1>6, <2>7, <2>12, <3>1
      <3>3. CASE Begins(n, d, x)
        <4>1. PICK q \in Producer :
                x \in {<<Act("second", q), Act("check", q), Act("scope", q), Act("finish", q)>>,
                       <<Act("scope", q), Act("finish", q)>>}
          BY <3>3 DEF Begins
        <4>2. \E do1, do2 : x[l] = Act(do1, q) /\ x[k] = Act(do2, q)
          BY <2>2, <2>12, <3>2, <4>1
        <4>3. a.on = q /\ b.on = q BY <2>12, <3>2, <4>2 DEF Act
        <4>4. QED BY <1>4, <4>3, Bounds DEF Producer
      <3>4. CASE Scopes(n, d, x)
        <4>1. PICK S, keys : Closes(x, S, keys) BY <3>4 DEF Scopes
        <4>2. x[k].do = "producer" \/ x[k] = Act("close", keys) BY <2>2, <2>12, <4>1 DEF Closes
        <4>3. x[k].do \in {"producer", "close"} BY <4>2 DEF Act
        <4>4. QED BY <1>4, <2>12, <4>3
      <3>5. CASE x = <<>>
        BY <2>2, <2>12, <3>5
      <3>6. QED BY <1>11, <3>3, <3>4, <3>5 DEF Works, Finishes, Passes
    <2>13. QED BY <2>6, <2>10, <2>11, <2>12
  <1>12. QED BY <1>1, <1>8, <1>9, <1>10, <1>11, StepActs

\* A body that a step leaves, or finds.
LEMMA BodiesStep ==
  ASSUME ShapeInv, frames' \in Seq(Frame), [Next]_vars,
         NEW i \in 1..Len(frames'), frames'[i].kind = "body"
  PROVE  \/ i \in 1..Depth /\ frames[i].kind = "body" /\ frames'[i].made = frames[i].made
         \/ frames'[i].made = Constructed
  <1>1. Depth = Len(frames) /\ Depth \in Nat
    BY LenProperties DEF Depth, ShapeInv, TypeInv
  <1>2. ASSUME NEW n \in 1..Depth, Stands(n), i # n + 1
        PROVE  i \in 1..Depth /\ frames[i].kind = "body" /\ frames'[i].made = frames[i].made
    <2>1. Len(frames') \in {n, n + 1} BY <1>2 DEF Stands
    <2>2. i \in 1..n /\ i \in 1..Depth BY <1>1, <1>2, <2>1
    <2>3. Heir(frames[i], frames'[i]) BY <1>2, <2>2 DEF Stands
    <2>4. QED BY <2>2, <2>3 DEF Heir
  <1>3. CASE frames' = frames
    BY <1>1, <1>3
  <1>4. CASE frames' = <<>>
    BY <1>4
  <1>5. CASE Consuming
    <2>1. /\ Running /\ Stands(Depth) /\ Len(frames') = Depth + 1
          /\ frames'[Depth + 1] \in TaskFrames
      BY <1>5, ConsumingStands
    <2>2. i # Depth + 1 BY <2>1, TaskFields
    <2>3. Depth \in 1..Depth BY <2>1, TopIs
    <2>4. QED BY <1>2, <2>1, <2>2, <2>3
  <1>6. CASE Joining
    <2> DEFINE m == Depth - 1
    <2>1. Depth > 1 /\ Stands(m) /\ Len(frames') = m BY <1>6, JoiningStands
    <2>2. m \in 1..Depth BY <2>1 DEF Stands
    <2>3. i # m + 1 BY <1>1, <2>1
    <2> HIDE DEF m
    <2>4. QED BY <1>2, <2>1, <2>2, <2>3
  <1>7. ASSUME NEW n \in 1..Depth, Settled(n)
        PROVE  \/ i \in 1..Depth /\ frames[i].kind = "body" /\ frames'[i].made = frames[i].made
               \/ frames'[i].made = Constructed
    <2>1. Stands(n) /\ Len(frames') \in {n, n + 1} BY <1>7 DEF Settled, Stands
    <2>2. i = n + 1 => Len(frames') = n + 1 BY <1>1, <2>1
    <2>3. i = n + 1 => frames'[i].made = Constructed BY <1>7, <2>2 DEF Settled
    <2>4. QED BY <1>2, <2>1, <2>3
  <1>8. QED BY <1>3, <1>4, <1>5, <1>6, <1>7, StepSettles

LEMMA OrderBStep ==
  ASSUME HeldInv, OrderInv, ParentInv', OrderA', [Next]_vars
  PROVE  OrderB'
  <1>1. ShapeInv /\ frames' \in Seq(Frame) /\ ActsNat /\ ActsNat' /\ HeldInv'
    BY StepIs, HeldStep, ActsIs, ActsNext DEF HeldInv, ActsNat
  <1>2. SUFFICES ASSUME NEW p \in Producer, NEW j, NEW k, Acts(j, k, Act("finish", p))',
                        NEW i \in 1..Len(frames'), j < i, frames'[i].kind # "cleanup"
                 PROVE  /\ p <= frames'[i].owner
                        /\ frames'[i].kind = "body" => p <= frames'[i].made
    BY DEF OrderB, Act, Depth
  <1> DEFINE b == Act("finish", p)
  <1>3. Acts(j, k, b)' BY <1>2 DEF Act
  <1>4. j \in Nat /\ k \in Nat /\ Depth \in Nat /\ Depth = Len(frames)
    BY <1>1, <1>3, LenProperties DEF ActsNat, Depth, ShapeInv, TypeInv
  <1>5. /\ (\E l : Acts(j, l, b)) \/ (Active(p) /\ j = Depth)
        /\ phase[p] # "none"
    <2>1. (\E l : Acts(j, l, b)) \/ (Active(p) /\ j = Depth) BY <1>1, <1>2, FinishFrom
    <2>2. phase[p] # "none" BY <1>1, <2>1, FinishMade DEF HeldInv, Active
    <2>3. QED BY <2>1, <2>2
  \* What stood above it stands there still ...
  <1>6. ASSUME i \in 1..Depth, frames[i].kind # "cleanup"
        PROVE  /\ p <= frames[i].owner
               /\ frames[i].kind = "body" => p <= frames[i].made
    <2>1. \E l : Acts(j, l, b) BY <1>2, <1>4, <1>5, <1>6
    <2>2. QED BY <1>2, <1>6, <2>1 DEF OrderInv, OrderB
  <1>7. frames'[i].kind = "body" => p <= frames'[i].made
    <2>1. p <= Constructed BY <1>1, <1>5, CountMade DEF HeldInv
    <2>2. QED BY <1>1, <1>2, <1>6, <2>1, BodiesStep
  <1>8. CASE frames' = frames
    BY <1>2, <1>4, <1>6, <1>7, <1>8
  <1>9. CASE frames' = <<>>
    BY <1>3, <1>9 DEF Acts
  <1>10. ASSUME NEW n \in 1..Depth, Stands(n), i # n + 1
         PROVE  p <= frames'[i].owner
    <2>1. Len(frames') \in {n, n + 1} BY <1>10 DEF Stands
    <2>2. i \in 1..n /\ i \in 1..Depth BY <1>2, <1>4, <1>10, <2>1
    <2>3. frames[i].kind \in {"body", "task", "cleanup"}
      <3>1. frames[i] \in Frame BY <1>1, <1>4, <2>2, ElementOfSeq DEF ShapeInv, TypeInv
      <3>2. QED BY <3>1, FrameKinds
    <2>4. frames'[i].kind = frames[i].kind /\ frames'[i].owner = frames[i].owner
      BY <1>2, <1>10, <2>2, <2>3, Former
    <2>5. QED BY <1>2, <1>6, <2>2, <2>4
  \* ... and what is new belongs to the scope below it, or to a producer made later.
  <1>11. frames'[i] \in Frame /\ i \in 2..Len(frames') /\ Above(frames'[i - 1], frames'[i])
    <2>1. i # 1 /\ i \in 2..Len(frames')
      <3>1. j \in 1..Len(frames') BY <1>3 DEF Acts
      <3>2. QED BY <1>2, <1>4, <3>1
    <2>2. QED BY <1>1, <2>1, ElementOfSeq DEF HeldInv, ShapeInv, Stacked
  <1>12. ASSUME NEW n \in 1..Depth, Quieting(n), i = n + 1
         PROVE  p <= frames'[i].owner
    <2>1. Stands(n) /\ n \in Nat BY <1>4, <1>12 DEF Quieting, Quiet
    <2>2. Acts(j, k, b) /\ j \in 1..n
      <3>1. \A do, q : do # "finish" => Act(do, q) # b BY DEF Act
      <3>2. Acts(j, k, b) \/ (\E q, do : do # "finish" /\ b = Act(do, q))
        BY <1>1, <1>3, <1>12, QuietActs
      <3>3. QED BY <1>1, <1>12, <3>1, <3>2, QuietActs
    <2>3. Inherits(n, frames'[i]) \/ Demands(n, frames'[i])
      <3>1. Len(frames') = n + 1 BY <1>12, <2>1 DEF Stands
      <3>2. QED BY <1>2, <1>12, <3>1 DEF Quieting, Entered
    <2>4. ASSUME frames[n].kind # "cleanup"
          PROVE  p <= frames[n].owner
      <3>1. j < n BY <2>1, <2>2, <2>4 DEF Acts
      <3>2. QED BY <2>2, <2>4, <3>1 DEF OrderInv, OrderB
    <2>5. CASE Inherits(n, frames'[i])
      BY <2>4, <2>5 DEF Inherits
    <2>6. CASE Demands(n, frames'[i])
      <3>1. PICK q \in Producer : q = frames'[i].of /\ q = frames'[i].owner
        BY <2>6 DEF Demands
      <3>2. frames'[n].kind = "task" /\ q = frames'[n].from /\ frames'[n].at \in {"acquire", "step"}
        BY <1>11, <1>12, <2>1, <2>6, <3>1 DEF Demands, Above
      <3>3. frames'[n] \in TaskFrames
        <4>1. n \in 1..Len(frames') BY <1>2, <1>12, <2>1
        <4>2. frames'[n] \in Frame BY <1>1, <4>1, ElementOfSeq
        <4>3. QED BY <3>2, <4>2, FrameKinds
      <3>4. q \in frames'[n].graph BY <3>2, <3>3, TaskFields
      <3>5. phase'[q] # "none" /\ parent'[q] = frames'[n].owner
        <4>1. n \in 1..Depth' BY <1>2, <1>12, <2>1 DEF Depth
        <4>2. QED BY <1>1, <3>2, <3>4, <4>1 DEF HeldInv, GraphInv
      <3>6. parent'[q] < q BY <3>5 DEF ParentInv
      <3>7. n \in 1..n BY <2>1, <1>4
      <3>8. frames[n].kind = "task" /\ frames'[n].owner = frames[n].owner
        BY <2>1, <3>2, <3>7, Former
      <3>9. p <= parent'[q] BY <2>4, <3>5, <3>8
      <3>10. parent'[q] \in Int
        <4>1. frames'[n].owner \in Scope BY <3>3, TaskFields
        <4>2. QED BY <3>5, <4>1, Bounds DEF Scope
      <3>11. QED BY <3>1, <3>6, <3>9, <3>10, Bounds DEF Producer
    <2>7. QED BY <2>3, <2>5, <2>6
  <1>13. ASSUME NEW n \in 1..Depth, NEW d, NEW x, Works(n, d, x), i = n + 1
         PROVE  p <= frames'[i].owner
    <2>1. /\ Len(frames') = n + 1 /\ frames'[n] \in CleanupFrames /\ n \in Nat
          /\ frames'[i].kind = "body" /\ frames'[i].job \in {"release", "reason"}
      BY <1>2, <1>4, <1>13 DEF Works, Working, Stands
    <2>2. frames'[i] \in Bodies BY <1>11, <2>1, FrameKinds
    <2>3. PICK q \in Producer : q = frames'[i].of /\ q = frames'[i].owner
      BY <2>1, <2>2, BodyFields DEF Callbacks
    <2>4. /\ frames'[n].actions # <<>>
          /\ \E do \in {"second", "check"} : frames'[n].actions[1] = Act(do, q)
      BY <1>11, <1>13, <2>1, <2>3 DEF Above
    <2>5. PICK do \in {"second", "check"} : frames'[n].actions[1] = Act(do, q) BY <2>4
    <2>6. Acts(n, 1, Act(do, q))'
      <3>1. frames'[n].kind = "cleanup" /\ frames'[n].actions \in Seq(Actions)
        BY <2>1, CleanupFields
      <3>2. 1 \in 1..Len(frames'[n].actions) BY <2>4, <3>1, EmptySeq
      <3>3. n \in 1..Len(frames') BY <1>2, <1>13, <2>1
      <3>4. QED BY <2>5, <3>1, <3>2, <3>3 DEF Acts, Act
    <2>7. Act(do, q).do # "close" /\ Act(do, q).on = q /\ Act(do, q) # b BY DEF Act
    <2>8. k # 1 \/ j # n BY <2>5, <2>7, <1>3 DEF Acts
    <2>9. k >= 1 BY <1>3, <1>4 DEF Acts
    <2>10. j < n \/ (j = n /\ 1 < k) BY <1>2, <1>4, <1>13, <2>1, <2>8, <2>9
    <2>11. p <= Act(do, q).on
      <3>1. PICK c : c = Act(do, q) OBVIOUS
      <3>2. Acts(n, 1, c)' BY <2>6, <3>1
      <3>3. QED BY <1>2, <2>7, <2>10, <3>1, <3>2 DEF OrderA
    <2>12. QED BY <2>3, <2>7, <2>11
  <1>14. p <= frames'[i].owner
    <2>1. ASSUME NEW n \in 1..Depth, Quieting(n) PROVE p <= frames'[i].owner
      BY <1>10, <1>12, <2>1 DEF Quieting, Quiet
    <2>2. ASSUME NEW n \in 1..Depth, NEW d, NEW x, Works(n, d, x) PROVE p <= frames'[i].owner
      BY <1>10, <1>13, <2>2 DEF Works, Working
    <2>3. QED BY <1>1, <1>8, <1>9, <2>1, <2>2, StepActs
  <1>15. QED BY <1>7, <1>14

-----------------------------------------------------------------------------
(* What consumers do with the producers of their graphs.                   *)

\* The inner producer is another one than the outer, and is not there during a transform;
\* only fold_until applies a fold step, and a consumer that just closes asks for nothing.
Demand(f) ==
  /\ f.inner # 0 => f.inner # f.outer
  /\ f.at = "transform" => f.inner = 0
  /\ f.at = "fold" => f.consumer = "until"
  /\ f.consumer = "close" => f.at \in {"settle", "done"}
DemandInv == \A i \in 1..Depth : frames[i].kind = "task" => Demand(frames[i])

\* The producers that a consumer is still to close itself.
Keeps(f) == IF f.at = "done" THEN {} ELSE Owned(f)
\* It starts with all of its graph, keeps what joins the graph, and gives up S only.
Starts(f) == Demand(f) /\ f.graph \subseteq Keeps(f)
Turns(h, f, S) ==
  /\ f.kind = "task" /\ f.consumer = h.consumer /\ Demand(f)
  /\ f.consumer # "until" =>
       f.graph \subseteq h.graph \cup Keeps(f) /\ Keeps(h) \subseteq Keeps(f) \cup S
TasksGo ==
  \A i \in 1..Len(frames') : frames'[i].kind = "task" =>
    \/ Starts(frames'[i])
    \/ /\ i \in 1..Depth /\ frames[i].kind = "task"
       /\ \E S : /\ Turns(frames[i], frames'[i], S)
                 /\ \A p \in S : \E k : Acts(i + 1, k, Act("producer", p))'

LEMMA TaskGoes ==
  ASSUME ShapeInv, DemandInv, NEW n \in 1..Depth, Same(n), Len(frames') \in {n, n + 1},
         NEW S, frames'[n].kind = "task" =>
                  /\ frames[n].kind = "task" /\ Turns(frames[n], frames'[n], S)
                  /\ \A p \in S : \E k : Acts(n + 1, k, Act("producer", p))',
         Len(frames') = n + 1 /\ frames'[n + 1].kind = "task" => Starts(frames'[n + 1])
  PROVE  TasksGo
  <1>1. Depth \in Nat /\ n \in Nat BY LenProperties DEF Depth, ShapeInv, TypeInv
  <1>2. SUFFICES ASSUME NEW i \in 1..Len(frames'), frames'[i].kind = "task"
                 PROVE  \/ Starts(frames'[i])
                        \/ /\ i \in 1..Depth /\ frames[i].kind = "task"
                           /\ \E T : /\ Turns(frames[i], frames'[i], T)
                                     /\ \A p \in T : \E k : Acts(i + 1, k, Act("producer", p))'
    BY DEF TasksGo
  <1>3. i \in 1..n - 1 \/ i = n \/ (i = n + 1 /\ Len(frames') = n + 1) BY <1>1
  <1>4. CASE i \in 1..n - 1
    <2>1. i \in 1..Depth /\ frames'[i] = frames[i] BY <1>1, <1>4 DEF Same
    <2>2. Turns(frames[i], frames'[i], {}) BY <1>2, <2>1 DEF DemandInv, Turns
    <2>3. QED BY <1>2, <2>1, <2>2
  <1>5. CASE i = n
    BY <1>2, <1>5
  <1>6. CASE i = n + 1 /\ Len(frames') = n + 1
    BY <1>2, <1>6
  <1>7. QED BY <1>3, <1>4, <1>5, <1>6

\* No consumer but the one at n moves, if it does.
LEMMA TasksKept ==
  ASSUME ShapeInv, DemandInv, NEW n \in 1..Depth, Same(n), Len(frames') \in {n, n + 1},
         frames'[n] = frames[n] \/ frames'[n].kind # "task",
         Len(frames') = n + 1 => frames'[n + 1].kind # "task"
  PROVE  TasksGo
  <1>1. PICK S : S = {} OBVIOUS
  <1>2. frames'[n].kind = "task" => frames[n].kind = "task" /\ Turns(frames[n], frames'[n], S)
    BY DEF DemandInv, Turns
  <1>3. \A p \in S : \E k : Acts(n + 1, k, Act("producer", p))' BY <1>1
  <1>4. n + 1 # n BY LenProperties DEF Depth, ShapeInv, TypeInv
  <1>5. QED BY <1>2, <1>3, <1>4, TaskGoes

\* The one at m does: what it gives up, the cleanup on top of it closes.
LEMMA TaskMoves ==
  ASSUME ShapeInv, DemandInv, NEW m \in 1..Depth, frames[m].kind = "task",
         NEW f, NEW S, Turns(frames[m], f, S),
         \/ Rebased(frames, frames', m, f) /\ S = {}
         \/ \E g : /\ Grown(frames, frames', m, f, g)
                   /\ \/ S = {} /\ g.kind # "task"
                      \/ g \in CleanupFrames /\ \E keys : Closes(g.actions, S, keys)
  PROVE  TasksGo
  <1>1. CASE Rebased(frames, frames', m, f) /\ S = {}
    <2>1. Len(frames') = m /\ frames'[m] = f /\ Same(m) BY <1>1 DEF Rebased, Same
    <2>2. \A p \in S : \E k : Acts(m + 1, k, Act("producer", p))' BY <1>1
    <2>3. m + 1 # m BY LenProperties DEF Depth, ShapeInv, TypeInv
    <2>4. QED BY <2>1, <2>2, <2>3, TaskGoes
  <1>2. ASSUME NEW g, Grown(frames, frames', m, f, g),
               \/ S = {} /\ g.kind # "task"
               \/ g \in CleanupFrames /\ \E keys : Closes(g.actions, S, keys)
        PROVE  TasksGo
    <2>1. Len(frames') = m + 1 /\ frames'[m] = f /\ frames'[m + 1] = g /\ Same(m)
      BY <1>2 DEF Grown, Same
    <2>2. Depth \in Nat /\ m + 1 \in 1..m + 1 BY LenProperties DEF Depth, ShapeInv, TypeInv
    <2>3. \A p \in S : \E k : Acts(m + 1, k, Act("producer", p))'
      <3>1. CASE S = {}
        BY <3>1
      <3>2. ASSUME g \in CleanupFrames, NEW keys, Closes(g.actions, S, keys),
                   NEW p \in S
            PROVE  \E k : Acts(m + 1, k, Act("producer", p))'
        <4>1. PICK k \in 1..Len(g.actions) : g.actions[k] = Act("producer", p)
          BY <3>2 DEF Closes
        <4>2. g.kind = "cleanup" BY <3>2, CleanupFields
        <4>3. Acts(m + 1, k, Act("producer", p))' BY <2>1, <2>2, <4>1, <4>2 DEF Acts, Act
        <4>4. QED BY <4>3
      <3>3. QED BY <1>2, <3>1, <3>2
    <2>4. g.kind # "task" BY <1>2, CleanupFields
    <2>5. QED BY <2>1, <2>3, <2>4, TaskGoes
  <1>3. QED BY <1>1, <1>2

\* A consumer at another stage ...
LEMMA AtTurns ==
  ASSUME NEW h \in TaskFrames, Demand(h), h.at \notin {"settle", "done"}, NEW from,
         NEW at, at # "done", at = "transform" => h.inner = 0,
         at = "fold" => h.consumer = "until"
  PROVE  Turns(h, Asks(h, from, at), {}) /\ Turns(h, At(h, at), {})
  <1>1. /\ h \in [kind : {"task"}, owner : Scope, consumer : Consumers, flat : BOOLEAN,
                  outer : Scope, inner : Scope, from : Scope, owned : SUBSET Producer,
                  graph : SUBSET Producer, at : Stages]
    BY DEF TaskFrames
  <1>2. h.consumer # "close" BY DEF Demand
  <1> DEFINE f == Asks(h, from, at)
             g == At(h, at)
  <1>3. /\ f.kind = "task" /\ f.consumer = h.consumer /\ f.inner = h.inner /\ f.outer = h.outer
        /\ f.owned = h.owned /\ f.graph = h.graph /\ f.at = at
    BY <1>1 DEF Asks
  <1>4. /\ g.kind = "task" /\ g.consumer = h.consumer /\ g.inner = h.inner /\ g.outer = h.outer
        /\ g.owned = h.owned /\ g.graph = h.graph /\ g.at = at
    BY <1>1 DEF At
  <1> HIDE DEF f, g
  <1>5. Demand(f) /\ Demand(g) BY <1>2, <1>3, <1>4 DEF Demand
  <1>6. Keeps(f) = Owned(h) /\ Keeps(g) = Owned(h) /\ Keeps(h) = Owned(h)
    BY <1>3, <1>4 DEF Keeps, Owned
  <1>7. Turns(h, f, {}) /\ Turns(h, g, {}) BY <1>3, <1>4, <1>5, <1>6 DEF Turns
  <1>8. QED BY <1>7 DEF f, g

\* ... that has enough, whose inner stream ends, or that is through with its source.
LEMMA EndTurns ==
  ASSUME NEW h \in TaskFrames, Demand(h)
  PROVE  /\ h.at = "fold" => Turns(h, [h EXCEPT !.at = "settle", !.outer = 0, !.inner = 0], {})
         /\ h.at = "exhausted" => Turns(h, [h EXCEPT !.at = "pull", !.inner = 0], {h.inner})
         /\ h.at = "settle" => Turns(h, [h EXCEPT !.at = "done", !.owned = {}], Owned(h))
  <1>1. /\ h \in [kind : {"task"}, owner : Scope, consumer : Consumers, flat : BOOLEAN,
                  outer : Scope, inner : Scope, from : Scope, owned : SUBSET Producer,
                  graph : SUBSET Producer, at : Stages]
    BY DEF TaskFrames
  <1> DEFINE a == [h EXCEPT !.at = "settle", !.outer = 0, !.inner = 0]
             b == [h EXCEPT !.at = "pull", !.inner = 0]
             c == [h EXCEPT !.at = "done", !.owned = {}]
  <1>2. /\ a.kind = "task" /\ a.consumer = h.consumer /\ a.inner = 0 /\ a.at = "settle"
        /\ b.kind = "task" /\ b.consumer = h.consumer /\ b.inner = 0 /\ b.at = "pull"
        /\ b.outer = h.outer /\ b.owned = h.owned /\ b.graph = h.graph
        /\ c.kind = "task" /\ c.consumer = h.consumer /\ c.inner = h.inner /\ c.at = "done"
        /\ c.outer = h.outer /\ c.graph = h.graph
    BY <1>1
  <1> HIDE DEF a, b, c
  <1>3. h.at = "fold" => Turns(h, a, {}) BY <1>2 DEF Turns, Demand
  <1>4. ASSUME h.at = "exhausted"
        PROVE  Turns(h, b, {h.inner})
    <2>1. Demand(b) BY <1>2, <1>4 DEF Demand
    <2>2. Keeps(h) \subseteq Keeps(b) \cup {h.inner} BY <1>2, <1>4 DEF Keeps, Owned
    <2>3. QED BY <1>2, <2>1, <2>2 DEF Turns
  <1>5. ASSUME h.at = "settle"
        PROVE  Turns(h, c, Owned(h))
    <2>1. Demand(c) BY <1>2 DEF Demand
    <2>2. QED BY <1>2, <1>5, <2>1 DEF Turns, Keeps
  <1>6. QED BY <1>3, <1>4, <1>5 DEF a, b, c

\* A stream joins the graph.
LEMMA JoinTurns ==
  ASSUME NEW h \in TaskFrames, Demand(h), h.at = "transform", h.outer # 0,
         NEW q \in Producer, q \notin h.graph
  PROVE  Turns(h, [h EXCEPT !.at = "pull", !.inner = q, !.graph = @ \cup {q}], {})
  <1>1. /\ h \in [kind : {"task"}, owner : Scope, consumer : Consumers, flat : BOOLEAN,
                  outer : Scope, inner : Scope, from : Scope, owned : SUBSET Producer,
                  graph : SUBSET Producer, at : Stages]
        /\ {h.outer, h.inner} \subseteq h.graph \cup {0}
    BY DEF TaskFrames
  <1>2. h.inner = 0 /\ h.consumer # "close" /\ q # h.outer /\ q # 0
    BY <1>1, Bounds DEF Demand, Producer
  <1> DEFINE f == [h EXCEPT !.at = "pull", !.inner = q, !.graph = @ \cup {q}]
  <1>3. /\ f.kind = "task" /\ f.consumer = h.consumer /\ f.inner = q /\ f.outer = h.outer
        /\ f.owned = h.owned /\ f.graph = h.graph \cup {q} /\ f.at = "pull"
    BY <1>1
  <1> HIDE DEF f
  <1>4. Demand(f) BY <1>2, <1>3 DEF Demand
  <1>5. q \in Keeps(f) /\ Keeps(h) \subseteq Keeps(f) BY <1>2, <1>3 DEF Keeps, Owned
  <1>6. Turns(h, f, {}) BY <1>3, <1>4, <1>5 DEF Turns
  <1>7. QED BY <1>6 DEF f

\* The consumer on top, or the one that a callback answers, moves.
LEMMA PullGoes ==
  ASSUME ShapeInv, DemandInv, Pull
  PROVE  TasksGo
  <1> DEFINE p == Demanded(Top)
             f(at) == Asks(Top, p, at)
  <1>1. PICK n \in Nat \ {0, 1} :
           /\ n = Depth /\ Top = frames[n] /\ Top \in TaskFrames /\ Top.at = "pull"
           /\ \A h \in Frame : Replaced(h) \in Seq(Frame) /\ Rebased(frames, Replaced(h), n, h)
           /\ \A h, c \in Frame : Grown(frames, Replaced(h) \o <<c>>, n, h, c)
    BY TopTask DEF Pull, Stages
  <1>2. Top.outer # 0 /\ p \in Producer /\ p \in Scope /\ p # 0
    BY <1>1, TaskFields, Bounds DEF Producer, Scope
  <1>3. \A at : At([Top EXCEPT !.from = p], at) = f(at) BY DEF At, Asks
  <1>4. \/ \E job \in {"acquire", "step"} : frames' = Replaced(f(job)) \o <<Body(job, p, p)>>
        \/ frames' = Replaced(f("exhausted"))
    <2>1. \/ \E job \in {"acquire", "step"} :
               frames' = Replaced(At([Top EXCEPT !.from = p], job)) \o <<Body(job, p, p)>>
          \/ frames' = Replaced(At([Top EXCEPT !.from = p], "exhausted"))
      <3> HIDE DEF f
      <3>1. p = IF Top.inner = 0 THEN Top.outer ELSE Top.inner BY DEF Demanded
      <3> HIDE DEF p
      <3>2. QED BY <3>1 DEF Pull
    <2> HIDE DEF p, f
    <2>2. QED BY <1>3, <2>1, Zenon
  <1>5. PICK at \in {"acquire", "step", "exhausted"} :
          \/ at # "exhausted" /\ frames' = Replaced(f(at)) \o <<Body(at, p, p)>>
          \/ frames' = Replaced(f(at))
    BY <1>4
  <1> HIDE DEF p
  <1>6. f(at) \in TaskFrames /\ f(at) \in Frame
    <2>1. at \in Stages /\ p = Demanded(Top) BY DEF Stages, p
    <2>2. f(at) \in TaskFrames BY <1>1, <1>2, <2>1, AtIs
    <2>3. QED BY <2>2, KindFrames
  <1>7. Demand(Top) /\ Top.kind = "task" BY <1>1, TaskFields DEF DemandInv
  <1>8. Turns(Top, f(at), {}) BY <1>1, <1>7, AtTurns
  <1>9. n \in 1..Depth BY <1>1
  <1>10. CASE at # "exhausted" /\ frames' = Replaced(f(at)) \o <<Body(at, p, p)>>
    <2> DEFINE g == Body(at, p, p)
    <2>1. at \in Jobs BY <1>10 DEF Jobs
    <2>2. g \in Bodies BY <1>2, <2>1, EntersIs DEF ShapeInv
    <2>3. frames' = Replaced(f(at)) \o <<g>> BY <1>10
    <2> HIDE DEF g
    <2>4. g \in Frame /\ g.kind # "task" BY <2>2, KindFrames
    <2>5. Grown(frames, frames', n, f(at), g) BY <1>1, <1>6, <2>3, <2>4
    <2>6. QED BY <1>1, <1>7, <1>8, <1>9, <2>4, <2>5, TaskMoves
  <1>11. CASE frames' = Replaced(f(at))
    <2>1. Rebased(frames, frames', n, f(at)) BY <1>1, <1>6, <1>11
    <2>2. QED BY <1>1, <1>7, <1>8, <1>9, <2>1, TaskMoves
  <1>12. QED BY <1>5, <1>10, <1>11

LEMMA ConsumesGoes ==
  ASSUME ShapeInv, DemandInv, Consumes
  PROVE  TasksGo
  <1>1. PICK n \in Nat \ {0, 1} :
           /\ n = Depth /\ Top = frames[n] /\ Top \in TaskFrames /\ Top.at = "consume"
           /\ \A h \in Frame : Replaced(h) \in Seq(Frame) /\ Rebased(frames, Replaced(h), n, h)
           /\ \A h, c \in Frame : Grown(frames, Replaced(h) \o <<c>>, n, h, c)
    BY TopTask DEF Consumes, Stages
  <1>2. n \in 1..Depth /\ Demand(Top) /\ Top.kind = "task" /\ Top.outer # 0
        /\ Top.consumer \in Consumers /\ Top.owner \in Scope
    BY <1>1, TaskFields DEF DemandInv
  <1>3. \/ frames' = Replaced(At(Top, "pull"))
        \/ frames' = Replaced(At(Top, "settle"))
        \/ /\ frames' = Replaced(At(Top, "fold")) \o <<Body("fold", 0, Top.owner)>>
           /\ Top.consumer = "until"
    <2>1. Top.consumer \in {"collect", "cut", "until"}
      BY <1>1, <1>2, BoundsNatural DEF Demand
    <2>2. QED BY <2>1 DEF Consumes
  <1>4. \A at \in {"pull", "settle", "fold"} : At(Top, at) \in TaskFrames /\ At(Top, at) \in Frame
    BY <1>1, <1>2, StageIs, KindFrames
  <1>5. ASSUME NEW at \in {"pull", "settle"}, frames' = Replaced(At(Top, at))
        PROVE  TasksGo
    <2>1. Turns(Top, At(Top, at), {}) BY <1>1, <1>2, AtTurns
    <2>2. Rebased(frames, frames', n, At(Top, at)) BY <1>1, <1>4, <1>5
    <2>3. QED BY <1>1, <1>2, <2>1, <2>2, TaskMoves
  <1>6. CASE /\ frames' = Replaced(At(Top, "fold")) \o <<Body("fold", 0, Top.owner)>>
             /\ Top.consumer = "until"
    <2> DEFINE g == Body("fold", 0, Top.owner)
               f == At(Top, "fold")
    <2>1. 0 \in Scope /\ "fold" \in Jobs /\ "fold" \notin Callbacks
      BY Bounds DEF Scope, Jobs, Callbacks
    <2>2. g \in Frame /\ g.kind # "task"
      <3>1. g \in Bodies BY <1>2, <2>1, EntersIs DEF ShapeInv
      <3> HIDE DEF g
      <3>2. QED BY <3>1, KindFrames
    <2>3. f \in Frame /\ frames' = Replaced(f) \o <<g>> BY <1>4, <1>6
    <2>4. Turns(Top, f, {}) BY <1>1, <1>2, <1>6, AtTurns
    <2> HIDE DEF f, g
    <2>5. Grown(frames, frames', n, f, g) BY <1>1, <2>2, <2>3
    <2>6. QED BY <1>1, <1>2, <2>2, <2>4, <2>5, TaskMoves
  <1>7. QED BY <1>3, <1>5, <1>6

LEMMA SourceEndsGoes ==
  ASSUME ShapeInv, DemandInv, SourceEnds
  PROVE  TasksGo
  <1>1. PICK n \in Nat \ {0, 1} :
           /\ n = Depth /\ Top = frames[n] /\ Top \in TaskFrames /\ Top.at = "exhausted"
           /\ \A h \in Frame : Replaced(h) \in Seq(Frame) /\ Rebased(frames, Replaced(h), n, h)
           /\ \A h, c \in Frame : Grown(frames, Replaced(h) \o <<c>>, n, h, c)
    BY TopTask DEF SourceEnds, Stages
  <1>2. n \in 1..Depth /\ Demand(Top) /\ Top.kind = "task" /\ Top.outer # 0
        /\ Top.from \in Producer
    BY <1>1, TaskFields DEF DemandInv
  <1>3. CASE Top.from = Top.inner
    <2> DEFINE f == [Top EXCEPT !.at = "pull", !.inner = 0]
               g == Cleanup(<<Top.inner>>, {}, "cutoff", "resume", None)
    <2>1. f \in Frame BY <1>1, <1>2, SettledIs, KindFrames
    <2>2. "cutoff" \in Reason /\ Top.inner \in Producer BY <1>2, <1>3 DEF Reason
    <2>3. g \in CleanupFrames /\ g \in Frame /\ Closes(g.actions, {Top.inner}, {})
      BY <2>2, CleanupOfOne
    <2>4. frames' = Replaced(f) \o <<g>> BY <1>3 DEF SourceEnds
    <2>5. Turns(Top, f, {Top.inner}) BY <1>1, <1>2, EndTurns
    <2> HIDE DEF f, g
    <2>6. Grown(frames, frames', n, f, g) BY <1>1, <2>1, <2>3, <2>4
    <2>7. QED BY <1>1, <1>2, <2>3, <2>5, <2>6, TaskMoves
  <1>4. CASE Top.from # Top.inner
    <2>1. frames' = Replaced(At(Top, "settle")) BY <1>4 DEF SourceEnds
    <2>2. At(Top, "settle") \in Frame BY <1>1, <1>2, StageIs, KindFrames
    <2>3. Turns(Top, At(Top, "settle"), {}) BY <1>1, <1>2, AtTurns
    <2>4. Rebased(frames, frames', n, At(Top, "settle")) BY <1>1, <2>1, <2>2
    <2>5. QED BY <1>1, <1>2, <2>3, <2>4, TaskMoves
  <1>5. QED BY <1>3, <1>4

LEMMA SettleGoes ==
  ASSUME ShapeInv, DemandInv, Settle
  PROVE  TasksGo
  <1> DEFINE f == [Top EXCEPT !.at = "done", !.owned = {}]
             why == IF Top.consumer = "close" THEN "closed" ELSE "cutoff"
             list == Harvested(Top)
             S == Owned(Top)
             place == Reached(Top)
             g == Cleanup(list, {}, why, "resume", None)
  <1>1. PICK n \in Nat \ {0, 1} :
           /\ n = Depth /\ Top = frames[n] /\ Top \in TaskFrames /\ Top.at = "settle"
           /\ \A h, c \in Frame : Grown(frames, Replaced(h) \o <<c>>, n, h, c)
    BY TopTask DEF Settle, Stages
  <1>2. n \in 1..Depth /\ Demand(Top) /\ Top.kind = "task"
        /\ S \subseteq Producer /\ place \in [Producer -> 0..1]
    BY <1>1, TaskFields DEF DemandInv
  <1>3. frames' = Replaced(f) \o <<g>> BY DEF Settle
  <1>4. f \in Frame BY <1>1, SettledIs, KindFrames
  <1>5. Turns(Top, f, S) BY <1>1, <1>2, EndTurns
  <1>6. why \in Reason /\ list = InOrder(S, place) BY DEF Reason, Harvested
  <1> HIDE DEF f, why, list, S, place
  <1>7. place \in [Producer -> Int] BY <1>2
  <1>8. Lists(list, S) BY <1>2, <1>6, <1>7, OrderLists
  <1>9. {} \in Keys /\ None \in Causes BY ErrorIs, Bounds DEF Keys, Causes
  <1>10. "resume" \in {"resume", "boundary", "unwind"} OBVIOUS
  <1>11. g \in CleanupFrames /\ Closes(g.actions, S, {})
    BY <1>6, <1>8, <1>9, <1>10, CleanupIs
  <1>12. g \in Frame BY <1>11, KindFrames
  <1> HIDE DEF g
  <1>13. Grown(frames, frames', n, f, g) BY <1>1, <1>3, <1>4, <1>12
  <1>14. QED BY <1>1, <1>2, <1>5, <1>11, <1>13, TaskMoves

\* A callback answers its consumer, which goes on to another stage.
LEMMA AnswerGoes ==
  ASSUME ShapeInv, DemandInv, NEW job \in {"acquire", "step", "transform", "fold"}, Answers(job),
         NEW at \in {"pull", "consume", "exhausted", "transform"},
         at = "transform" => Caller.inner = 0, At(Caller, at) \in Frame,
         \/ frames' = Answered(At(Caller, at))
         \/ \E g \in Frame : frames' = Answered(At(Caller, at)) \o <<g>> /\ g.kind # "task"
  PROVE  TasksGo
  <1>1. PICK n \in Nat \ {0, 1} :
           /\ n = Depth /\ Caller = frames[n - 1] /\ Caller \in TaskFrames /\ Caller.at = job
           /\ \A f \in Frame : Rebased(frames, Answered(f), n - 1, f)
           /\ \A f, g \in Frame : Grown(frames, Answered(f) \o <<g>>, n - 1, f, g)
    BY AnsweredTask
  <1>2. PICK m \in 1..Depth : m = n - 1 BY <1>1
  <1>3. Demand(Caller) /\ Caller.kind = "task" BY <1>1, <1>2, TaskFields DEF DemandInv
  <1>4. Turns(Caller, At(Caller, at), {}) BY <1>1, <1>3, AtTurns
  <1>5. CASE frames' = Answered(At(Caller, at))
    <2>1. Rebased(frames, frames', m, At(Caller, at)) BY <1>1, <1>2, <1>5
    <2>2. QED BY <1>1, <1>2, <1>3, <1>4, <2>1, TaskMoves
  <1>6. ASSUME NEW g \in Frame, frames' = Answered(At(Caller, at)) \o <<g>>, g.kind # "task"
        PROVE  TasksGo
    <2>1. Grown(frames, frames', m, At(Caller, at), g) BY <1>1, <1>2, <1>6
    <2>2. QED BY <1>1, <1>2, <1>3, <1>4, <1>6, <2>1, TaskMoves
  <1>7. QED BY <1>5, <1>6

LEMMA AnswersGo ==
  ASSUME ShapeInv, DemandInv, Acquired \/ Yielded \/ Exhausted \/ Listed \/ Continued
  PROVE  TasksGo
  <1>1. PICK job \in {"acquire", "step", "transform", "fold"} :
          /\ Answers(job)
          /\ Acquired => job = "acquire"
          /\ Yielded \/ Exhausted => job = "step"
    BY DEF Acquired, Yielded, Exhausted, Listed, Continued, Answers
  <1>2. /\ Caller \in TaskFrames /\ Caller.at = job /\ Caller.outer # 0 /\ Caller.owner \in Scope
        /\ job = "step" => Top.of \in Producer /\ Caller.from = Demanded(Caller)
        /\ Demand(Caller)
    <2>1. PICK n \in Nat \ {0, 1} :
             /\ n = Depth /\ Caller = frames[n - 1] /\ Caller \in TaskFrames
             /\ Caller.at = job /\ Caller.outer # 0
             /\ job \in {"acquire", "step"} => Top.of \in Producer
      BY <1>1, AnsweredTask
    <2>2. n - 1 \in 1..Depth BY <2>1
    <2>3. QED BY <2>1, <2>2, TaskFields DEF DemandInv
  <1>3. \A at \in {"pull", "consume", "transform"} : At(Caller, at) \in Frame
    BY <1>2, StageIs, KindFrames
  <1>4. CASE Acquired
    BY <1>1, <1>3, <1>4, AnswerGoes DEF Acquired
  <1>5. CASE Listed
    BY <1>1, <1>3, <1>5, AnswerGoes DEF Listed
  <1>6. CASE Continued
    BY <1>1, <1>3, <1>6, AnswerGoes DEF Continued
  <1>7. CASE Yielded
    <2>1. CASE frames' = Answered(At(Caller, "consume"))
      BY <1>1, <1>3, <2>1, AnswerGoes
    <2>2. CASE /\ frames' = Answered(At(Caller, "transform"))
                              \o <<Body("transform", 0, Caller.owner)>>
               /\ Caller.from = Caller.outer
      <3>1. 0 \in Scope /\ "transform" \in Jobs /\ "transform" \notin Callbacks
        BY Bounds DEF Scope, Jobs, Callbacks
      <3> DEFINE g == Body("transform", 0, Caller.owner)
      <3>2. g \in Bodies BY <1>2, <3>1, EntersIs DEF ShapeInv
      <3>3. Caller.inner = 0 BY <1>1, <1>2, <1>7, <2>2 DEF Demanded, Demand
      <3>4. frames' = Answered(At(Caller, "transform")) \o <<g>> BY <2>2
      <3> HIDE DEF g
      <3>5. g \in Frame /\ g.kind # "task" BY <3>2, KindFrames
      <3>6. QED BY <1>1, <1>3, <1>7, <3>3, <3>4, <3>5, AnswerGoes
    <2>3. QED BY <1>7, <2>1, <2>2 DEF Yielded
  <1>8. CASE Exhausted
    <2> DEFINE g == Cleanup(<<Top.of>>, {}, "exhausted", "resume", None)
    <2>1. Answers("step") /\ frames' = Answered(At(Caller, "exhausted")) \o <<g>>
      BY <1>8 DEF Exhausted
    <2>2. "exhausted" \in Reason BY DEF Reason
    <2>3. g \in Frame /\ g.kind # "task"
      <3>1. g \in CleanupFrames /\ g \in Frame BY <1>1, <1>2, <1>8, <2>2, CleanupOfOne
      <3>2. QED BY <3>1, KindFrames
    <2>4. At(Caller, "exhausted") \in Frame
      <3>1. Caller \in [kind : {"task"}, owner : Scope, consumer : Consumers, flat : BOOLEAN,
                        outer : Scope, inner : Scope, from : Scope, owned : SUBSET Producer,
                        graph : SUBSET Producer, at : Stages]
        BY <1>2 DEF TaskFrames
      <3>2. PICK h \in [kind : {"task"}, owner : Scope, consumer : Consumers, flat : BOOLEAN,
                        outer : Scope, inner : Scope, from : Scope, owned : SUBSET Producer,
                        graph : SUBSET Producer, at : Stages] : h = Caller
        BY <3>1
      <3>3. [h EXCEPT !.at = "exhausted"] = [h EXCEPT !.from = h.from, !.at = "exhausted"]
        OBVIOUS
      <3>4. At(Caller, "exhausted") = Asks(Caller, Caller.from, "exhausted")
        BY <3>2, <3>3 DEF At, Asks
      <3>5. Caller.from \in Scope /\ "exhausted" \in Stages BY <1>2, TaskFields DEF Stages
      <3>6. Asks(Caller, Caller.from, "exhausted") \in TaskFrames
        BY <1>1, <1>2, <1>8, <3>5, AtIs
      <3>7. QED BY <3>4, <3>6, KindFrames
    <2> HIDE DEF g
    <2>5. QED BY <2>1, <2>3, <2>4, AnswerGoes
  <1>9. QED BY <1>4, <1>5, <1>6, <1>7, <1>8

LEMMA OpenedGoes ==
  ASSUME HeldInv, DemandInv, Opened
  PROVE  TasksGo
  <1>1. ShapeInv /\ Answers("transform") BY DEF HeldInv, Opened
  <1>2. PICK n \in Nat \ {0, 1} :
           /\ n = Depth /\ Caller = frames[n - 1] /\ Caller \in TaskFrames
           /\ Caller.at = "transform" /\ Caller.outer # 0
           /\ \A f \in Frame : /\ Answered(f) \in Seq(Frame)
                               /\ Rebased(frames, Answered(f), n - 1, f)
    BY <1>1, AnsweredTask
  <1>3. PICK q \in Producer :
          /\ token[q] /\ token' = [token EXCEPT ![q] = FALSE]
          /\ frames' = Answered([Caller EXCEPT !.at = "pull", !.inner = q,
                                               !.graph = @ \cup {q}])
    BY DEF Opened
  <1> DEFINE f == [Caller EXCEPT !.at = "pull", !.inner = q, !.graph = @ \cup {q}]
  <1>4. PICK m \in 1..Depth : m = n - 1 BY <1>2
  <1>5. Demand(Caller) /\ Caller.kind = "task" BY <1>2, <1>4, TaskFields DEF DemandInv
  <1>6. q \notin Caller.graph BY <1>2, <1>3, <1>4, <1>5 DEF HeldInv, GraphInv
  <1>7. Turns(Caller, f, {}) BY <1>2, <1>5, <1>6, JoinTurns
  <1>8. f \in Frame
    <2>1. /\ Caller \in [kind : {"task"}, owner : Scope, consumer : Consumers, flat : BOOLEAN,
                         outer : Scope, inner : Scope, from : Scope, owned : SUBSET Producer,
                         graph : SUBSET Producer, at : Stages]
          /\ Caller.owned \subseteq Caller.graph
          /\ {Caller.outer, Caller.inner} \subseteq Caller.graph \cup {0}
      BY <1>2 DEF TaskFrames
    <2>2. q \in Scope BY Bounds DEF Producer, Scope
    <2>3. /\ f \in [kind : {"task"}, owner : Scope, consumer : Consumers, flat : BOOLEAN,
                    outer : Scope, inner : Scope, from : Scope, owned : SUBSET Producer,
                    graph : SUBSET Producer, at : Stages]
          /\ f.graph = Caller.graph \cup {q} /\ f.inner = q
          /\ f.outer = Caller.outer /\ f.owned = Caller.owned /\ f.at = "pull"
      BY <2>1, <2>2 DEF Stages
    <2> HIDE DEF f
    <2>4. f \in TaskFrames BY <1>2, <2>1, <2>3 DEF TaskFrames
    <2>5. QED BY <2>4, KindFrames
  <1>9. frames' = Answered(f) BY <1>3
  <1> HIDE DEF f
  <1>10. Rebased(frames, frames', m, f) BY <1>2, <1>4, <1>8, <1>9
  <1>11. QED BY <1>1, <1>2, <1>4, <1>5, <1>7, <1>10, TaskMoves

LEMMA StoppedGoes ==
  ASSUME ShapeInv, DemandInv, Stopped
  PROVE  TasksGo
  <1> DEFINE f == [Caller EXCEPT !.at = "settle", !.outer = 0, !.inner = 0]
  <1>1. Answers("fold") /\ frames' = Answered(f) BY DEF Stopped
  <1>2. PICK n \in Nat \ {0, 1} :
           /\ n = Depth /\ Caller = frames[n - 1] /\ Caller \in TaskFrames
           /\ Caller.at = "fold"
           /\ \A h \in Frame : Rebased(frames, Answered(h), n - 1, h)
    BY <1>1, AnsweredTask
  <1>3. PICK m \in 1..Depth : m = n - 1 BY <1>2
  <1>4. Demand(Caller) /\ Caller.kind = "task" BY <1>2, <1>3, TaskFields DEF DemandInv
  <1>5. Turns(Caller, f, {}) BY <1>2, <1>4, EndTurns
  <1>6. f \in Frame BY <1>2, SettledIs, KindFrames
  <1> HIDE DEF f
  <1>7. Rebased(frames, frames', m, f) BY <1>1, <1>2, <1>3, <1>6
  <1>8. QED BY <1>2, <1>3, <1>4, <1>5, <1>7, TaskMoves

LEMMA TaskStarts ==
  ASSUME NEW p \in Producer, NEW flat \in Flat, NEW consumer \in Consumers, NEW owner \in Scope
  PROVE  Starts(Task(p, flat, consumer, owner))
  <1> DEFINE at == IF consumer = "close" THEN "settle" ELSE "pull"
             f == Task(p, flat, consumer, owner)
  <1>1. /\ f.consumer = consumer /\ f.outer = p /\ f.inner = 0 /\ f.at = at
        /\ f.owned = {p} /\ f.graph = {p}
    BY DEF Task
  <1>2. at \in {"settle", "pull"} /\ (consumer = "close" => at = "settle") OBVIOUS
  <1> HIDE DEF at, f
  <1>3. p # 0 BY Bounds DEF Producer
  <1>4. Demand(f) BY <1>1, <1>2 DEF Demand
  <1>5. f.graph \subseteq Keeps(f) BY <1>1, <1>2, <1>3 DEF Keeps, Owned
  <1>6. Starts(f) BY <1>4, <1>5 DEF Starts
  <1>7. QED BY <1>6 DEF f

LEMMA ConsumeGoes ==
  ASSUME ShapeInv, DemandInv, Consume
  PROVE  TasksGo
  <1>1. Running /\ Top.kind = "body" BY DEF Consume, Coding, OnTop
  <1>2. PICK p \in Producer, consumer \in Consumers, flat \in Flat :
          frames' = Pushed(Task(p, flat, consumer, Top.owner))
    BY DEF Consume
  <1>3. PICK n \in Nat \ {0} :
           /\ n = Depth /\ Top \in Frame
           /\ \A h \in Frame : Pushed(h) \in Seq(Frame) /\ Grown(frames, Pushed(h), n, Top, h)
    BY <1>1, OnStack
  <1>4. Top.owner \in Scope BY <1>1, <1>3, OwnerFields
  <1> DEFINE g == Task(p, flat, consumer, Top.owner)
  <1>5. g \in TaskFrames /\ Starts(g) BY <1>4, TaskIs, TaskStarts
  <1>6. frames' = Pushed(g) BY <1>2
  <1> HIDE DEF g
  <1>7. g \in Frame BY <1>5, KindFrames
  <1>8. Grown(frames, frames', n, Top, g) BY <1>3, <1>6, <1>7
  <1>9. /\ Len(frames') = n + 1 /\ frames'[n] = Top /\ frames'[n + 1] = g /\ Same(n)
        /\ n \in 1..Depth
    BY <1>3, <1>8 DEF Grown, Same
  <1>10. PICK S : S = {} OBVIOUS
  <1>11. QED BY <1>1, <1>5, <1>9, <1>10, TaskGoes

\* No consumer moves while cleanup goes on, or the stack fails.
LEMMA CleanupGoes ==
  ASSUME ShapeInv, DemandInv, [Next]_vars,
         \/ Beginning \/ Reasoning \/ Scoping \/ Finishing \/ Passing \/ Failed \/ Interrupting
  PROVE  TasksGo
  <1>1. frames' \in Seq(Frame) /\ errors' \in 0..MaxTroubles BY StepIs, Counted
  <1>2. Depth = Len(frames) /\ Depth \in Nat BY LenProperties DEF Depth, ShapeInv, TypeInv
  <1>3. Running => Top = frames[Depth] /\ Depth \in 1..Depth BY TopIs
  <1>4. ASSUME Running, Stands(Depth), Same(Depth), Top \in CleanupFrames,
               \/ Len(frames') = Depth
               \/ Len(frames') = Depth + 1 /\ frames'[Depth + 1] \in Bodies
        PROVE  TasksGo
    <2>1. Heir(Top, frames'[Depth]) BY <1>3, <1>4 DEF Stands
    <2>2. frames'[Depth].kind # "task" BY <1>4, <2>1, CleanupFields DEF Heir
    <2>3. Len(frames') = Depth + 1 => frames'[Depth + 1].kind # "task"
      BY <1>2, <1>4, BodyFields
    <2>4. Len(frames') \in {Depth, Depth + 1} BY <1>4
    <2>5. QED BY <1>3, <1>4, <2>2, <2>3, <2>4, TasksKept
  <1>5. CASE Beginning BY <1>1, <1>4, <1>5, BeginningStands
  <1>6. CASE Reasoning BY <1>1, <1>4, <1>6, ReasoningStands
  <1>7. CASE Scoping BY <1>1, <1>4, <1>7, ScopingStands
  <1>8. CASE Finishing BY <1>1, <1>4, <1>8, FinishingStands
  <1>9. CASE Passing BY <1>1, <1>4, <1>9, PassingStands
  <1>10. CASE Failed
    <2>1. CASE Deferring
      <3>1. PICK n \in 1..Depth, d \in 0..2 : Working(n, d, <<>>) /\ Len(frames') = n
        BY <2>1, DeferringWorks
      <3>2. Stands(n) /\ Same(n) /\ frames'[n].kind # "task"
        BY <3>1, CleanupFields DEF Working
      <3>3. Len(frames') # n + 1 BY <1>2, <3>1
      <3>4. QED BY <3>1, <3>2, <3>3, TasksKept
    <2>2. CASE Unwinding
      <3>1. PICK m, error, fs : Origin(m, fs, error) /\ Unwound(fs, error)
        BY <2>2 DEF Unwinding
      <3>2. /\ Stands(m) /\ Len(frames') = m + 1 /\ Same(m)
            /\ frames'[m] = frames[m]
            /\ frames'[m + 1] \in CleanupFrames
        BY <3>1, UnwoundStands
      <3>3. frames'[m + 1].kind # "task" /\ m \in 1..Depth BY <3>2, CleanupFields DEF Stands
      <3>4. QED BY <3>2, <3>3, TasksKept
    <2>3. CASE Returning
      <3>1. PICK m, error, fs : Origin(m, fs, error) /\ Returned(fs, error)
        BY <2>3 DEF Returning
      <3> DEFINE n == Checkpoint(fs, Aborts(error)) - 1
      <3>2. Stands(n) /\ Len(frames') = n /\ Same(n) /\ frames'[n] = frames[n]
        BY <3>1, ReturnedStands
      <3> HIDE DEF n
      <3>3. n \in 1..Depth BY <3>2 DEF Stands
      <3>4. Len(frames') # n + 1 BY <1>2, <3>2, <3>3
      <3>5. QED BY <3>2, <3>3, <3>4, TasksKept
    <2>4. CASE Quitting
      <3>1. frames' = <<>> BY <2>4 DEF Quitting, GivenUp
      <3>2. QED BY <3>1 DEF TasksGo
    <2>5. QED BY <1>10, <2>1, <2>2, <2>3, <2>4, FailedKinds
  <1>11. CASE Interrupting
    <2>1. /\ Stands(Depth) /\ Len(frames') = Depth
          /\ \E i \in Cleanups(frames), kind \in {"cancel", "exit"} :
               /\ i \in 1..Depth /\ frames[i] \in CleanupFrames
               /\ \A j \in 1..Depth : j # i => frames'[j] = frames[j]
      BY <1>1, <1>11, InterruptingStands
    <2>2. SUFFICES ASSUME NEW i \in 1..Len(frames'), frames'[i].kind = "task"
                   PROVE  /\ i \in 1..Depth /\ frames[i].kind = "task"
                          /\ Turns(frames[i], frames'[i], {})
      BY DEF TasksGo
    <2>3. i \in 1..Depth /\ Heir(frames[i], frames'[i]) BY <2>1, <2>2 DEF Stands
    <2>4. frames[i].kind = "task" BY <2>2, <2>3 DEF Heir
    <2>5. frames'[i] = frames[i] BY <2>1, <2>3, <2>4, CleanupFields
    <2>6. QED BY <2>3, <2>4, <2>5 DEF DemandInv, Turns
  <1>12. QED BY <1>5, <1>6, <1>7, <1>8, <1>9, <1>10, <1>11

\* Nor when a frame returns, or the code in a body goes on.
LEMMA BelowGoes ==
  ASSUME ShapeInv, DemandInv, Running, frames' = Below(frames), ~Bottom(Top)
  PROVE  TasksGo
  <1>1. PICK n \in Nat \ {0} :
           /\ n = Depth /\ (n = 1 => Bottom(Top))
           /\ n > 1 => /\ Caller = frames[n - 1]
                       /\ Rebased(frames, Below(frames), n - 1, Caller)
    BY OnStack
  <1>2. PICK m \in 1..Depth : m = n - 1 BY <1>1
  <1>3. Rebased(frames, frames', m, Caller) /\ Caller = frames[m] BY <1>1, <1>2
  <1>4. Len(frames') = m /\ frames'[m] = frames[m] /\ Same(m) BY <1>3 DEF Rebased, Same
  <1>5. Len(frames') # m + 1 BY <1>1, <1>2, <1>4
  <1>6. QED BY <1>4, <1>5, TasksKept

LEMMA BodyGoes ==
  ASSUME ShapeInv, DemandInv, StatementEnds \/ Attempt \/ Boundary
  PROVE  TasksGo
  <1>1. Running /\ Top.kind = "body"
    BY DEF StatementEnds, Attempt, Boundary, Coding, OnTop
  <1>2. Top = frames[Depth] /\ Depth \in 1..Depth /\ Depth \in Nat BY <1>1, TopIs
  <1>3. ASSUME Stands(Depth), Same(Depth),
               Len(frames') = Depth + 1 => frames'[Depth + 1].kind # "task"
        PROVE  TasksGo
    <2>1. Len(frames') \in {Depth, Depth + 1} /\ Heir(Top, frames'[Depth])
      BY <1>2, <1>3 DEF Stands
    <2>2. frames'[Depth].kind # "task" BY <1>1, <2>1 DEF Heir
    <2>3. QED BY <1>2, <1>3, <2>1, <2>2, TasksKept
  <1>4. CASE StatementEnds
    <2>1. PICK f : f = [Top EXCEPT !.job = "ended"] OBVIOUS
    <2>2. frames' = Replaced(f) /\ Top.job = "entry" BY <1>4, <2>1 DEF StatementEnds
    <2>3. Top \in Bodies BY <1>1, TopIs, FrameKinds
    <2>4. f \in Bodies BY <2>1, <2>2, <2>3 DEF Bodies, Callbacks, Jobs
    <2>5. f \in Frame /\ f.kind = "body" BY <2>4, KindFrames
    <2>6. Rebased(frames, frames', Depth, f) BY <1>1, <2>2, <2>5, OnStack
    <2>7. Len(frames') = Depth /\ frames'[Depth] = f /\ Same(Depth)
      BY <2>6 DEF Rebased, Same
    <2>8. Len(frames') # Depth + 1 BY <1>2, <2>7
    <2>9. QED BY <1>2, <2>5, <2>7, <2>8, TasksKept
  <1>5. CASE Attempt
    <2>1. /\ Stands(Depth) /\ Same(Depth) /\ frames'[Depth + 1] \in Bodies
      BY <1>5, AttemptIs, CallingStands
    <2>2. QED BY <1>3, <2>1, BodyFields
  <1>6. CASE Boundary
    <2>1. (Shutting \/ Ending) /\ frames' \in Seq(Frame) BY <1>6, BoundaryIs
    <2>2. CASE Shutting
      <3>1. /\ Stands(Depth) /\ Same(Depth) /\ frames'[Depth + 1] \in CleanupFrames
        BY <2>1, <2>2, ShuttingStands
      <3>2. QED BY <1>3, <3>1, CleanupFields
    <2>3. CASE Ending
      <3>1. frames' = <<>> BY <2>3 DEF Ending
      <3>2. QED BY <3>1 DEF TasksGo
    <2>4. QED BY <2>1, <2>2, <2>3
  <1>7. QED BY <1>4, <1>5, <1>6

LEMMA TasksStep ==
  ASSUME HeldInv, DemandInv, [Next]_vars
  PROVE  TasksGo
  <1>1. ShapeInv BY DEF HeldInv
  <1>2. CASE frames' = frames
    <2>1. SUFFICES ASSUME NEW i \in 1..Len(frames'), frames'[i].kind = "task"
                   PROVE  /\ i \in 1..Depth /\ frames[i].kind = "task"
                          /\ Turns(frames[i], frames'[i], {})
      BY DEF TasksGo
    <2>2. i \in 1..Depth /\ frames[i].kind = "task" BY <1>2, <2>1 DEF Depth
    <2>3. QED BY <1>2, <2>2 DEF DemandInv, Turns
  <1>3. CASE Produce \/ Open \/ UNCHANGED vars \/ Finished
    BY <1>2, <1>3 DEF Produce, Open, vars, Finished
  <1>4. CASE Raise \/ UnconsumedStream \/ TaskRaises
    <2>1. Running /\ Top.kind # "cleanup" /\ Raises(frames)
          /\ UNCHANGED <<phase, parent, items, opening, stops, releases>>
      BY <1>4 DEF Raise, UnconsumedStream, TaskRaises, Coding, OnTop, Stage
    <2>2. QED BY <1>1, <2>1, RaiseIs, CleanupGoes
  <1>5. CASE AttemptReturns \/ Done \/ Released
    <2>1. Running /\ frames' = Below(frames) /\ ~Bottom(Top)
      BY <1>5 DEF AttemptReturns, Done, Released, Coding, Stage, Answers, OnTop, Bottom
    <2>2. QED BY <1>1, <2>1, BelowGoes
  <1>6. CASE StatementEnds \/ Attempt \/ Boundary BY <1>1, <1>6, BodyGoes
  <1>7. CASE Consume BY <1>1, <1>7, ConsumeGoes
  <1>8. CASE Pull BY <1>1, <1>8, PullGoes
  <1>9. CASE Acquired \/ Yielded \/ Exhausted \/ Listed \/ Continued BY <1>1, <1>9, AnswersGo
  <1>10. CASE Opened BY <1>10, OpenedGoes
  <1>11. CASE SourceEnds BY <1>1, <1>11, SourceEndsGoes
  <1>12. CASE Consumes BY <1>1, <1>12, ConsumesGoes
  <1>13. CASE Stopped BY <1>1, <1>13, StoppedGoes
  <1>14. CASE Settle BY <1>1, <1>14, SettleGoes
  <1>15. CASE CloseProducer \/ ApplyReason \/ CheckUnit \/ CloseScope \/ CloseKeys \/ Finish
    BY <1>1, <1>15, CleanupGoes, CloseProducerIs, ApplyReasonIs, CheckUnitIs, CloseScopeIs,
       CloseKeysIs, FinishIs
  <1>16. CASE CleanupEnds
    <2>1. (Minor /\ frames' = Below(frames)) \/ Failed BY <1>1, <1>16, CleanupEndsIs
    <2>2. Running /\ ~Bottom(Top) BY <1>16 DEF CleanupEnds, OnTop, Bottom
    <2>3. QED BY <1>1, <2>1, <2>2, BelowGoes, CleanupGoes
  <1>17. CASE Stops BY <1>1, <1>17, StopIs, CleanupGoes DEF Stops
  <1>18. QED
    BY <1>3, <1>4, <1>5, <1>6, <1>7, <1>8, <1>9, <1>10, <1>11, <1>12, <1>13, <1>14, <1>15,
       <1>16, <1>17 DEF Next, Coded, Consumed, Cleaned

LEMMA DemandStep ==
  ASSUME TasksGo
  PROVE  DemandInv'
  <1>1. \A i \in 1..Len(frames') : frames'[i].kind = "task" => Demand(frames'[i])
    BY DEF TasksGo, Starts, Turns
  <1>2. QED BY <1>1 DEF DemandInv, Depth, Demand

-----------------------------------------------------------------------------
(* What consumers give up is closed.                                       *)

LEMMA ClosedStays ==
  ASSUME HeldInv, [Next]_vars, NEW p \in Producer, phase[p] = "closed"
  PROVE  phase'[p] = "closed"
  <1>1. ShapeInv /\ Kinds BY StepIs DEF HeldInv
  <1>2. phase \in [Producer -> Phases] BY <1>1 DEF ShapeInv, TypeInv, VarInv
  <1>3. ASSUME NEW q \in Producer, NEW x, phase' = [phase EXCEPT ![q] = x],
               phase[q] # "closed" \/ x = "closed"
        PROVE  phase'[p] = "closed"
    <2>1. CASE p = q BY <1>2, <1>3, <2>1
    <2>2. CASE p # q BY <1>2, <1>3, <2>2
    <2>3. QED BY <2>1, <2>2
  <1>4. CASE Produce
    BY <1>3, <1>4 DEF Produce
  <1>5. CASE \/ Open \/ UNCHANGED vars \/ Minor \/ Calling \/ Shutting \/ Ending \/ Consuming
             \/ Joining \/ Reasoning \/ Scoping \/ Passing \/ Failed \/ Interrupting
    <2>1. phase' = phase
      BY <1>5 DEF Open, vars, Minor, Calling, Still, Shutting, Ending, Consuming, Joining,
                  Reasoning, Scoping, Passing, Failed, Interrupting, producing
    <2>2. QED BY <2>1
  <1>6. CASE Entering
    <2>1. PICK q \in Top.graph : /\ phase[q] \in {"new", "ready"}
                                 /\ \/ phase' = [phase EXCEPT ![q] = "acquiring"]
                                    \/ phase' = [phase EXCEPT ![q] = "stepping"]
      BY <1>6 DEF Entering
    <2>2. q \in Producer BY <1>6, TaskFields DEF Entering
    <2>3. QED BY <1>3, <2>1, <2>2
  <1>7. CASE Answering
    <2>1. /\ Top \in Bodies /\ Top.job \in {"acquire", "step"} /\ Depth > 1
          /\ phase' = [phase EXCEPT ![Top.of] = "ready"]
      BY <1>7 DEF Answering
    <2>2. Running BY <2>1, EmptySeq DEF Running, Depth
    <2>3. Top.of \in Producer /\ phase[Top.of] # "closed" BY <2>1, <2>2, TopCallback
    <2>4. QED BY <1>3, <2>1, <2>3
  <1>8. CASE Beginning
    BY <1>3, <1>8 DEF Beginning, Releases, Discards
  <1>9. CASE Finishing
    BY <1>3, <1>9 DEF Finishing
  <1>10. QED BY <1>1, <1>4, <1>5, <1>6, <1>7, <1>8, <1>9 DEF Kinds

\* The cleanup at i is to close p, or is at it.
Mentions(i, p) ==
  \E k : Acts(i, k, Act("producer", p)) \/ Acts(i, k, Act("finish", p))
\* Whatever a consumer does not close itself is closed, or is being closed on top of it.
ServeInv ==
  \A i \in 1..Depth : frames[i].kind = "task" /\ frames[i].consumer # "until" =>
    \A p \in frames[i].graph :
      phase[p] = "closed" \/ p \in Keeps(frames[i]) \/ Mentions(i + 1, p)

LEMMA ActIs ==
  /\ \A do1, do2, x, y : Act(do1, x) = Act(do2, y) => do1 = do2 /\ x = y
  /\ \A do, x : Act(do, x).do = do /\ Act(do, x).on = x
  BY DEF Act

\* A producer that a cleanup on top of its consumer closes: the cleanup goes on to do
\* so until it is closed.  If another cleanup were at it, that would be above, since
\* the consumer's scope is still there.
LEMMA MentionsStep ==
  ASSUME HeldInv, OrderInv, [Next]_vars, NEW i \in 1..Depth, frames[i].kind = "task",
         NEW p \in frames[i].graph, p \in Producer, Mentions(i + 1, p)
  PROVE  phase'[p] = "closed" \/ Mentions(i + 1, p)'
  <1>1. ShapeInv /\ frames' \in Seq(Frame) /\ ActsNat BY StepIs, ActsIs DEF HeldInv, ActsNat
  <1>2. Depth \in Nat /\ i \in Nat BY <1>1, LenProperties DEF Depth, ShapeInv, TypeInv
  <1> DEFINE b == Act("producer", p)
             c == Act("finish", p)
  <1>3. PICK k, a : Acts(i + 1, k, a) /\ a \in {b, c} BY DEF Mentions
  <1>4. ASSUME NEW l, Acts(i + 1, l, b)' \/ Acts(i + 1, l, c)'
        PROVE  Mentions(i + 1, p)'
    BY <1>4 DEF Mentions, Act
  <1>5. /\ \A do, q : Act(do, q) \in {b, c} => do \in {"producer", "finish"} /\ q = p
        /\ b.do = "producer" /\ b.on = p /\ c.do = "finish" /\ c.on = p
        /\ b = Act("producer", p) /\ c = Act("finish", p)
    BY ActIs
  <1> HIDE DEF b, c
  <1>6. CASE frames' = frames /\ (Produce \/ Open \/ UNCHANGED vars)
    BY <1>3, <1>4, <1>6, AloneIs
  <1>7. CASE frames' = <<>> /\ (Ending \/ Quitting)
    BY <1>1, <1>3, <1>7, NothingCloses
  <1>8. ASSUME NEW n \in 1..Depth, Quieting(n)
        PROVE  Mentions(i + 1, p)'
    <2>1. Acts(i + 1, k, a)' BY <1>1, <1>3, <1>8, QuietActs
    <2>2. QED BY <1>3, <1>4, <2>1
  <1>9. ASSUME NEW n \in 1..Depth, NEW d, NEW x, Works(n, d, x)
        PROVE  phase'[p] = "closed" \/ Mentions(i + 1, p)'
    <2>1. Working(n, d, x) /\ d \in Nat /\ x \in Seq(Actions) BY <1>9 DEF Works
    <2>2. n \in Nat BY <1>2
    <2>3. \A i1, k1, a1 : Acts(i1, k1, a1) =>
            \/ i1 \in 1..n - 1 /\ Acts(i1, k1, a1)'
            \/ i1 = n /\ k1 \in 1..d /\ frames[n].actions[k1] = a1
            \/ i1 = n /\ k1 > d /\ Acts(i1, k1 - d + Len(x), a1)'
      BY <1>1, <2>1, WorkMoves
    <2>4. \/ \E l : Acts(i + 1, l, a)'
          \/ i + 1 = n /\ k \in 1..d /\ frames[n].actions[k] = a
      BY <1>3, <2>3
    <2>5. CASE \E l : Acts(i + 1, l, a)'
      BY <1>3, <1>4, <2>5
    <2>6. CASE i + 1 = n /\ k \in 1..d /\ frames[n].actions[k] = a
      <3>1. CASE Begins(n, d, x)
        <4>1. PICK q \in Producer :
                /\ d = 1 /\ frames[n].actions[1] = Act("producer", q)
                /\ x \in {<<Act("second", q), Act("check", q), Act("scope", q), Act("finish", q)>>,
                          <<Act("scope", q), Act("finish", q)>>}
          BY <3>1 DEF Begins
        <4>2. a = Act("producer", q) BY <2>6, <4>1
        <4>3. q = p BY <1>3, <1>5, <4>2
        <4>4. PICK l \in 1..Len(x) : x[l] = c BY <1>5, <4>1, <4>3
        <4>5. /\ frames'[n].kind = "cleanup" /\ frames'[n].actions \in Seq(Actions)
              /\ frames'[n].actions[l] = c /\ l \in 1..Len(frames'[n].actions)
          <5>1. frames'[n] \in CleanupFrames /\ Follows(frames[n].actions, frames'[n].actions, d, x)
            BY <2>1 DEF Working
          <5>2. frames[n].actions \in Seq(Actions) BY <2>1, CleanupFields DEF Working
          <5>3. Len(x) \in Nat /\ Len(frames[n].actions) \in Nat BY <2>1, <5>2, LenProperties
          <5>4. frames'[n].kind = "cleanup" /\ frames'[n].actions \in Seq(Actions)
            BY <5>1, CleanupFields
          <5>5. /\ l \in 1..Len(frames'[n].actions) /\ frames'[n].actions[l] = x[l]
            <6>1. /\ d \in 0..Len(frames[n].actions)
                  /\ Len(frames'[n].actions) = Len(x) + Len(frames[n].actions) - d
              BY <5>1 DEF Follows
            <6>2. l \in 1..Len(frames'[n].actions)
              <7>1. Len(frames[n].actions) - d >= 0 BY <5>3, <6>1
              <7>2. Len(x) <= Len(frames'[n].actions) BY <2>1, <5>3, <6>1, <7>1
              <7>3. QED BY <4>4, <5>3, <6>1, <7>2
            <6>3. frames'[n].actions[l] = x[l] BY <4>4, <5>1 DEF Follows
            <6>4. QED BY <6>2, <6>3
          <5>6. QED BY <4>4, <5>4, <5>5
        <4>6. n \in 1..Len(frames') BY <2>1, <2>2 DEF Working, Stands
        <4>7. Acts(n, l, c)' BY <4>5, <4>6 DEF Acts
        <4>8. QED BY <1>4, <2>6, <4>7
      <3>2. CASE Scopes(n, d, x)
        <4>1. PICK q : d = 1 /\ frames[n].actions[1] = Act("scope", q) BY <3>2 DEF Scopes
        <4>2. a = Act("scope", q) BY <2>6, <4>1
        <4>3. QED BY <1>3, <1>5, <4>2
      <3>3. CASE Finishes(n, d, x)
        <4>1. PICK q \in Producer : /\ d = 1 /\ frames[n].actions[1] = Act("finish", q)
                                    /\ phase' = [phase EXCEPT ![q] = "closed"]
          BY <3>3 DEF Finishes
        <4>2. a = Act("finish", q) BY <2>6, <4>1
        <4>3. q = p BY <1>3, <1>5, <4>2
        <4>4. phase \in [Producer -> Phases] BY <1>1 DEF ShapeInv, TypeInv, VarInv
        <4>5. QED BY <4>1, <4>3, <4>4
      <3>4. CASE Passes(n, d, x)
        <4>1. \A l \in 1..d : frames[n].actions[l] # c
          BY <1>5, <3>4 DEF Passes
        <4>2. a = b /\ ~Active(p)
          <5>1. a = b BY <1>3, <2>6, <4>1
          <5>2. QED BY <1>5, <2>6, <3>4, <5>1 DEF Passes
        <4>3. phase[p] \in {"closing", "closed"}
          <5>1. phase[p] # "none" BY DEF HeldInv, GraphInv
          <5>2. phase[p] \in Phases BY <1>1 DEF ShapeInv, TypeInv, VarInv
          <5>3. QED BY <4>2, <5>1, <5>2 DEF Phases, Active
        <4>4. CASE phase[p] = "closed"
          BY <4>4, ClosedStays
        <4>5. CASE phase[p] = "closing"
          <5>1. PICK j, l : Acts(j, l, c) BY <1>5, <4>5 DEF HeldInv, ScopeInv, FinishInv
          <5>2. j \in 1..n BY <1>2, <2>3, <4>1, <5>1
          <5>3. frames[j].kind = "cleanup" /\ j # i BY <5>1 DEF Acts
          <5>4. ~(j < i)
            <6>1. SUFFICES ASSUME j < i PROVE FALSE OBVIOUS
            <6>2. p <= frames[i].owner BY <1>5, <5>1, <6>1 DEF OrderInv, OrderB
            <6>3. parent[p] = frames[i].owner /\ phase[p] # "none" BY DEF HeldInv, GraphInv
            <6>4. parent[p] < p BY <6>3 DEF OrderInv, ParentInv
            <6>5. parent[p] \in Scope BY <1>1 DEF ShapeInv, TypeInv, VarInv
            <6>6. QED BY <6>2, <6>3, <6>4, <6>5, Bounds DEF Scope, Producer
          <5>5. j = n BY <1>2, <2>2, <2>6, <5>2, <5>3, <5>4
          <5>6. \E m : Acts(n, m, c)' BY <2>2, <2>3, <4>1, <5>1, <5>5
          <5>7. QED BY <1>4, <2>6, <5>6
        <4>6. QED BY <4>3, <4>4, <4>5
      <3>5. QED BY <1>9, <3>1, <3>2, <3>3, <3>4 DEF Works
    <2>7. QED BY <2>4, <2>5, <2>6
  <1>10. QED BY <1>1, <1>6, <1>7, <1>8, <1>9, StepActs

LEMMA ServeStep ==
  ASSUME HeldInv, OrderInv, DemandInv, ServeInv, [Next]_vars
  PROVE  ServeInv'
  <1>1. TasksGo /\ ShapeInv BY TasksStep DEF HeldInv
  <1>2. SUFFICES ASSUME NEW i \in 1..Len(frames'), frames'[i].kind = "task",
                        frames'[i].consumer # "until", NEW p \in frames'[i].graph
                 PROVE  \/ phase'[p] = "closed" \/ p \in Keeps(frames'[i])
                        \/ Mentions(i + 1, p)'
    BY DEF ServeInv, Depth, Keeps, Owned
  <1>3. CASE Starts(frames'[i])
    BY <1>3 DEF Starts
  <1>4. ASSUME i \in 1..Depth, frames[i].kind = "task", NEW S, Turns(frames[i], frames'[i], S),
               \A q \in S : \E k : Acts(i + 1, k, Act("producer", q))'
        PROVE  \/ phase'[p] = "closed" \/ p \in Keeps(frames'[i])
               \/ Mentions(i + 1, p)'
    <2>1. /\ frames[i].consumer # "until"
          /\ frames'[i].graph \subseteq frames[i].graph \cup Keeps(frames'[i])
          /\ Keeps(frames[i]) \subseteq Keeps(frames'[i]) \cup S
      BY <1>2, <1>4 DEF Turns
    <2>2. CASE p \in Keeps(frames'[i])
      BY <2>2
    <2>3. CASE p \in S
      <3>1. PICK k : Acts(i + 1, k, Act("producer", p))' BY <1>4, <2>3
      <3>2. Mentions(i + 1, p)' BY <3>1 DEF Mentions, Act
      <3>3. QED BY <3>2
    <2>4. CASE p \notin Keeps(frames'[i]) /\ p \notin S
      <3>1. p \in frames[i].graph /\ p \notin Keeps(frames[i]) BY <1>2, <2>1, <2>4
      <3>2. p \in Producer
        <4>1. frames[i] \in Frame BY <1>1, <1>4, ElementOfSeq DEF ShapeInv, TypeInv, Depth
        <4>2. frames[i] \in TaskFrames BY <1>4, <4>1, FrameKinds
        <4>3. QED BY <3>1, <4>2, TaskFields
      <3>3. phase[p] = "closed" \/ Mentions(i + 1, p) BY <1>4, <2>1, <3>1 DEF ServeInv
      <3>4. QED BY <1>4, <3>1, <3>2, <3>3, ClosedStays, MentionsStep
    <2>5. QED BY <2>2, <2>3, <2>4
  <1>5. QED BY <1>1, <1>2, <1>3, <1>4 DEF TasksGo

GraphsInv == HeldInv /\ OrderInv /\ DemandInv /\ ServeInv

LEMMA GraphsInit ==
  ASSUME Init
  PROVE  GraphsInv
  <1>1. HeldInv BY HeldInit
  <1>2. PICK f : frames = <<f>> /\ f.kind = "body" BY DEF Init
  <1>3. Depth = 1 /\ frames[1] = f BY <1>2 DEF Depth
  <1>4. \A i \in 1..Depth : frames[i].kind = "body"
    <2>1. \A i \in 1..1 : i = 1 OBVIOUS
    <2>2. QED BY <1>2, <1>3, <2>1
  <1>5. \A i, k, a : ~Acts(i, k, a) BY <1>4 DEF Acts, Depth
  <1>6. OrderInv BY <1>5 DEF OrderInv, ParentInv, OrderA, OrderB, Init
  <1>7. DemandInv /\ ServeInv BY <1>4 DEF DemandInv, ServeInv
  <1>8. QED BY <1>1, <1>6, <1>7 DEF GraphsInv

LEMMA GraphsStep ==
  ASSUME GraphsInv, [Next]_vars
  PROVE  GraphsInv'
  <1>1. HeldInv /\ OrderInv /\ ParentInv /\ DemandInv /\ ServeInv
    BY DEF GraphsInv, OrderInv
  <1>2. HeldInv' BY <1>1, HeldStep
  <1>3. ParentInv' BY <1>1, ParentStep
  <1>4. OrderA' BY <1>1, OrderAStep
  <1>5. OrderB' BY <1>1, <1>3, <1>4, OrderBStep
  <1>6. DemandInv' BY <1>1, TasksStep, DemandStep
  <1>7. ServeInv' BY <1>1, ServeStep
  <1>8. QED BY <1>2, <1>3, <1>4, <1>5, <1>6, <1>7 DEF GraphsInv, OrderInv

LEMMA GraphsHold ==
  ASSUME GraphsInv
  PROVE  ConsumerClosesGraph
  <1>1. SUFFICES ASSUME Stage("done"), Top.consumer # "until", NEW p \in Top.graph
                 PROVE  phase[p] = "closed"
    BY DEF ConsumerClosesGraph
  <1>2. ShapeInv /\ Running /\ Top.kind = "task" /\ Top.at = "done"
    BY <1>1 DEF GraphsInv, HeldInv, Stage, OnTop
  <1>3. Depth \in Nat \ {0} /\ Top = frames[Depth] /\ Depth = Len(frames) BY <1>2, TopIs
  <1>4. p \notin Keeps(Top) BY <1>2 DEF Keeps
  <1>5. ~Mentions(Depth + 1, p)
    <2>1. Depth + 1 \notin 1..Len(frames) BY <1>3
    <2>2. QED BY <2>1 DEF Mentions, Acts
  <1>6. Depth \in 1..Depth BY <1>3
  <1>7. QED BY <1>1, <1>2, <1>3, <1>4, <1>5, <1>6 DEF GraphsInv, ServeInv

(* A consumer other than fold_until that returns has waited until every    *)
(* producer of its graph is closed, those that flat_map opened included:   *)
(* each was closed by the consumer itself, or by the cleanup on top of it, *)
(* and no cleanup can be at it below (stream/, vm/cleanup.rs).             *)
THEOREM ConsumersCloseTheirGraphs == Spec => []ConsumerClosesGraph
  <1>1. Spec => []GraphsInv BY GraphsInit, GraphsStep, PTL DEF Spec
  <1>2. GraphsInv => ConsumerClosesGraph BY GraphsHold
  <1>3. QED BY <1>1, <1>2, PTL
===============================================================================
