------------------------- MODULE AutonomousPipeline -------------------------
(***************************************************************************)
(* One autonomous development pipeline                                     *)
(* (extensions/agent-orchestrator/src/pipeline/autonomous-pipeline.ts).    *)
(*                                                                         *)
(* Every call of execute is a loop of its own over the stages, suspended   *)
(* while it awaits the model's answer, the stage's timeout or a backoff.   *)
(* pause and cancel only write the status: a suspended loop goes on, and   *)
(* reads the status when its stage is over.  Pipelines share nothing, so   *)
(* one is modelled.                                                        *)
(***************************************************************************)
EXTENDS Integers, Sequences, SequencesExt

CONSTANTS
    NumStages,   \* the stages (5)
    AutoRetry,   \* config.autoRetry
    MaxRetries,  \* config.maxRetries, 0 when absent
    MaxLoops     \* bound: the calls of execute and resume

ASSUME PipelineAssumption ==
    /\ NumStages \in Nat \ {0}
    /\ MaxRetries \in Nat
    /\ MaxLoops \in Nat
    /\ AutoRetry \in BOOLEAN

Stage == 1..NumStages
Loop == 1..MaxLoops

VARIABLES
    status,
    currentStage,
    completedStages,
    stageResults,
    progress,
    loops,        \* each call of execute: where it is suspended
    interrupted   \* has pause or cancel been called?

vars == <<status, currentStage, completedStages, stageResults, progress, loops,
          interrupted>>

\* maxRetries of executeStageWithRetry: a configured 0 counts as absent
Retries == IF ~AutoRetry THEN 0 ELSE IF MaxRetries = 0 THEN 3 ELSE MaxRetries

TypeOK ==
    /\ status \in {"pending", "running", "paused", "completed", "failed"}
    /\ currentStage \in Stage
    /\ completedStages \in Seq(Stage)
    /\ stageResults \in Seq([stage : Stage, success : BOOLEAN])
    /\ progress \in Nat
    /\ loops \in [Loop -> [at : {"unused", "stage", "backoff", "over"},
                           stage : Stage, attempt : 0..Retries]]
    /\ interrupted \in BOOLEAN

Init ==
    /\ status = "pending"
    /\ currentStage = 1
    /\ completedStages = <<>>
    /\ stageResults = <<>>
    /\ progress = 0
    /\ loops = [l \in Loop |-> [at |-> "unused", stage |-> 1, attempt |-> 0]]
    /\ interrupted = FALSE

----------------------------------------------------------------------------
Active == {l \in Loop : loops[l].at \in {"stage", "backoff"}}

\* the stages a loop that stands at stage i has left
LeftIgnoringResults(i, done) == i..NumStages
LeftAfter(i, done) == ((i + 1)..NumStages) \ ToSet(done)
Left(i, done) == (i..NumStages) \ ToSet(done)

\* what is written into stageResults
Result(s, ok) == [stage |-> s, success |-> ok]

Percent(done) == (Len(done) * 100) \div NumStages

\* The loop of execute from stage i on, up to its next await or its end, where
\* a paused pipeline is taken for one whose stages are all done.
Continue(l, i, st, done, percent) ==
    IF st = "paused" \/ Left(i, done) = {}
    THEN /\ status' = "completed"
         /\ progress' = 100
         /\ loops' = [loops EXCEPT ![l].at = "over"]
         /\ UNCHANGED currentStage
    ELSE \E s \in Left(i, done) :
            /\ \A j \in Left(i, done) : s <= j
            /\ status' = st
            /\ progress' = percent
            /\ currentStage' = s
            /\ loops' = [loops EXCEPT ![l] = [at |-> "stage", stage |-> s, attempt |-> 0]]

\* what execute asks of the status before it starts
NotRunning == status # "running"

Execute(l) ==
    /\ NotRunning
    /\ loops[l].at = "unused"
    /\ \A m \in 1..(l - 1) : loops[m].at # "unused"   \* calls are numbered in order
    /\ Continue(l, 1, "running", completedStages, progress)
    /\ UNCHANGED <<completedStages, stageResults, interrupted>>

Resume(l) ==
    /\ status = "paused"
    /\ Execute(l)

\* the model answers in time
StageSucceeds(l) ==
    /\ loops[l].at = "stage"
    /\ LET s == loops[l].stage
           done == Append(completedStages, s)
       IN
       /\ completedStages' = done
       /\ stageResults' = Append(stageResults, Result(s, TRUE))
       /\ Continue(l, s + 1, status, done, Percent(done))
    /\ UNCHANGED interrupted

OneAttemptMore(l) == loops[l].attempt <= Retries
MoreAttempts(l) == loops[l].attempt < Retries

\* the model fails or the timeout wins the race, and a retry is left
AttemptFails(l) ==
    /\ loops[l].at = "stage"
    /\ MoreAttempts(l)
    /\ loops' = [loops EXCEPT ![l].at = "backoff"]
    /\ UNCHANGED <<status, currentStage, completedStages, stageResults, progress, interrupted>>

SameAttempt(l) == loops[l].attempt
NextAttempt(l) == loops[l].attempt + 1

BackoffOver(l) ==
    /\ loops[l].at = "backoff"
    /\ loops' = [loops EXCEPT ![l].at = "stage", ![l].attempt = NextAttempt(l)]
    /\ UNCHANGED <<status, currentStage, completedStages, stageResults, progress, interrupted>>

\* what becomes of the status when a stage failed for good
LeftAsItIs == status
Failed == "failed"

\* ... and no retry is left: execute throws
StageFails(l) ==
    /\ loops[l].at = "stage"
    /\ ~MoreAttempts(l)
    /\ stageResults' = Append(stageResults, Result(loops[l].stage, FALSE))
    /\ status' = Failed
    /\ loops' = [loops EXCEPT ![l].at = "over"]
    /\ UNCHANGED <<currentStage, completedStages, progress, interrupted>>

Pause ==
    /\ status = "running"
    /\ status' = "paused"
    /\ interrupted' = TRUE
    /\ UNCHANGED <<currentStage, completedStages, stageResults, progress, loops>>

Cancel ==
    /\ status' = "failed"
    /\ interrupted' = TRUE
    /\ UNCHANGED <<currentStage, completedStages, stageResults, progress, loops>>

Next ==
    \/ Pause
    \/ Cancel
    \/ \E l \in Loop : Execute(l)
    \/ \E l \in Loop : Resume(l)
    \/ \E l \in Loop : StageSucceeds(l)
    \/ \E l \in Loop : AttemptFails(l)
    \/ \E l \in Loop : BackoffOver(l)
    \/ \E l \in Loop : StageFails(l)

Spec == Init /\ [][Next]_vars

\* the timeout settles every attempt and every backoff is over some time
Fairness ==
    \A l \in Loop :
        /\ WF_vars(StageSucceeds(l) \/ AttemptFails(l) \/ StageFails(l))
        /\ WF_vars(BackoffOver(l))

FairSpec == Spec /\ Fairness

----------------------------------------------------------------------------
(* What must hold. *)

\* Whatever is paused, cancelled, resumed and executed again: a loop works on
\* a stage only when all earlier stages have succeeded, because each stage's
\* prompt carries their artifacts (getStageUserPrompt).
PrerequisitesDone ==
    \A l \in Active : 1..(loops[l].stage - 1) \subseteq ToSet(completedStages)

\* The pipeline never hangs in a status that no loop will leave: running and
\* paused always have a suspended loop.  So whoever
\* resumes always starts a second loop, and no one waits in vain.
RunningIsActive == status \in {"running", "paused"} => Active # {}

\* As long as nobody pauses or cancels, stages complete once each and in order,
\* also when the pipeline is executed again after a failure, and the pipeline
\* is completed only with its last stage; the progress bar shows just them, and
\* one loop at a time works on them.
StagesCompleteInOrder ==
    ~interrupted =>
        /\ completedStages = [i \in 1..Len(completedStages) |-> i]
        /\ status = "completed" => Len(completedStages) = NumStages
        /\ progress = Percent(completedStages)
        /\ \A l, m \in Active : l = m

\* Every call of execute ends, whatever the others do.
ExecutionsEnd == \A l \in Loop : (l \in Active) ~> (l \notin Active)

\* What the comment of line 192 says, "All stages completed": a pipeline is
\* completed only when they are.
CompletedMeansAll == status = "completed" => ToSet(completedStages) = Stage
=============================================================================
