--------------------------- MODULE BatchSubmission ---------------------------
(***************************************************************************)
(* A batch of tasks given to the orchestrator: submitBatchTasks of         *)
(* extensions/agent-orchestrator/src/AgentOrchestrator.ts, which composes  *)
(* the task scheduler and the task queue.                                  *)
(*                                                                         *)
(* submitBatchTasks has the scheduler lay out the batch, logs the layers,  *)
(* and submits the tasks one after the other in the order of the batch.    *)
(* Each submission is awaited, but its promise is already resolved: no     *)
(* timer fires and no command runs until the whole batch is submitted.     *)
(* What does run is the catch of an execution that rejected before its     *)
(* first await, because a callback threw at the first update of its first  *)
(* step: it was queued before the submission returned, so it comes before  *)
(* the next one.  The executions it starts in turn may reject too; their   *)
(* catch comes after the submission that is queued by then.                *)
(***************************************************************************)
EXTENDS AgentOrchestrator, Integers

CONSTANTS
    TaskType, File, NoFile, NoId,   \* as in TaskScheduler
    MaxBatch                        \* bound: the tasks in the batch

\* Task, the ids, are 1..N: the batch takes the first of them
ASSUME BatchFits == MaxBatch \in Nat /\ 1..MaxBatch \subseteq Task

VARIABLES
    batch,      \* the tasks argument of submitBatchTasks
    submitted,  \* how many of them have been submitted, -1 before the call
    due,        \* the executions that rejected at once: their catch comes before the batch goes on
    later       \* those that rejected since: their catch comes after its next submission

batchVars == <<vars, batch, submitted, due, later>>

\* no caller gives ids: every task has a node of its own
Scheduler == INSTANCE TaskScheduler WITH
    Id <- {},
    tasks <- batch,
    plan <- <<>>,
    completed <- {},
    currentLayer <- {}

BatchTask == 1..Len(batch)

BatchTypeOK ==
    /\ batch \in Seq(Scheduler!AgentTask)
    /\ submitted \in {-1} \cup 0..Len(batch)
    /\ due \in SUBSET Task /\ later \in SUBSET Task

BatchInit ==
    /\ Init
    /\ \E n \in 0..MaxBatch : batch \in [1..n -> Scheduler!AgentTask]
    /\ submitted = -1
    /\ due = {} /\ later = {}

SubmittingOneMore == submitted \in 0..Len(batch)
Submitting == submitted \in 0..(Len(batch) - 1)

\* the executions that this step starts and whose first update throws
Rejecting(now) ==
    /\ now \subseteq {t \in Task : step[t] = 0 /\ step'[t] = 1}
    /\ ~StepsMayFail => now = {}

\* whose catch comes next
Catching == IF due # {} \/ Submitting THEN due ELSE later

SubmitBatchTasks ==
    /\ submitted = -1
    /\ submitted' = 0
    /\ UNCHANGED <<vars, batch, due, later>>

NextFromEnd == Len(batch) - submitted
NextInOrder == submitted + 1

SubmitNext ==
    /\ Submitting
    /\ due = {}
    /\ \E p \in Priorities : SubmitTask(NextInOrder, p)
    /\ \E now \in SUBSET Task : Rejecting(now) /\ due' = later \cup now
    /\ later' = {}
    /\ submitted' = submitted + 1
    /\ UNCHANGED batch

\* the catch and finally of an execution that rejected at once
CatchRejected(t) ==
    /\ t \in Catching
    /\ FailTask(t)
    /\ \E now \in SUBSET Task : Rejecting(now) /\ later' = (later \ {t}) \cup now
    /\ due' = due \ {t}
    /\ UNCHANGED <<batch, submitted>>

\* a turn of the event loop: a task submitted on its own, a cancel, a timer
Otherwise ==
    /\ ~Submitting
    /\ Catching = {}
    /\ \/ \E t \in Task \ BatchTask, p \in Priorities : SubmitTask(t, p)
       \/ \E t \in Task : CancelTask(t)
       \/ \E t \in Task : NextStep(t)
       \/ \E t \in Task : CompleteTask(t)
       \/ \E t \in Task : FailTask(t)
    /\ UNCHANGED <<batch, submitted, due, later>>

BatchNext ==
    \/ SubmitBatchTasks
    \/ SubmitNext
    \/ \E t \in Task : CatchRejected(t)
    \/ Otherwise

BatchSpec == BatchInit /\ [][BatchNext]_batchVars

----------------------------------------------------------------------------
(* What must hold. *)

\* What is left of the plan: while a task the batch put first waits, no task
\* that depends on it and is no more urgent executes.  It takes the order of the
\* dependencies, of the submissions and of the queue to agree.
DependenciesStartFirst ==
    \A n \in BatchTask : step[n] > 0 =>
        \A m \in Scheduler!Dependencies(n) :
            Effective(priority[n]) <= Effective(priority[m]) => state[m] # "pending"

\* docs/archive/NEXT_STEPS.md:153-154: the tests of layer 2 "wait for layer 1".
\* No task executes before those it depends on have ended.
LayersRunInOrder ==
    \A n \in BatchTask : step[n] > 0 =>
        \A m \in Scheduler!Dependencies(n) : state[m] \in Terminal
=============================================================================
