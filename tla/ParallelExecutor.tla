-------------------------- MODULE ParallelExecutor --------------------------
(***************************************************************************)
(* The parallel executor on its pool of agents                             *)
(* (extensions/agent-orchestrator/src/ParallelExecutor.ts).                *)
(*                                                                         *)
(* processQueue is an asynchronous loop: it assigns tasks while an agent   *)
(* can be had, then sleeps 100 ms and tries again until the queue is       *)
(* empty.  Every batch and every completion may start one more such loop,  *)
(* so several sleep at once.  An execution is a chain of timers that       *)
(* cancelTask does not stop.                                               *)
(***************************************************************************)
EXTENDS AgentPool, SequencesExt, FiniteSetsExt

CONSTANTS
    NumTasks,      \* bound: the tasks submitted over a run, 1..NumTasks in order
    MaxBatch,      \* bound: the tasks in one batch
    NumSteps,      \* the steps of decomposeTask (3 or 4)
    Cancels,       \* the tasks some caller cancels
    StepsMayFail   \* may executeStep reject, as the AI call it stands for would?

ASSUME ExecutorAssumption ==
    /\ NumTasks \in Nat
    /\ MaxBatch \in Nat \ {0}
    /\ NumSteps \in Nat \ {0}
    /\ StepsMayFail \in BOOLEAN
    /\ NoTask \notin 1..NumTasks

Task == 1..NumTasks

VARIABLES
    agents,        \* agentPool
    state,         \* TaskStatus.state, "none" before submitBatch
    taskQueue,
    runningTasks,
    execAgent,     \* the agent executeTask of a task was called with, 0 before
    step,          \* the step whose timer is pending, 0 when none is
    sleepers,      \* the processQueue loops asleep in wait(100)
    submitted,     \* how many tasks have been submitted
    crossed        \* history: the agents an execution was cancelled on, until all on it have ended

vars == <<agents, state, taskQueue, runningTasks, execAgent, step, sleepers, submitted, crossed>>

Ended == {"completed", "failed", "cancelled"}

TypeOK ==
    /\ agents \in [Agent -> [status : {"absent", "idle", "busy", "error"},
                             currentTask : Task \cup {NoTask},
                             tasksCompleted : Nat]]
    /\ state \in [Task -> {"none", "pending", "running"} \cup Ended]
    /\ taskQueue \in Seq(Task)
    /\ runningTasks \in SUBSET Task
    /\ execAgent \in [Task -> 0..MaxAgents]
    /\ step \in [Task -> 0..NumSteps]
    /\ sleepers \in Nat
    /\ submitted \in 0..NumTasks
    /\ crossed \in SUBSET Agent

Init ==
    /\ agents = InitialPool
    /\ state = [t \in Task |-> "none"]
    /\ taskQueue = <<>>
    /\ runningTasks = {}
    /\ execAgent = [t \in Task |-> 0]
    /\ step = [t \in Task |-> 0]
    /\ sleepers = 0
    /\ submitted = 0
    /\ crossed = {}

----------------------------------------------------------------------------
InFlight == {t \in Task : step[t] > 0}

\* what a loop puts back when no agent is left, and where
PutBackLast(q, k) == IF k = Len(q) THEN <<>> ELSE SubSeq(q, k+2, Len(q)) \o <<q[k+1]>>
PutBackFirst(q, k) == SubSeq(q, k+1, Len(q))

\* the loops asleep, of n others, after a stretch that started k tasks of q
GivesUp(q, k, n) == n
SleepsIfAnyIsLeft(q, k, n) == IF k < Len(q) THEN n + 1 ELSE n

RunningWithout(t) == runningTasks \ {t}

\* One synchronous stretch of processQueue, called with the pool, states, steps
\* and queue as given and n loops asleep: it assigns as many tasks as it finds
\* agents for and falls asleep if any is left.
ProcessQueue(pool, st, sp, q, running, n) ==
    LET k == IF Len(q) <= Cardinality(Available(pool))
             THEN Len(q) ELSE Cardinality(Available(pool))
        started == SubSeq(q, 1, k)
    IN
    /\ agents' = AssignAll(pool, started)
    /\ taskQueue' = PutBackFirst(q, k)
    /\ runningTasks' = running \cup ToSet(started)
    /\ state' = [t \in Task |-> IF t \in ToSet(started) THEN "running" ELSE st[t]]
    /\ step' = [t \in Task |-> IF t \in ToSet(started) THEN 1 ELSE sp[t]]
    /\ execAgent' = [t \in Task |-> IF t \in ToSet(started)
                        THEN CHOOSE a \in Available(pool) :
                               /\ Turn(pool, a) <= k
                               /\ started[Turn(pool, a)] = t
                        ELSE execAgent[t]]
    /\ sleepers' = SleepsIfAnyIsLeft(q, k, n)

SubmitBatch(n) ==
    /\ submitted + n <= NumTasks
    /\ submitted' = submitted + n
    /\ LET batch == [i \in 1..n |-> submitted + i] IN
       ProcessQueue(agents,
                    [t \in Task |-> IF t \in ToSet(batch) THEN "pending" ELSE state[t]],
                    step, taskQueue \o batch, runningTasks, sleepers)
    /\ UNCHANGED crossed

\* the wait(100) of one loop is over
WakeUp ==
    /\ sleepers > 0
    /\ ProcessQueue(agents, state, step, taskQueue, runningTasks, sleepers - 1)
    /\ UNCHANGED <<submitted, crossed>>

MoreStepsInclusive(t) == step[t] \in 1..NumSteps
MoreSteps(t) == step[t] \in 1..(NumSteps - 1)

NextStep(t) ==
    /\ MoreSteps(t)
    /\ step' = [step EXCEPT ![t] = @ + 1]
    /\ UNCHANGED <<agents, state, taskQueue, runningTasks, execAgent, sleepers, submitted, crossed>>

\* the executions beside that of t on its agent
Beside(t) == {u \in InFlight \ {t} : execAgent[u] = execAgent[t]}

\* handleTaskComplete: it releases the agent the execution ran on, whoever has
\* it now; pool is the agents as executeTask leaves them
HandleTaskComplete(t, end, pool) ==
    /\ ProcessQueue([pool EXCEPT ![execAgent[t]] = ReleaseAgent(@)],
                    [state EXCEPT ![t] = end],
                    [step EXCEPT ![t] = 0],
                    taskQueue,
                    RunningWithout(t),
                    sleepers)
    /\ crossed' = IF Beside(t) = {} THEN crossed \ {execAgent[t]} ELSE crossed
    /\ UNCHANGED submitted

\* the last timer fires: the end of executeTask and its then()
CompleteTask(t) ==
    /\ step[t] = NumSteps
    /\ HandleTaskComplete(t, "completed", agents)

\* executeStep rejects: the catch of executeTask and its then()
FailTask(t) ==
    /\ StepsMayFail
    /\ step[t] > 0
    /\ HandleTaskComplete(t, "failed", [agents EXCEPT ![execAgent[t]] = MarkAgentError(@)])

\* the agent cancelTask finds: the first whose current task is t
Holders(t) == {a \in Agent : agents[a].currentTask = t}

CancelTask(t) ==
    /\ t \in runningTasks \cap Cancels
    /\ state' = [state EXCEPT ![t] = "cancelled"]
    /\ agents' = IF Holders(t) = {} THEN agents
                 ELSE [agents EXCEPT ![Min(Holders(t))] = ReleaseAgent(@)]
    /\ runningTasks' = RunningWithout(t)
    /\ crossed' = crossed \cup {execAgent[t]}
    /\ UNCHANGED <<taskQueue, execAgent, step, sleepers, submitted>>

Next ==
    \/ \E n \in 1..MaxBatch : SubmitBatch(n)
    \/ WakeUp
    \/ \E t \in Task : NextStep(t)
    \/ \E t \in Task : CompleteTask(t)
    \/ \E t \in Task : FailTask(t)
    \/ \E t \in Task : CancelTask(t)

Spec == Init /\ [][Next]_vars

\* every timer fires: the steps of the executions and the sleep of the loops
Fairness ==
    /\ WF_vars(WakeUp)
    /\ \A t \in Task : WF_vars(NextStep(t)) /\ WF_vars(CompleteTask(t))

FairSpec == Spec /\ Fairness

----------------------------------------------------------------------------
(* What must hold. *)

\* No wakeup is lost: while a task waits, some loop will look again.  cancelTask
\* frees an agent without a word to the queue and relies on this.
WaitingTasksArePolled == taskQueue # <<>> => sleepers > 0

\* An agent's current task executes on it, also when cancels and late releases
\* have crossed.
CurrentTaskExecutes ==
    \A a \in Agent : LET t == agents[a].currentTask IN
        t # NoTask => step[t] > 0 /\ execAgent[t] = a /\ t \in runningTasks

\* An agent is busy exactly while one execution runs on it, that of its current task.  A
\* cancelled execution goes on and releases an agent that has another task by then: the
\* harm stays on that agent, and is over when the executions on it have ended.
BusyAgentsRunTheirTask ==
    \A a \in Agent \ crossed :
        /\ agents[a].status = "busy" <=> \E t \in InFlight : execAgent[t] = a
        /\ \A t \in InFlight : execAgent[t] = a => agents[a].currentTask = t

\* The pool grows only when nobody is idle: an agent beyond the initial ones
\* exists only if so many executions were once in flight (getIdleAgent).
NoIdleAgentWhileWaiting ==
    [][\A a \in Agent :
         agents[a].status = "absent" /\ agents'[a].status # "absent"
         => \A b \in 1..(a-1) : agents'[b].status = "busy"]_vars

\* Tasks start in the order of submission: a loop that finds no agent puts the
\* task back where it was.
StartsInOrder ==
    \A t, u \in Task :
      t < u /\ state[u] \notin {"none", "pending"} => state[t] \notin {"none", "pending"}

\* Every submitted task ends, also when cancels free agents behind the loops'
\* back, and every loop stops.
SubmittedTasksEnd ==
    \A t \in Task : (state[t] \in {"pending", "running"}) ~> (state[t] \in Ended)
=============================================================================
