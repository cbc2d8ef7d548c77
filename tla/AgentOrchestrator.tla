------------------------- MODULE AgentOrchestrator -------------------------
(***************************************************************************)
(* The task queue of the agent orchestrator                                *)
(* (extensions/agent-orchestrator/src/AgentOrchestrator.ts).               *)
(*                                                                         *)
(* submitTask and cancelTask run to completion on the event loop; an       *)
(* execution (executeTask / runTaskSteps) is a chain of timers, one per    *)
(* step, and nothing tells it that its task was cancelled.  A step of the  *)
(* model is one synchronous stretch of code: a call, or the continuation   *)
(* that one timer wakes.  Task ids are fresh: the extension never supplies *)
(* one, so submitTask draws a uuid and tasks holds one object per id.      *)
(***************************************************************************)
EXTENDS Naturals, Sequences, FiniteSets, SequencesExt

CONSTANTS
    Task,             \* the ids submitTask may draw
    MaxConcurrent,    \* maxConcurrentTasks
    NumSteps,         \* the number of steps generateSteps returns (4)
    Priorities,       \* the priorities the callers use, among 0..3
    StepsMayFail,     \* may a callback of onTaskUpdate throw at the updates of a step,
                      \* inside the try of executeTask?
    CallbackMayThrow  \* ... and at the others, outside it?

ASSUME MaxConcurrentAssumption == MaxConcurrent \in Nat \ {0}
ASSUME NumStepsAssumption == NumSteps \in Nat \ {0}
ASSUME PrioritiesAssumption == Priorities \subseteq 0..3
ASSUME CallbackAssumption == StepsMayFail \in BOOLEAN /\ CallbackMayThrow \in BOOLEAN

VARIABLES
    state,         \* tasks.get(id).state, "none" while tasks has no such id
    priority,      \* tasks.get(id).task.priority
    progress,      \* tasks.get(id).progress
    taskQueue,     \* the ids waiting for a slot
    runningTasks,  \* the ids that hold a slot
    step           \* the step whose timer is pending, 0 when no execution is in flight

vars == <<state, priority, progress, taskQueue, runningTasks, step>>

Terminal == {"completed", "failed", "cancelled"}
TaskState == {"none", "pending", "running"} \cup Terminal

TypeOK ==
    /\ state \in [Task -> TaskState]
    /\ priority \in [Task -> 0..3]
    /\ progress \in [Task -> 0..100]
    /\ taskQueue \in Seq(Task)
    /\ runningTasks \in SUBSET Task
    /\ step \in [Task -> 0..NumSteps]

Init ==
    /\ state = [t \in Task |-> "none"]
    /\ priority = [t \in Task |-> 1]
    /\ progress = [t \in Task |-> 0]
    /\ taskQueue = <<>>
    /\ runningTasks = {}
    /\ step = [t \in Task |-> 0]

----------------------------------------------------------------------------
(* The priority queue. *)

\* task.priority || TaskPriority.NORMAL: LOW is 0, which || replaces
Effective(p) == IF p = 0 THEN 1 ELSE p

PrecedesUnstable(q, prio, j, i) ==
    \/ Effective(prio[q[j]]) > Effective(prio[q[i]])
    \/ Effective(prio[q[j]]) = Effective(prio[q[i]]) /\ j > i

\* j comes before i in the order sort() establishes: by priority, then stably
Precedes(q, prio, j, i) ==
    \/ Effective(prio[q[j]]) > Effective(prio[q[i]])
    \/ Effective(prio[q[j]]) = Effective(prio[q[i]]) /\ j < i

Rank(q, prio, i) == Cardinality({j \in DOMAIN q : Precedes(q, prio, j, i)}) + 1

SortQueue(q, prio) ==
    [k \in 1..Len(q) |-> q[CHOOSE i \in DOMAIN q : Rank(q, prio, i) = k]]

PercentUnscaled(i) == i * 100

\* the progress runTaskSteps shows while step i runs
Percent(i) == (i * 100) \div NumSteps

LoopShiftsOneMore(q, running, k) ==
    /\ \A j \in 0..(k-1) : Cardinality(running \cup ToSet(SubSeq(q, 1, j))) <= MaxConcurrent
    /\ \/ k = Len(q)
       \/ Cardinality(running \cup ToSet(SubSeq(q, 1, k))) > MaxConcurrent

\* the loop of processQueue shifts k ids: there is a slot before each, none after the last
LoopShifts(q, running, k) ==
    /\ \A j \in 0..(k-1) : Cardinality(running \cup ToSet(SubSeq(q, 1, j))) < MaxConcurrent
    /\ \/ k = Len(q)
       \/ Cardinality(running \cup ToSet(SubSeq(q, 1, k))) >= MaxConcurrent

\* the updates whose callback throws, among those of the tasks in S
Throwing(S) == IF CallbackMayThrow THEN SUBSET S ELSE {{}}

\* processQueue with the executeTask calls it makes, up to their first await.
\* The arguments are the fields as the caller has left them.  A callback that
\* throws at the first update does so outside the try: the slot stays taken.
ProcessQueue(st, pg, q, running, sp) ==
    \E k \in 0..Len(q) :
        LET started == ToSet(SubSeq(q, 1, k)) IN
        /\ LoopShifts(q, running, k)
        /\ taskQueue' = SubSeq(q, k+1, Len(q))
        /\ runningTasks' = running \cup started
        /\ state' = [t \in Task |-> IF t \in started THEN "running" ELSE st[t]]
        /\ \E leaked \in Throwing(started) :
             /\ step' = [t \in Task |-> IF t \in started \ leaked THEN 1 ELSE sp[t]]
             /\ progress' = [t \in Task |-> IF t \in started \ leaked
                                            THEN Percent(1) ELSE pg[t]]

Assign(st, pg, q, running, sp) ==
    /\ state' = st
    /\ progress' = pg
    /\ taskQueue' = q
    /\ runningTasks' = running
    /\ step' = sp

\* notifyUpdate then processQueue: a callback that throws skips the latter
NotifyThenProcessQueue(st, pg, q, running, sp) ==
    \/ ProcessQueue(st, pg, q, running, sp)
    \/ CallbackMayThrow /\ Assign(st, pg, q, running, sp)

SlotsKept(t) == runningTasks
SlotsWithout(t) == runningTasks \ {t}

QueueKept(t) == taskQueue
QueueWithout(t) == RemoveFirst(taskQueue, t)

----------------------------------------------------------------------------
(* The calls of the extension and the continuations of an execution. *)

SubmitTask(t, p) ==
    /\ state[t] = "none"
    /\ priority' = [priority EXCEPT ![t] = p]
    /\ ProcessQueue([state EXCEPT ![t] = "pending"],
                    progress,
                    SortQueue(Append(taskQueue, t), [priority EXCEPT ![t] = p]),
                    runningTasks,
                    step)

Known(t) == state[t] # "none"
Cancellable(t) == state[t] \notin {"none", "completed", "failed"}

\* cancelTask(t) when it does not return false
CancelTask(t) ==
    /\ Cancellable(t)
    /\ NotifyThenProcessQueue([state EXCEPT ![t] = "cancelled"],
                              progress,
                              QueueWithout(t),
                              SlotsWithout(t),
                              step)
    /\ UNCHANGED priority

MoreSteps(t) == step[t] \in 1..(NumSteps - 1)

\* the timer of a step fires and runTaskSteps starts the next one
NextStep(t) ==
    /\ MoreSteps(t)
    /\ step' = [step EXCEPT ![t] = @ + 1]
    /\ progress' = [progress EXCEPT ![t] = Percent(step[t] + 1)]
    /\ UNCHANGED <<state, priority, taskQueue, runningTasks>>

\* the last timer fires: the rest of executeTask runs, its finally included
CompleteTask(t) ==
    /\ step[t] = NumSteps
    /\ NotifyThenProcessQueue([state EXCEPT ![t] = "completed"],
                              [progress EXCEPT ![t] = 100],
                              taskQueue,
                              SlotsWithout(t),
                              [step EXCEPT ![t] = 0])
    /\ UNCHANGED priority

\* a callback throws inside runTaskSteps: the catch and finally of executeTask
FailTask(t) ==
    /\ StepsMayFail
    /\ step[t] > 0
    /\ NotifyThenProcessQueue([state EXCEPT ![t] = "failed"],
                              progress,
                              taskQueue,
                              SlotsWithout(t),
                              [step EXCEPT ![t] = 0])
    /\ UNCHANGED priority

Next ==
    \/ \E t \in Task, p \in Priorities : SubmitTask(t, p)
    \/ \E t \in Task : CancelTask(t)
    \/ \E t \in Task : NextStep(t)
    \/ \E t \in Task : CompleteTask(t)
    \/ \E t \in Task : FailTask(t)

Spec == Init /\ [][Next]_vars

\* setTimeout always fires and its continuation always runs; nothing makes a
\* user submit or cancel, nor a callback throw
Fairness == \A t \in Task : WF_vars(NextStep(t)) /\ WF_vars(CompleteTask(t))

FairSpec == Spec /\ Fairness

----------------------------------------------------------------------------
(* What must hold. *)

\* The slots are exactly the running tasks: a slot freed twice, kept by a task
\* that ended, or not taken by one that started would break this
\* (runningTasks.add / delete in executeTask and cancelTask).
SlotsAreRunningTasks == runningTasks = {t \in Task : state[t] = "running"}

\* The limit of processQueue, whatever the order of completions and cancels.
SlotLimit == Cardinality(runningTasks) <= MaxConcurrent

\* The queue holds every pending task once and nothing else, so no task is
\* lost between tasks and taskQueue and none can start twice.
QueueIsPendingTasks ==
    /\ ToSet(taskQueue) = {t \in Task : state[t] = "pending"}
    /\ \A i, j \in DOMAIN taskQueue : taskQueue[i] = taskQueue[j] => i = j

\* Cancels aside, no more executions are in flight than there are slots: the
\* timers of executeTask, not the bookkeeping in runningTasks, are what loads
\* the machine.
ExecutionLimit ==
    Cardinality({t \in Task : step[t] > 0 /\ state[t] # "cancelled"}) <= MaxConcurrent

\* No wakeup is lost: while a task waits, every slot is taken.  Every path that
\* frees a slot or queues a task must reach processQueue.
WorkConserving == taskQueue # <<>> => Cardinality(runningTasks) = MaxConcurrent

\* A task starts only if none of a higher priority stays in the queue.
NoOvertaking ==
    [][\A t, u \in Task :
         /\ state[t] # "running" /\ state'[t] = "running"
         /\ state'[u] = "pending"
         => Effective(priority'[u]) <= Effective(priority'[t])]_vars

Ahead(q, t, u) == \E i, j \in DOMAIN q : i < j /\ q[i] = t /\ q[j] = u

\* Two tasks of the same effective priority leave the queue in the order they
\* entered it: while t waits, u behind it, or yet to come, stays behind it and
\* does not start (the sort of every submission is stable, shift takes the head).
FirstComeFirstServed ==
    [][\A t, u \in Task :
         /\ state[t] = "pending" /\ state'[t] = "pending"
         /\ Ahead(taskQueue, t, u) \/ state[u] = "none"
         /\ Effective(priority'[u]) = Effective(priority[t])
         => /\ state'[u] # "running"
            /\ state'[u] = "pending" => Ahead(taskQueue', t, u)]_vars

\* The result of a task that was not cancelled is final; a cancelled task that
\* no execution carries stays cancelled.
EndIsFinal ==
    [][\A t \in Task :
         \/ state[t] \in {"completed", "failed"}
         \/ state[t] = "cancelled" /\ step[t] = 0
         => state'[t] = state[t]]_vars

\* Every task that was submitted ends, whatever the others do.
SubmittedTasksEnd ==
    \A t \in Task : (state[t] \in {"pending", "running"}) ~> (state[t] \in Terminal)

\* What AgentOrchestrator.test.ts:95-111 and chat-flow.test.ts:160-177 expect: a
\* task that cancelTask cancelled is cancelled.  Its execution overwrites the
\* state when it ends.
CancelledStaysCancelled ==
    [][\A t \in Task : state[t] = "cancelled" => state'[t] = "cancelled"]_vars

----------------------------------------------------------------------------
(* The abstract scheduler this one implements. *)

PhaseOf(s) ==
    CASE s = "none" -> "new"
      [] s = "pending" -> "waiting"
      [] s = "running" -> "active"
      [] OTHER -> "ended"

Abstract == INSTANCE PriorityScheduler WITH
    Slots <- MaxConcurrent,
    Weights <- {Effective(p) : p \in Priorities},
    Lossy <- CallbackMayThrow,
    phase <- [t \in Task |-> PhaseOf(state[t])],
    weight <- [t \in Task |-> Effective(priority[t])]

\* Submissions, completions, cancels and failures of the orchestrator are the
\* arrivals and ends of a work-conserving priority scheduler: what a cancelled
\* execution still does never shows in the schedule.
ImplementsScheduler == Abstract!Spec
=============================================================================
