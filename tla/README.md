# Miaoda: a TLA+ model of the agent core and its cloud service

This directory models the parts of the repository that schedule and run agent
work, and those that keep a user's session, license, subscription and quota in
the client and in the cloud. TLC model-checks them and TLAPS proves the most
important results. The reference is the source; paths below are relative to the repository
root. `PROJECT.json` holds the machine-readable side: which definition models
which lines, the runs, the mutants each property catches, the hazards and the
findings.

## 1. The system

The repository is an IDE built on VS Code. `src/`, `cli/`, `build/` and the
language extensions are upstream code. The product's own logic lives in about
twenty extensions and a Node service.

| Part | State it keeps | Operations | What is hard |
|---|---|---|---|
| Agent orchestrator (`extensions/agent-orchestrator/src/AgentOrchestrator.ts`) | tasks, a sorted queue, the running set, callbacks | submitTask, submitBatchTasks, cancelTask, timers of executions | cancel of a running task, callbacks that throw, missed dispatches, order of the queue |
| Task scheduler (`TaskScheduler.ts`) | none; a graph and a plan per batch | analyzeDependencies, generateExecutionPlan | completeness and independence of layers, rules that depend on order |
| Parallel executor and agent pool (`ParallelExecutor.ts`, `AgentPool.ts`) | agents, queue, running tasks, polling loops | submitBatch, loops, steps, cancelTask | several loops on one queue, agents released behind the execution's back |
| Autonomous pipeline (`pipeline/autonomous-pipeline.ts`) | status, stages done, results, progress | create, execute, pause, resume, cancel, retries, timeouts | status written while a loop is suspended, two loops at once |
| Event bus, capability registry (`extensions/shared-services/src`) | handlers per event, capabilities | on, once, emit, dispose | little: the set of handlers is fixed once the extensions run |
| Configuration, storage, migration, quota, usage, completion (same place) | caches over files, keychain, SQLite, cloud | get/set, sync, migrate | precedence, interrupted migration, stale caches |
| Auth and license services (`extensions/auth-service`, `extensions/license-service`) | tokens in the secret store, auth state, cached license | login, refresh, logout, verify | refresh against logout, a store that fails part of the way, offline grace |
| Cloud service (`cloud-service/src`) | Postgres rows, Redis counters, Stripe's state | verify license, subscribe, cancel, webhooks, quota, tokens | no transactions, late and repeated webhooks, concurrent requests |
| Chat panel, skills, project manager | sessions, skills, snapshots | send, stream, execute, save | a stream racing a new session |
| Context engine, cost, quality, knowledge graph, embeddings, browser bridge, remote SSH, onboarding, settings | mostly derived data or user interface | | text, scoring, I/O: little for a model checker |

How they meet: the extension's commands and the chat panel call the
orchestrator; `submitBatchTasks` calls the scheduler; the orchestrator publishes
every change on the event bus and to its callbacks (status bar, progress view);
the executor owns the pool; the pipeline calls the LLM adapter, which calls the
cloud's LLM proxy with the auth service's token, and the proxy consumes quota
according to the plan that subscriptions set. The license client verifies
against the cloud with the same token.

All client code runs on one JavaScript event loop. What runs between two
`await`s is atomic; everything else interleaves. This is the grain of every
model here: a step is one synchronous stretch of code.

## 2. What is modelled

| Module | Models | Checked as |
|---|---|---|
| `AgentOrchestrator` | submitTask, cancelTask, executeTask, the sorted queue, callbacks | `MCAgentOrchestrator` |
| `PriorityScheduler` | the abstract promise: a bounded, work-conserving priority scheduler | by refinement |
| `TaskScheduler` | the dependency graph of a batch and its layers | itself |
| `BatchSubmission` | submitBatchTasks: scheduler and queue composed | itself |
| `AgentPool`, `ParallelExecutor` | agents, polling loops, executions, cancels | `ParallelExecutor` |
| `AutonomousPipeline` | concurrent execute loops over one pipeline | itself |
| `Plans` | the plans and their device limits, for the cloud's modules | with them |
| `Subscriptions` | subscriptions, Stripe and its webhooks, `users.plan` and `licenses` | `MCSubscriptions` |
| `LicenseDevices` | the server's device bindings; the specification the next module implements | by `LicenseProofs` |
| `LicenseClient` | the license services of the devices, composed with `LicenseDevices` | `MCLicenseClient` |
| `LLMProxy` | the retry loop, the quota and its window | `MCLLMProxy` |
| `AuthSession` | AuthManager and its token store; the server is external | itself |

The proofs are in modules of their own: `AgentOrchestratorProofs` (which also
holds those of batches), `SchedulerProofs`, `ExecutorProofs`, `PipelineProofs`,
`SubscriptionsProofs`, `LicenseProofs`, `LLMProxyProofs`, `AuthSessionProofs`.

### Agent orchestrator

`state`, `priority` and `progress` are fields of the status objects in `tasks`;
`taskQueue` and `runningTasks` are the fields of that name. `step[t]` is not in
the code: it is the step whose 500 ms timer keeps the execution of `t` alive,
0 when none does. It has to be a variable because cancelling does not stop an
execution: a task may be cancelled and still be executing.

| Action | Code |
|---|---|
| `SubmitTask` | submitTask, with the sort and the dispatch it ends in |
| `CancelTask` | cancelTask when it does not return false |
| `NextStep` | a timer of runTaskSteps that is not the last |
| `CompleteTask` | the last timer and the rest of executeTask, its `finally` included |
| `FailTask` | a callback that throws inside the try, at an update of a step |

`ProcessQueue` is the while loop with the synchronous part of each executeTask
it calls; `LoopShifts` says how many ids it shifts. The stable sort is defined
by rank (`Precedes`, `Rank`, `SortQueue`). With `StepsMayFail` a callback
may throw at the updates of a step, inside the try: the task fails as the code
means it to. With `CallbackMayThrow` it may throw at every other notifyUpdate: at
the first one, outside the try, the slot leaks; in the `finally` block, the
dispatch is skipped.

Task ids are fresh. submitTask accepts an id from its caller, but only a test
passes one; submitting a live id again is not modelled (§6).

`PriorityScheduler` knows only phases and weights. `ImplementsScheduler` maps
the task states to phases and says that submissions, cancels, completions and
failures are arrivals and ends followed by a dispatch that is heaviest first and
leaves no slot free (unless dispatches may be lost). What a cancelled execution
still does is a stutter.

### Task scheduler and batches

A batch is a sequence of tasks; a node is named by the position its id first
has, and carries the last task of that id, as the code's Map does. One step of
`TaskScheduler` is one round of the loop of generateExecutionPlan. Layers are
sets: their inner order only matters to the log. `ChainsTo(n, k)` are the
sequences of k nodes, each waiting for the one before, that lead up to n; the
layers are compared with them.

`BatchSubmission` extends the orchestrator with one call of submitBatchTasks.
Between its submissions no timer fires and no command runs: the awaited promises
are resolved already. What does run there is the catch of an execution that has
rejected at once, because a callback threw at the first update of its first step
(`AgentOrchestrator.ts:214`): its continuation was queued when executeTask awaited
the rejected promise, that of the batch only when submitTask returned. `due` are the
executions whose catch comes before the batch goes on. A catch frees the slot and
dispatches, and what it starts may reject as well; those are `later`, because by then
the batch's own continuation is in the queue. `CatchRejected` is that catch, and
`SubmitNext` waits until `due` is empty.

### Parallel executor

processQueue is an asynchronous loop; `sleepers` counts the loops in
`wait(100)`. A loop that finds no agent puts its task back before it sleeps,
with no await in between, so the model makes shift, assignment and put-back one
step (`ProcessQueue`), as it is. `execAgent[t]` is the agent that executeTask
was given, which is the one handleTaskComplete releases. An execution's
completion and the `then` it triggers are one step: only microtasks lie between.
`StepsMayFail` covers the coded catch path, which today's executeStep never
takes because the AI call it stands for is still to come. `crossed` is history: the
agents on which an execution was cancelled and not all executions have ended since.

### Autonomous pipeline

Each call of execute or resume is a loop in `loops`, suspended at a stage or in
a backoff. pause and cancel write the status only. The loop's walk over the
stages up to its next await is `Continue`; a lost timeout race has no effect on
the state and is left out. Pipelines share nothing, so one suffices.

### Subscriptions

`stripe` is what Stripe keeps, `events` what it has yet to deliver, `row`,
`userPlan` and `license` the three tables the service writes, one user's rows of
them. A request is a process that knows the subscription and the plan it is about
and stops before each call to Stripe and each statement, because no transaction
joins them.

| Action | Code |
|---|---|
| `CreateInStripe`, `InsertRow`, `UpdateUser`, `UpdateLicense` | createSubscription |
| `ReadRow`, `CancelInStripe` or `CancelAtEndInStripe`, `UpdateRow`, ... | cancelSubscription |
| `ReadRow`, `ChangeInStripe`, `UpdateRow`, ... | changePlan |
| `StripeRefuses`, `RequestFails` | a call or a statement that throws, a crash |
| `ReceiveEvent` | the webhooks of one statement: paid, failed, updated, checkout |
| `ReceiveDeleted`, `UpdateRow`, ... | handleSubscriptionDeleted |
| `Renews`, `Ends` | Stripe by itself (external) |

An event stays in `events` until it is answered with 200, and may stay after it:
Stripe delivers at least once, in any order. `active` and `past_due` are one
status, `running`, since nothing in the code decides on a plan by the difference.
A subscription whose row could not be inserted goes on in Stripe; what happens to
it there finds no row here, so only `Known` subscriptions move.

### Licenses and devices

`LicenseDevices` is verifyLicense of the server, three statements with an await
after each (`GetLicense`, `CountDevices`, `BindDevice`), with the unbinding of
devices and the changes of the license row. `verifier` holds what a request has
read. `LicenseClient` extends it with what each device keeps, in memory
(`cached`) and in its global state (`stored`). The timer, the startup and the
user's command each start a verification, and nothing keeps them apart. An answer
may be lost while the server goes on (`LoseConnection`), and a device may restart
at any point. A valid answer is cached; everything else throws and leaves the cache.

The numbers `change` and `unbind` carried by an answer are history: they say which
version of the license row, and of the binding, it was read from.

### Quota and LLM proxy

A request goes through the steps `plan`, `consume`, `upstream`, `record`, one per
await, and `sleep` between two attempts of the loop in `llmRoutes.ts`. The Lua
script that checks and consumes is one step because Redis runs it as one. A
refusal for want of quota carries status 429 and is tried again like a provider's
own; so is a failed record of usage. `overdrawn` counts what the present plan
would have refused.

### Session

`AuthSession` has one process per call of login, logout, refreshAccessToken or
initialize, with one step per await. `secrets` are the keys that have a value in
the secret store, `session` and `timer` what AuthManager holds in memory, and `phase`
says whether activate still awaits initialize, has gone on, or has failed with it. A
register writes what a login writes and is not apart from it. The server is external:
a request is answered, or not.

| Action | Code |
|---|---|
| `Login`, `Answered`, `SaveTokens`, `FetchUserInfo` | login, register |
| `Refresh`, `ReadRefreshToken`, `Answered`, `SaveTokens`, `FetchUserInfo` | refreshAccessToken |
| `Logout`, `ClearTokens`, `SignedOut` | logout, also from the catch blocks |
| `Restart`, `Restore` | the program ends at any point; activate, initialize |
| `ReadFails` | the reads outside any try (lines 37, 39 and 135), and no refresh token |
| `CallFails` | a request or saveTokens fails: a login throws, a refresh and a start log out |
| `ClearFails` | clearTokens fails inside logout: logout throws before it updates the state |

saveTokens and clearTokens are four operations under one Promise.all: when they
fail, or the program ends in the middle, any of the four may have been done. An
operation still on its way when another has failed counts as done or not, at that
moment. A refresh that fails in initialize logs out twice, once by itself and once in
initialize's catch, also when the first logout has failed (`Throws`). If initialize
rejects, activate fails and nothing of the extension runs until the next start.

Two history variables name what the property excludes: `disturbed`, that a logout ran
beside a call that had its answer already, and `torn`, that clearTokens failed after
it had deleted a part.

## 3. Runs

| Run | Question | Bounds, and why they are enough |
|---|---|---|
| `orchestrator` | do slots, queue and states agree, is no wakeup lost, is service by priority and then in order, does every task end, is the abstract scheduler implemented | 4 tasks on 2 slots: two run, one waits, one arrives, fails or is cancelled; two effective priorities, two steps |
| `batch` | what is left of a plan once the batch is submitted, and what survives callbacks that throw anywhere | batches of up to 3, another task and 2 slots: while the other task holds a slot, a task of the batch that others depend on waits, is passed over or cancelled, and the execution before it rejects at once; LOW and HIGH; one step |
| `scheduler` | is every plan complete, independent and as short as it can be | every batch of up to 3 tasks: all types the rules tell apart, one file or none, one shared id or fresh ones |
| `executor` | do agents, executions and queue agree, and does every task end | 4 tasks, two of them cancellable, a pool growing from 1 to 2, failures: the pool fills, tasks wait, several loops sleep |
| `pipeline` | what holds while nobody interferes, and what survives pause, resume, cancel and execute at any point | 3 stages, 1 retry, 3 loops: three loops can overlap on one stage and on different ones |
| `cloud_billing` | what can be said of Stripe, row, user and license when any statement may be the last and events come late, twice and out of order | 2 requests or deleted events at a time, 2 subscriptions, 2 events on the way: a second subscription meets the first one's events, an upgrade meets a cancellation, an event of each kind waits; all three plans |
| `cloud_licenses` | how far the device limit is passed, what a cached license is worth, in which order licenses are cached | 2 devices, 2 requests in the server, plans free and pro (limits 1 and 3), one change of plan, one unbinding per device: both requests may be of one device or of two, a bound device is unbound and binds again |
| `cloud_llm` | what is charged beyond the limit, does every request end, does the quota come back | 2 requests, 3 retries, limits 1, 3 and none: the first limit is passed by requests that had read the second; changes of plan and windows are not bounded |
| `auth_session` | are a session's tokens in the store and the timer a session's, does a start settle | 2 calls, 1 restart: login, refresh, logout and a start in every pair; saves and deletions stop after any part, and the next start finds what they left |

Three runs end in the violation of something the repository says, each a finding:

| Run | What happens |
|---|---|
| `orchestrator_cancel` | a task cancelled while it runs ends completed |
| `batch_layers` | tests run beside the code generation they depend on |
| `pipeline_paused` | pausing a pipeline marks it completed |

`CHECK_DEADLOCK FALSE` is set where the system really stops: all tasks, loops
or rounds of the bounded instance are over.

Many properties are stated with a premise, because without it they are false of
this code. What the premises exclude, and the models show, is worth knowing:

- `ExecutionLimit` leaves cancelled executions out: cancelTask gives the slot
  away while the timers go on (`AgentOrchestrator.ts:107`), so more executions
  than `maxConcurrentTasks` are in flight after a cancel.
- `FirstComeFirstServed` compares effective priorities: LOW is 0, which
  `|| NORMAL` replaces (`AgentOrchestrator.ts:272`).
- `WorkConserving` and `SubmittedTasksEnd` are checked without `CallbackMayThrow`:
  a callback that throws in the `finally` block skips processQueue
  (`AgentOrchestrator.ts:197`), and one that throws at the first update leaks the
  slot (`AgentOrchestrator.ts:170`).
- `BusyAgentsRunTheirTask` leaves out an agent from a cancel on it until the
  executions on it have ended: cancelTask frees the agent, another task takes it, and
  the end of the cancelled execution frees it again (`ParallelExecutor.ts:219` and
  `272`). The other agents, and this one afterwards, must be in order.
- `StagesCompleteInOrder` holds until someone pauses or cancels: resume during
  the stage that was paused starts a second loop (`autonomous-pipeline.ts:167`),
  both append to `completedStages`, and progress passes 100 (line 183); a
  cancelled pipeline ends completed (line 250).
- submitTask returns a status that may already be RUNNING, where
  `AgentOrchestrator.test.ts:53-66` expects PENDING.
- A task listed before a bug fix does not wait for it, one listed after does
  (`TaskScheduler.ts:130`).
- `RestIsConsistent` leaves out upgrades that were cut short or ran beside another
  change of plan: Stripe, row, user and license then keep what each had
  (`subscriptionService.ts:106`). It speaks of plans and not of the status: a late
  or repeated invoice.paid makes a canceled row active again
  (`subscriptionRoutes.ts:98`), which is why `CancelIsReal` is only one way round.
- Someone who cancelled and subscribes again is charged by Stripe, and then the
  insert violates UNIQUE on the user: `PaidPlanIsRecorded` says that such a
  subscription gives nothing (`subscriptionService.ts:86`).
- The limit of devices holds for one verification at a time only;
  `OvershootIsBounded` says how much it is passed otherwise (`licenseService.ts:148`).
- `ValidMeansBound` allows for devices unbound since the answer: the client
  learns of it at its next verification. A device that is refused keeps its cache
  (`license-manager.ts:94`), and the grace period is looked at only at startup.
- `LicenseGoesForward` leaves out devices that had two verifications under way:
  then the last answer wins, whatever it was read from.
- `StaleChargesAreFew` does not say that a charge is worth an answer: quota consumed
  for a call that failed is not given back, a retry consumes again, and an answer
  whose usage could not be recorded is discarded after it was charged
  (`llmProxyService.ts:96-99`). A streamed answer that fails midway is streamed again.
- `SessionHasTokens` leaves out a logout beside a refresh or a login: the refresh saves
  its tokens afterwards (`auth-manager.ts:159`), or a login starts its timer.
  A session restored from an expired token never gets a timer
  (`auth-manager.ts:43`); the property says nothing of that direction.
- It also allows a session without tokens after a clearTokens that deleted a part
  (`auth-manager.ts:129`): updateAuthState is then not reached. Without its refresh
  token such a session stays, for refreshAccessToken throws before its try (line 137)
  and never logs out.
- `StartSettles` lets a start end with activate failed, tokens in the store or not: a
  read at `auth-manager.ts:37` or `39` fails outside any try, or clearTokens fails in
  the logout of a catch (lines 46 and 55). `StartsLeaveNoTokens` proves that only these
  make it fail.

### Fairness

Timers fire: JavaScript's setTimeout always does, and its continuation runs as
soon as the event loop is free. Hence weak fairness of `NextStep` and
`CompleteTask` per task, of `WakeUp` for the executor's loops, and in the
pipeline of the attempt as a whole, since the timeout settles the race whatever
the model does, and of `BackoffOver`. No fairness is assumed of users
(submitting, cancelling, pausing, executing) nor of failures.

In `LLMProxy` each request has one weak fairness for all its steps together,
failure included: a query, a Redis call and fetch answer or time out, and the pause
of a retry is a timer; which way a call settles is left open. The window of the
quota expires (weak fairness of `Expire`). In `AuthSession` every await of a call
settles likewise. Nothing is assumed of users, of Stripe or of the network.
`Subscriptions` and `LicenseClient` state no fairness and no liveness.

## 4. Proofs

Every theorem holds for all values of the constants that satisfy the named
assumptions of the module it is about; these only give types and, where the code
needs it, say that a number is positive or a set finite. Bounds of the runs (`MaxRestarts`,
`MaxSubs`, ...) are any numbers in the theorems.

### Agent orchestrator and batches

For every set of tasks, number of slots and steps, set of priorities, and with or
without callbacks that throw:

| Theorem | Says |
|---|---|
| `TypeCorrect` | `TypeOK` is invariant |
| `SlotsAgree`, `SlotsAreLimited` | the slots are those of the running tasks, and no more than the limit |
| `QueueAgrees` | the queue holds each pending task once and nothing else |
| `ExecutionsAreLimited` | cancelled ones aside, no more executions than slots |
| `NoOvertakingHolds` | no task starts past a waiting one of higher priority |
| `FirstComeFirstServedHolds` | tasks of one priority start in the order they came |
| `EndIsFinalHolds` | a result is final, and a cancelled task that no execution carries stays cancelled |
| `WorkConservingHolds` | no task waits beside a free slot; assumes `~CallbackMayThrow` |
| `Refinement` | `Spec` implements `PriorityScheduler` |
| `TasksGetOn` | every step that touches a task takes it nearer to its end, within `NumSteps + 3` steps |
| `NeverStuck` | while a task waits or runs, the timer of some execution is pending; assumes `~CallbackMayThrow` |
| `BatchesAreSubmissions` | `BatchSpec` implements `Spec`: a batch is submissions and nothing else |
| `BatchSlotsAgree`, `BatchRefinement` | hence the slots agree and the abstract scheduler is implemented with batches too |
| `DependenciesStart` | in a batch, no task executes while one it depends on, and is no more urgent than, waits |

The assumptions are those `AgentOrchestrator` states of its constants: at least
one slot and one step, priorities within 0..3. `Task` may be infinite. The
theorems about batches also use `BatchFits`: the batch takes ids of `Task`.

None of these properties is inductive. The invariant is `IInv`: the priorities'
type and `Sched`, which is a predicate on *values* of the state rather than on
the variables, since each action computes intermediate fields and hands them to
processQueue. `Sched` says that the fields have their types, the queue is
duplicate-free, **sorted** and holds exactly the pending tasks, the slots are the
running tasks, finite and within the limit, and that an execution belongs to a
running or a cancelled task. Sortedness is what makes shifting the head serve the
most urgent task, and only a sort after every insertion keeps it; the last part
is why the end of a cancelled execution frees nobody's slot.

The argument: the order of the sort is a strict total order on positions
(`PrecedesIsTotalOrder`), so ranks are a bijection (`RankIsBijective`) and
`SortQueue` is a sorted permutation (`SortQueueSorts`); shifting and splicing keep
sortedness (`ShiftSplitsQueue`, `SpliceKeepsOrder`); the loop stops at the limit
(`LoopRespectsLimit`); hence processQueue preserves `Sched`
(`ProcessQueueKeepsSched`), and every action establishes it for the arguments it
passes (`SubmitKeepsSched`, `CancelKeepsSched`, `EndKeepsSched`). The refinement
rests on `ProcessQueueDispatches`: the tasks started and left are those of a
dispatch of the abstract scheduler.

First come, first served adds that the sort is stable (`SortIsStable`) and that
shifting and splicing keep who is ahead of whom (`StepsKeepTheOrder`).
`DependenciesStart` puts both orders to use: `BatchInv` says that the batch is
submitted in order and that whoever comes later is `Behind` a task that waits, it has
not started unless it is more urgent. That is inductive because a start overtakes
no higher priority and no earlier task of the same one, whatever it was that started it:
a submission, an end, or the catch of an execution between two submissions.

`TasksGetOn` counts what is left of a task: the states before it starts, then the
timers its execution still waits for, with one more for a cancel. It is the bound
that liveness needs, and holds although a cancelled task keeps its timers and may
see its state overwritten. `NeverStuck` follows from `WorkConserving` (a task waits
only while all slots are taken), `SlotsAgree` (a slot is a running task) and
`RunningExecutes` (a running task has a timer).

### Scheduler, executor, pipeline

| Module | Theorems | Invariant |
|---|---|---|
| `SchedulerProofs` | `TypeCorrect`, `LayersAreIndependent`, `PlansAreComplete` | `SchedulerInv`: the nodes done are those planned, and the next layer is all that can follow. That the plan is complete takes a least node that is left out: its dependencies are planned, so it is in the next layer. |
| | `LayersAreAsFewAsCanBe` | adds that each layer took all that could follow. Then whatever enters the next layer, the k-th, waits for something in the layer before and so extends a chain of k-1 to one of k (`ChainLonger`), and a longer chain would give one of its dependencies a chain too long for the layer that has it (`LongestChain`). Chains are sequences, not a recursion on the depth, so no induction over data is needed. |
| `ExecutorProofs` | `TypeCorrect`, `NoWakeupIsLost`, `AgentsExecuteTheirTask`, `BusyAgentsAgree`, `TasksStartInOrder`, `PoolGrowsWhenBusy` | `ExecInv`: the tasks submitted but not taken are the last ones and wait in order; an agent's current task executes on it; an agent that is not `crossed` is busy just when one thing executes on it (`Exclusive`), and a `crossed` one has an execution that will clear it; a loop sleeps whenever a task waits. |
| | `TasksGetOn`, `NeverStuck` | `RunningExecutes` adds that a running task has a timer and a busy agent a task. The measure counts the timers left and the slot, which a cancel takes at most once. If nothing executes the whole pool is free, so the loop that sleeps while a task waits will find an agent. |
| `PipelineProofs` | `TypeCorrect`, `PrerequisitesHold`, `NeverHangs`, `StagesInOrder` | `PipelineInv`: the stages before a loop's are completed; a running or paused pipeline has a loop; a backoff has a retry left; and, while nobody interferes, a loop is at the stage after the last completed one. |
| | `ExecutionsGetOn` | a loop goes forward through stages and attempts, in lexicographic order, and is never started twice |
| | `OnlyPausesSkipStages` | outside a pause, a pipeline becomes completed only with all its stages done: the run `Pipeline_paused` shows the one way round that there is |

### Cloud and session

| Module | Theorems | Invariant |
|---|---|---|
| `SubscriptionsProofs` | `PaidPlansAreRecorded`, `CancellationsAreReal` | `BillingInv`: what an event, a request or the row claims of Stripe is so. Stripe never takes back a cancellation, so a claim stays true however late it is used; that is what late and repeated events come to. |
| | `AgreesAtRest` | `RestInv` adds, as long as nothing is `disturbed`: at most one upgrade at a time, it knows the plan in force, and whatever disagrees with it has a writer on the way or a deleted event that is not answered. |
| | `PlansAreSetWhole` | what `LicenseDevices` and `LLMProxy` assume of the subscriptions, from `BillingInv`: user and license are set one at a time and to a plan |
| `LicenseProofs` | `OvershootHolds`, `ClientsImplementServer` | `DevicesInv`: every verification goes by a limit the license once had. The clients' module implements the server's, so the bound is proved of the server alone. |
| | `ValidLicensesAreBound` | `BindingsInv`: a valid answer, cache or store was a binding at its number of unbindings, which no step but an unbinding ends. |
| | `LicensesGoForward` | `OrderInv`: a device with one verification at a time awaits an answer that was read after what it has cached. |
| `LLMProxyProofs` | `TypeCorrect`, `OverdrawnIsBounded` | the property itself with the types: a request that has read an older plan is counted before it charges, and its charge takes its place. |
| | `CounterHasWindow`, `QuotaComesBackWithTime` | `WindowInv`: no counter without a window, so the end of a window is the end of the count |
| | `RequestsGetOn` | a request has five steps for each attempt left, and each of its steps takes one away |
| `AuthSessionProofs` | `SessionsHaveTokens` | `ClientInv`: without a `disturbed` logout, a call that awaits the user's data has its tokens in the store, one that logs out has stopped the timer, and a session without tokens has a logout about to end it or is `torn`. |
| | `StartsLeaveNoTokens`, `StartsSettleWhenTheyEnd` | `BootInv`: until a start has ended there is one call, which is no login, no session, and an empty store as soon as that call is about to end with a logout |
| | `CallsGetOn` | a call is at most nine steps from its end; only a restart puts it back |

### What only TLC checks

The liveness properties `SubmittedTasksEnd` of the orchestrator and of the executor,
`ExecutionsEnd` and `RequestsEnd`: the prover does not reason about fairness, which
needs ENABLED. What they rest on beside it is proved for every value of the constants: each
step lowers a bounded measure (`TasksGetOn`, `ExecutionsGetOn`, `RequestsGetOn`,
`CallsGetOn`), and what is unfinished has a timer, a call or a loop to take the
next step (`NeverStuck`, `NeverHangs`). TLC checks that the fairness of section 3 then
takes it. `QuotaComesBack` and `StartSettles` are proved for behaviours in which windows
and starts do end (`[]<>(~window)`, `[]<>~Starting`); that they end is again fairness, and TLC's.

## 5. What is not modelled

`PROJECT.json` lists every component with its status and the reason. In short:

- **Views, reports, network and file I/O** (orchestrator views, telemetry, scaffolding,
  updater, settings, storage and its compression, migrations in one transaction,
  configuration, adapters): what they keep is replaced as a whole or only shown.
- **Text and scoring** (context engine, cost, quality, knowledge graph,
  embeddings, completion, skills, hybrid router): pure functions of large data.
- **Event bus and capability registry**: every subscription lives as long as its
  extension and no handler subscribes or disposes, so emit is a loop over a fixed
  set. (Two disposables of one handler could delete a newer set; no caller makes two.)
- **Chat panel**: an answer that comes after the session was changed is saved with
  the new one, and no doc or test says what should happen. It is listed as a hazard.
- **Upstream code** of VS Code, its extensions, the Rust CLI and the build.

Inside the modelled components: the texts (prompts, step names, logs, reports),
durations, AgentPool.cleanup and reset (no callers), lookups that change nothing;
task ids that a caller reuses; the offline grace period, which only decides what is
announced; resetQuota and usageService, which no route calls. An `invalid`
or `expired` answer of verifyLicense is cached without features by the client; the
model's licenses exist and have no expiry, as nothing in the repository sets one.
The services of licenses, subscriptions and the proxy are modelled as they are
written, although `routes/index.ts` mounts no route of theirs yet.

The server's side of authentication is not modelled. `routes/auth.ts` mounts only
register and login, single lookups and statements; the client's refresh, its `me` and
the reset of a password have no route. Were refresh mounted, it would fail:
`refreshToken` signs the payload it has verified, `exp` included, with an `expiresIn`
(`authService.ts:174`, `jwt-rs256.ts:80`), and jwt.sign throws for that, so the revocation
of refresh tokens decides nothing today. The client is modelled against any server:
its address is a setting (`miaoda.auth.apiBaseUrl`). This repository's own login answers
with the tokens one level deeper than the client reads them, so that against it every
login fails in saveTokens, which is among the answers of the model.

## 6. What could come next

1. Reused ids in `AgentOrchestrator`: a status object replaced under an execution.
2. The chat panel, once it is settled where a late answer belongs.
3. Composing `Subscriptions` with `LicenseClient` and `LLMProxy`, which
   know the plan as something that changes at any time, under the changes
   `PlansAreSetWhole` allows: every behaviour of the composition is one of theirs, so
   it would only add properties that span them.
4. The pool's cleanup, when something calls it.
