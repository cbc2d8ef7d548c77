\* four tasks, two of them cancellable, on a pool that grows from one agent to
\* two; executions may fail
SPECIFICATION FairSpec
CONSTANTS
    MaxAgents = 2
    InitialAgents = 1
    NoTask = NoTask
    NumTasks = 4
    MaxBatch = 3
    NumSteps = 2
    Cancels = {2, 3}
    StepsMayFail = TRUE
INVARIANTS
    TypeOK
    WaitingTasksArePolled
    CurrentTaskExecutes
    BusyAgentsRunTheirTask
    StartsInOrder
PROPERTIES
    NoIdleAgentWhileWaiting
    SubmittedTasksEnd
\* every task may have ended
CHECK_DEADLOCK FALSE
