\* up to three tasks in a batch and another on its own, two slots: while the other
\* task runs, one task of the batch waits on another; LOW (which becomes NORMAL)
\* and HIGH; callbacks that throw at any update, the first of an execution included
SPECIFICATION BatchSpec
CONSTANTS
    Task = {1, 2, 3, 4}
    MaxConcurrent = 2
    NumSteps = 1
    Priorities = {0, 2}
    StepsMayFail = TRUE
    CallbackMayThrow = TRUE
    TaskType = {"code_generation", "test_generation"}
    File = {}
    NoFile = NoFile
    NoId = NoId
    MaxBatch = 3
INVARIANTS
    BatchTypeOK
    DependenciesStartFirst
    SlotsAreRunningTasks
\* every task may have ended
CHECK_DEADLOCK FALSE
