\* the scenario of docs/archive/NEXT_STEPS.md:143-156
SPECIFICATION BatchSpec
CONSTANTS
    Task = {1, 2, 3}
    MaxConcurrent = 3
    NumSteps = 4
    Priorities = {1}
    StepsMayFail = FALSE
    CallbackMayThrow = FALSE
    TaskType = {"code_generation", "test_generation"}
    File = {}
    NoFile = NoFile
    NoId = NoId
    MaxBatch = 3
INVARIANT LayersRunInOrder
\* every task may have ended
CHECK_DEADLOCK FALSE
