SPECIFICATION Spec
CONSTANTS
    Task = {t1, t2, t3}
    MaxConcurrent = 1
    NumSteps = 2
    Priorities = {0, 1}
    StepsMayFail = FALSE
    CallbackMayThrow = FALSE
PROPERTY CancelledStaysCancelled
CHECK_DEADLOCK FALSE
