\* four tasks, two slots: every order of submissions, cancels, timers and
\* failures
SPECIFICATION FairSpec
CONSTANTS
    Task = {t1, t2, t3, t4}
    MaxConcurrent = 2
    NumSteps = 2
    Priorities = {1, 2}
    StepsMayFail = TRUE
    CallbackMayThrow = FALSE
INVARIANTS
    TypeOK
    SlotsAreRunningTasks
    QueueIsPendingTasks
    ExecutionLimit
    WorkConserving
PROPERTIES
    FirstComeFirstServed
    EndIsFinal
    SubmittedTasksEnd
    ImplementsScheduler
\* every task may have ended
CHECK_DEADLOCK FALSE
