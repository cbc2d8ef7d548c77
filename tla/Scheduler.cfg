\* all types and one id that several tasks may share
SPECIFICATION Spec
CONSTANTS
    TaskType = {"code_generation", "test_generation", "code_refactoring", "code_review", "documentation", "bug_fix", "research"}
    File = {f}
    NoFile = NoFile
    Id = {a}
    NoId = NoId
    MaxBatch = 3
INVARIANTS
    TypeOK
    LayersRespectDependencies
    PlanIsComplete
    LayersAreChainLengths
\* the loop ends
CHECK_DEADLOCK FALSE
