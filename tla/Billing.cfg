CONSTANTS
    Request = {r1, r2}
    MaxSubs = 2
    MaxPending = 2
SYMMETRY Symmetry
SPECIFICATION Spec
INVARIANTS
    PaidPlanIsRecorded
    CancelIsReal
    RestIsConsistent
CHECK_DEADLOCK FALSE
