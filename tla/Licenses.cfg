CONSTANTS
    Device = {d1, d2}
    Verifier = {v1, v2}
    NoDevice = noDevice
    Offered = {"free", "pro"}
    MaxChanges = 1
    MaxUnbinds = 1
SYMMETRY Symmetry
SPECIFICATION Spec
INVARIANTS
    OvershootIsBounded
    ValidMeansBound
PROPERTY LicenseGoesForward
CHECK_DEADLOCK FALSE
