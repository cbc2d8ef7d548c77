\* two calls at a time and one restart; every request and every operation of the store may fail
CONSTANTS
    Call = {c1, c2}
    MaxRestarts = 1
SPECIFICATION Spec
INVARIANT SessionHasTokens
PROPERTY StartSettles
CHECK_DEADLOCK FALSE
