CONSTANTS
    Request = {r1, r2}
    MaxRetries = 3
    Limit <- SmallLimits
SPECIFICATION Spec
INVARIANT StaleChargesAreFew
PROPERTIES
    RequestsEnd
    QuotaComesBack
CHECK_DEADLOCK FALSE
