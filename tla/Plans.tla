------------------------------- MODULE Plans -------------------------------
\* The plans and what they allow, for the modules of the cloud service.
LOCAL INSTANCE Naturals

Plan == {"free", "pro", "business"}

PaidPlan == Plan \ {"free"}

MaxDevices(plan) ==
    CASE plan = "free" -> 1 [] plan = "pro" -> 3 [] plan = "business" -> 10

\* what every statement that sets a license's plan writes in its row
LicenseOf(plan) == [plan |-> plan, maxDevices |-> MaxDevices(plan)]
=============================================================================
