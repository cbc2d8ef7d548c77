----------------------------- MODULE MCLLMProxy -----------------------------
EXTENDS LLMProxy

\* Limits of 50 and 500 are as 1 and 3: the lower is passed in one window by requests
\* that were judged by the higher.
SmallLimits == [plan \in Plan |->
    CASE plan = "free" -> 1 [] plan = "pro" -> 3 [] plan = "business" -> Unlimited]
=============================================================================
