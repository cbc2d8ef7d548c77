------------------------------ MODULE LLMProxy ------------------------------
(***************************************************************************)
(* Requests of one user to the LLM proxy: the retry loop of llmRoutes.ts,  *)
(* the calls of llmProxyService.ts in it and the quota of quotaService.ts. *)
(*                                                                         *)
(* A request is a process with one step per await.  The script that checks *)
(* and consumes the quota is one step, since Redis runs it as one.  The    *)
(* plan of the user changes meanwhile, as the subscriptions change it, and *)
(* the counter expires when its window is over.  A streamed answer takes   *)
(* the same steps as one that is sent whole.                               *)
(***************************************************************************)
EXTENDS Plans, Integers, FiniteSets

CONSTANTS
    Request,      \* requests of the user that the server handles at a time
    MaxRetries,
    Limit         \* QUOTA_LIMITS: the requests per window of each plan, -1 for no limit

Unlimited == -1

ASSUME ProxyAssumption ==
    /\ IsFiniteSet(Request)
    /\ MaxRetries \in Nat
    /\ Limit \in [Plan -> Nat \cup {Unlimited}]

VARIABLES
    userPlan,    \* users.plan
    counter,     \* the key quota:<user> in Redis; 0 when there is none
    window,      \* whether the key has a time to live
    request,     \* what each request knows and where it is
    overdrawn    \* history: what the present plan, in the present window, would have refused

vars == <<userPlan, counter, window, request, overdrawn>>
quotaVars == <<counter, window, overdrawn>>

\* A model is named here by the least plan that allows it.
Rank(plan) == CASE plan = "free" -> 0 [] plan = "pro" -> 1 [] plan = "business" -> 2

IsModelAllowed(model, plan) == Rank(model) <= Rank(plan)

Ended == [at |-> "idle", model |-> "free", plan |-> "free", attempt |-> 0]

TypeOK ==
    /\ userPlan \in Plan
    /\ counter \in Nat
    /\ window \in BOOLEAN
    /\ request \in [Request -> [at : {"idle", "plan", "consume", "upstream", "record", "sleep"},
                                model : Plan, plan : Plan, attempt : Nat]]
    /\ overdrawn \in Nat

Init ==
    /\ userPlan \in Plan
    /\ counter = 0
    /\ window = FALSE
    /\ request = [r \in Request |-> Ended]
    /\ overdrawn = 0

----------------------------------------------------------------------------
At(r, at) == request[r].at = at

Goto(r, at) == request' = [request EXCEPT ![r].at = at]

\* Once the plan allows the model every error is taken for a 500 or is a 429, the
\* proxy's own refusal for want of quota included: it is tried again after a pause.
HasRetries(attempt) == attempt < MaxRetries

Throw(r) ==
    request' = [request EXCEPT ![r] =
        IF HasRetries(@.attempt) THEN [@ EXCEPT !.at = "sleep"] ELSE Ended]

Start(r, model) ==
    /\ At(r, "idle")
    /\ request' = [request EXCEPT ![r] = [Ended EXCEPT !.at = "plan", !.model = model]]
    /\ UNCHANGED <<userPlan, quotaVars>>

SameAttempt(attempt) == attempt
NextAttempt(attempt) == attempt + 1

QuotaFirst == "consume"
PlanFirst == "plan"

\* the pause is over: the next attempt begins with the plan again
Retry(r) ==
    /\ At(r, "sleep")
    /\ request' = [request EXCEPT ![r].at = PlanFirst, ![r].attempt = NextAttempt(@)]
    /\ UNCHANGED <<userPlan, quotaVars>>

\* getUserPlan and isModelAllowed, whose 403 is not tried again
GetUserPlan(r) ==
    /\ At(r, "plan")
    /\ request' = [request EXCEPT ![r] =
            IF IsModelAllowed(@.model, userPlan)
            THEN [@ EXCEPT !.at = "consume", !.plan = userPlan]
            ELSE Ended]
    /\ UNCHANGED <<userPlan, quotaVars>>

Fits(used, plan) == Limit[plan] = Unlimited \/ used + 1 <= Limit[plan]

SetWindowLate(used) == used = 1
SetsWindow(used) == used = 0

\* consumeQuota, which knows the plan its caller has read
ConsumeQuota(r) ==
    LET plan == request[r].plan IN
    /\ At(r, "consume")
    /\ Fits(counter, plan)
    /\ IF Limit[plan] = Unlimited
       THEN UNCHANGED quotaVars
       ELSE /\ counter' = counter + 1
            /\ window' = (window \/ SetsWindow(counter))
            /\ overdrawn' = IF Fits(counter, userPlan) THEN overdrawn ELSE overdrawn + 1
    /\ Goto(r, "upstream")
    /\ UNCHANGED userPlan

RefuseQuota(r) ==
    /\ At(r, "consume")
    /\ ~Fits(counter, request[r].plan)
    /\ Throw(r)
    /\ UNCHANGED <<userPlan, quotaVars>>

UpstreamAnswers(r) ==
    /\ At(r, "upstream")
    /\ Goto(r, "record")
    /\ UNCHANGED <<userPlan, quotaVars>>

\* the usage is inserted and the answer sent
RecordUsage(r) ==
    /\ At(r, "record")
    /\ request' = [request EXCEPT ![r] = Ended]
    /\ UNCHANGED <<userPlan, quotaVars>>

\* A statement, Redis or the provider fails.  What was consumed is not given back, and an
\* answer whose usage could not be recorded is thrown away and asked for again.
Fail(r) ==
    /\ request[r].at \in {"plan", "consume", "upstream", "record"}
    /\ Throw(r)
    /\ UNCHANGED <<userPlan, quotaVars>>

Crash ==
    /\ \E r \in Request : ~At(r, "idle")
    /\ request' = [r \in Request |-> Ended]
    /\ UNCHANGED <<userPlan, quotaVars>>

\* the window is over
Expire ==
    /\ window
    /\ counter' = 0
    /\ window' = FALSE
    /\ overdrawn' = 0
    /\ UNCHANGED <<userPlan, request>>

SetUserPlan(plan) ==
    /\ plan # userPlan
    /\ userPlan' = plan
    /\ overdrawn' = 0
    /\ UNCHANGED <<counter, window, request>>

Next ==
    \/ \E r \in Request, model \in Plan : Start(r, model)
    \/ \E r \in Request : Retry(r)
    \/ \E r \in Request : GetUserPlan(r)
    \/ \E r \in Request : ConsumeQuota(r)
    \/ \E r \in Request : RefuseQuota(r)
    \/ \E r \in Request : UpstreamAnswers(r)
    \/ \E r \in Request : RecordUsage(r)
    \/ \E r \in Request : Fail(r)
    \/ Crash
    \/ Expire
    \/ \E plan \in Plan : SetUserPlan(plan)

\* Every call settles: the database, Redis and fetch answer or time out, and a timer
\* fires.  The window passes, whatever else happens.
Fairness ==
    /\ \A r \in Request :
        WF_vars(Retry(r) \/ GetUserPlan(r) \/ ConsumeQuota(r) \/ RefuseQuota(r)
                \/ UpstreamAnswers(r) \/ RecordUsage(r) \/ Fail(r))
    /\ WF_vars(Expire)

Spec == Init /\ [][Next]_vars /\ Fairness

----------------------------------------------------------------------------
Stale == {r \in Request : At(r, "consume") /\ request[r].plan # userPlan}

\* The plan is read before the quota is consumed, so a change of plan in between is judged
\* by the old limit.  Within one plan and one window no more is consumed beyond the plan's
\* limit than there are requests at a time: an attempt is judged by the old plan at most
\* once, since a retry reads the plan again.
StaleChargesAreFew == overdrawn + Cardinality(Stale) <= Cardinality(Request)

\* Every request is answered or refused, though the proxy tries its own refusals again,
\* whatever fails and however the plan changes.
RequestsEnd == \A r \in Request : ~At(r, "idle") ~> At(r, "idle")

\* A user who has consumed quota gets it back: the counter never lacks a window to end it.
QuotaComesBack == counter > 0 ~> counter = 0
=============================================================================
