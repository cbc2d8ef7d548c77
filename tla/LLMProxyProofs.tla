--------------------------- MODULE LLMProxyProofs ---------------------------
(***************************************************************************)
(* For every number of requests, every bound on the retries and all        *)
(* limits: what is charged beyond the plan's limit stays bounded.  That is *)
(* inductive with the types alone: a request that has read an older plan   *)
(* is counted before it charges, and its charge takes its place.  A count  *)
(* never lacks a window, and every request gets nearer to its end.         *)
(***************************************************************************)
EXTENDS LLMProxy, FiniteSetTheorems, TLAPS

\* Throw keeps the types of the requests.
LEMMA ThrowType ==
    ASSUME TypeOK, NEW r \in Request, Throw(r)
    PROVE  request' \in [Request -> [at : {"idle", "plan", "consume", "upstream", "record", "sleep"},
                                     model : Plan, plan : Plan, attempt : Nat]]
<1>1. Ended \in [at : {"idle", "plan", "consume", "upstream", "record", "sleep"},
                 model : Plan, plan : Plan, attempt : Nat]
    BY DEF Ended, Plan
<1>2. CASE HasRetries(request[r].attempt)
    BY <1>2 DEF Throw, TypeOK
<1>3. CASE ~HasRetries(request[r].attempt)
    BY <1>1, <1>3 DEF Throw, TypeOK
<1> QED
    BY <1>2, <1>3

LEMMA TypeInit == Init => TypeOK
<1> SUFFICES ASSUME Init PROVE TypeOK
    OBVIOUS
<1>1. Ended \in [at : {"idle", "plan", "consume", "upstream", "record", "sleep"},
                 model : Plan, plan : Plan, attempt : Nat]
    BY DEF Ended, Plan
<1> QED
    BY <1>1 DEF Init, TypeOK

\* Every step keeps the types.
LEMMA TypeStep == TypeOK /\ [Next]_vars => TypeOK'
<1> SUFFICES ASSUME TypeOK, [Next]_vars PROVE TypeOK'
    OBVIOUS
<1> USE DEF quotaVars
<1>1. ASSUME NEW r \in Request, NEW model \in Plan, Start(r, model) PROVE TypeOK'
    BY <1>1 DEF TypeOK, Start, Ended, Plan
<1>2. ASSUME NEW r \in Request, Retry(r) PROVE TypeOK'
    BY <1>2 DEF TypeOK, Retry, PlanFirst, NextAttempt
<1>3. ASSUME NEW r \in Request, GetUserPlan(r) PROVE TypeOK'
    BY <1>3, ZenonT(60) DEF TypeOK, GetUserPlan, Ended, Plan
<1>4. ASSUME NEW r \in Request, ConsumeQuota(r) PROVE TypeOK'
    <2>1. request' \in [Request -> [at : {"idle", "plan", "consume", "upstream", "record", "sleep"},
                                    model : Plan, plan : Plan, attempt : Nat]]
        BY <1>4 DEF TypeOK, ConsumeQuota, Goto
    <2>2. counter' \in Nat /\ overdrawn' \in Nat /\ userPlan' \in Plan
        BY <1>4 DEF TypeOK, ConsumeQuota
    <2>3. window' \in BOOLEAN
        BY <1>4, Zenon DEF TypeOK, ConsumeQuota
    <2> QED
        BY <2>1, <2>2, <2>3 DEF TypeOK
<1>5. ASSUME NEW r \in Request, RefuseQuota(r) PROVE TypeOK'
    BY <1>5, ThrowType DEF TypeOK, RefuseQuota
<1>6. ASSUME NEW r \in Request, UpstreamAnswers(r) PROVE TypeOK'
    BY <1>6 DEF TypeOK, UpstreamAnswers, Goto
<1>7. ASSUME NEW r \in Request, RecordUsage(r) PROVE TypeOK'
    BY <1>7 DEF TypeOK, RecordUsage, Ended, Plan
<1>8. ASSUME NEW r \in Request, Fail(r) PROVE TypeOK'
    BY <1>8, ThrowType DEF TypeOK, Fail
<1>9. CASE Crash
    BY <1>9 DEF TypeOK, Crash, Ended, Plan
<1>10. CASE Expire
    BY <1>10 DEF TypeOK, Expire
<1>11. ASSUME NEW plan \in Plan, SetUserPlan(plan) PROVE TypeOK'
    BY <1>11 DEF TypeOK, SetUserPlan
<1>12. CASE UNCHANGED vars
    BY <1>12 DEF TypeOK, vars
<1> QED
    BY <1>1, <1>2, <1>3, <1>4, <1>5, <1>6, <1>7, <1>8, <1>9, <1>10, <1>11, <1>12 DEF Next

\* The variables keep their types whatever the constants are.
THEOREM TypeCorrect == Spec => []TypeOK
    BY TypeInit, TypeStep, PTL DEF Spec

----------------------------------------------------------------------------
LEMMA SizeOfRequests ==
    ASSUME NEW S, S \subseteq Request
    PROVE  IsFiniteSet(S) /\ Cardinality(S) \in Nat /\ Cardinality(S) <= Cardinality(Request)
<1>1. IsFiniteSet(Request)
    BY ProxyAssumption
<1>2. IsFiniteSet(S) /\ Cardinality(S) <= Cardinality(Request)
    BY <1>1, FS_Subset
<1> QED
    BY <1>2, FS_CardinalityType

\* Nothing is lost as long as nothing is charged and no request comes to hold an old plan.
LEMMA FewerStale ==
    ASSUME TypeOK, StaleChargesAreFew, Stale' \subseteq Stale, overdrawn' = overdrawn
    PROVE  StaleChargesAreFew'
<1>1. Stale \subseteq Request /\ Stale' \subseteq Request
    BY DEF Stale
<1>2. IsFiniteSet(Stale) /\ Cardinality(Stale) \in Nat /\ Cardinality(Request) \in Nat
    BY <1>1, SizeOfRequests
<1>3. Cardinality(Stale') <= Cardinality(Stale) /\ Cardinality(Stale') \in Nat
    BY <1>1, <1>2, FS_Subset, SizeOfRequests
<1>4. overdrawn \in Nat
    BY DEF TypeOK
<1> QED
    BY <1>2, <1>3, <1>4 DEF StaleChargesAreFew

\* A new plan or a new window starts the count again.
LEMMA CountStartsAgain ==
    ASSUME overdrawn' = 0 PROVE StaleChargesAreFew'
<1>1. Stale' \subseteq Request
    BY DEF Stale
<1>2. Cardinality(Stale') <= Cardinality(Request) /\ Cardinality(Stale') \in Nat
    BY <1>1, SizeOfRequests
<1> QED
    BY <1>2 DEF StaleChargesAreFew

\* The only step that charges beyond the present limit is one of a request that holds an
\* older plan, and it holds none any more after it.
LEMMA ChargeOfStale ==
    ASSUME TypeOK, StaleChargesAreFew, NEW r \in Request, ConsumeQuota(r)
    PROVE  StaleChargesAreFew'
<1>1. Stale' = Stale \ {r}
    BY DEF ConsumeQuota, Stale, At, Goto, TypeOK
<1>2. CASE overdrawn' = overdrawn
    BY <1>1, <1>2, FewerStale
<1>3. CASE overdrawn' # overdrawn
    <2>1. overdrawn' = overdrawn + 1 /\ ~Fits(counter, userPlan) /\ Fits(counter, request[r].plan)
        BY <1>3 DEF ConsumeQuota, quotaVars
    <2>2. r \in Stale
        BY <2>1 DEF Stale, ConsumeQuota
    <2>3. Stale \subseteq Request
        BY DEF Stale
    <2>4. IsFiniteSet(Stale) /\ Cardinality(Stale) \in Nat /\ Cardinality(Request) \in Nat
        BY <2>3, SizeOfRequests
    <2>5. Cardinality(Stale \ {r}) = Cardinality(Stale) - 1
        BY <2>2, <2>4, FS_RemoveElement
    <2>6. overdrawn \in Nat
        BY DEF TypeOK
    <2> QED
        BY <1>1, <2>1, <2>4, <2>5, <2>6 DEF StaleChargesAreFew
<1> QED
    BY <1>2, <1>3

LEMMA StaleStep == TypeOK /\ StaleChargesAreFew /\ [Next]_vars => StaleChargesAreFew'
<1> SUFFICES ASSUME TypeOK, StaleChargesAreFew, [Next]_vars PROVE StaleChargesAreFew'
    OBVIOUS
<1> USE DEF quotaVars, At, TypeOK
<1>1. ASSUME NEW r \in Request, NEW model \in Plan, Start(r, model) PROVE StaleChargesAreFew'
    <2>1. Stale' \subseteq Stale /\ overdrawn' = overdrawn
        BY <1>1 DEF Start, Stale, Ended
    <2> QED
        BY <2>1, FewerStale
<1>2. ASSUME NEW r \in Request, Retry(r) PROVE StaleChargesAreFew'
    <2>1. Stale' \subseteq Stale /\ overdrawn' = overdrawn
        BY <1>2 DEF Retry, Stale, PlanFirst
    <2> QED
        BY <2>1, FewerStale
<1>3. ASSUME NEW r \in Request, GetUserPlan(r) PROVE StaleChargesAreFew'
    <2>1. Stale' \subseteq Stale /\ overdrawn' = overdrawn
        BY <1>3 DEF GetUserPlan, Stale, Ended
    <2> QED
        BY <2>1, FewerStale
<1>4. ASSUME NEW r \in Request, ConsumeQuota(r) PROVE StaleChargesAreFew'
    BY <1>4, ChargeOfStale
<1>5. ASSUME NEW r \in Request, Throw(r), UNCHANGED <<userPlan, quotaVars>>
      PROVE  StaleChargesAreFew'
    <2>1. Stale' \subseteq Stale /\ overdrawn' = overdrawn
        BY <1>5 DEF Throw, Stale, Ended
    <2> QED
        BY <2>1, FewerStale
<1>6. ASSUME NEW r \in Request, UpstreamAnswers(r) PROVE StaleChargesAreFew'
    <2>1. Stale' \subseteq Stale /\ overdrawn' = overdrawn
        BY <1>6 DEF UpstreamAnswers, Goto, Stale
    <2> QED
        BY <2>1, FewerStale
<1>7. ASSUME NEW r \in Request, RecordUsage(r) PROVE StaleChargesAreFew'
    <2>1. Stale' \subseteq Stale /\ overdrawn' = overdrawn
        BY <1>7 DEF RecordUsage, Stale, Ended
    <2> QED
        BY <2>1, FewerStale
<1>8. CASE Crash
    <2>1. Stale' \subseteq Stale /\ overdrawn' = overdrawn
        BY <1>8 DEF Crash, Stale, Ended
    <2> QED
        BY <2>1, FewerStale
<1>9. CASE Expire
    BY <1>9, CountStartsAgain DEF Expire
<1>10. ASSUME NEW plan \in Plan, SetUserPlan(plan) PROVE StaleChargesAreFew'
    BY <1>10, CountStartsAgain DEF SetUserPlan
<1>11. CASE UNCHANGED vars
    <2>1. Stale' \subseteq Stale /\ overdrawn' = overdrawn
        BY <1>11 DEF vars, Stale
    <2> QED
        BY <2>1, FewerStale
<1> QED
    BY <1>1, <1>2, <1>3, <1>4, <1>5, <1>6, <1>7, <1>8, <1>9, <1>10, <1>11
    DEF Next, RefuseQuota, Fail

\* Whatever the limits, the retries and the changes of plan, no more is charged beyond the
\* limit of the present plan, in its window, than there are requests at a time.
THEOREM OverdrawnIsBounded == Spec => []StaleChargesAreFew
<1>1. Init => StaleChargesAreFew
    <2> SUFFICES ASSUME Init PROVE StaleChargesAreFew
        OBVIOUS
    <2>1. Stale \subseteq Request /\ overdrawn = 0
        BY DEF Init, Stale
    <2>2. Cardinality(Stale) \in Nat /\ Cardinality(Stale) <= Cardinality(Request)
        BY <2>1, SizeOfRequests
    <2> QED
        BY <2>1, <2>2 DEF StaleChargesAreFew
<1> QED
    BY <1>1, TypeCorrect, StaleStep, PTL DEF Spec

----------------------------------------------------------------------------
(* The counter and its window. *)

WindowInv == window <=> counter > 0

LEMMA WindowStep == TypeOK /\ WindowInv /\ [Next]_vars => WindowInv'
<1> SUFFICES ASSUME TypeOK, WindowInv, [Next]_vars PROVE WindowInv'
    OBVIOUS
<1>1. ASSUME NEW r \in Request, ConsumeQuota(r), ~UNCHANGED quotaVars PROVE WindowInv'
    <2>1. counter' = counter + 1 /\ counter \in Nat /\ (window' = (window \/ counter = 0))
        BY <1>1, Zenon DEF ConsumeQuota, SetsWindow, TypeOK
    <2>2. counter > 0 \/ counter = 0
        BY <2>1
    <2>3. window'
        BY <2>1, <2>2 DEF WindowInv
    <2>4. counter' > 0
        BY <2>1
    <2> QED
        BY <2>3, <2>4 DEF WindowInv
<1>2. CASE Expire
    <2>1. ~window' /\ counter' = 0
        BY <1>2 DEF Expire
    <2>2. ~(counter' > 0)
        BY <2>1
    <2> QED
        BY <2>1, <2>2 DEF WindowInv
<1>3. CASE UNCHANGED <<counter, window>>
    BY <1>3 DEF WindowInv
<1> QED
    BY <1>1, <1>2, <1>3
    DEF Next, vars, quotaVars, Start, Retry, GetUserPlan, RefuseQuota, UpstreamAnswers, RecordUsage,
        Fail, Crash, SetUserPlan

LEMMA WindowHolds == Spec => []WindowInv
<1>1. Init => WindowInv
    BY DEF Init, WindowInv
<1> QED
    BY <1>1, TypeCorrect, WindowStep, PTL DEF Spec

\* The counter never lacks a time to live: the script that counts the first request sets it.
\* Were it set one request late, a user could be shut out for good.
THEOREM CounterHasWindow == Spec => [](counter > 0 => window)
<1>1. WindowInv => (counter > 0 => window)
    BY DEF WindowInv
<1> QED
    BY <1>1, WindowHolds, PTL

\* So consumed quota comes back if only windows end: all that is left to the fairness of the
\* run is that time passes.
THEOREM QuotaComesBackWithTime == Spec /\ []<>(~window) => QuotaComesBack
<1>1. TypeOK /\ WindowInv /\ ~window => counter = 0
    BY DEF TypeOK, WindowInv
<1> QED
    BY <1>1, TypeCorrect, WindowHolds, PTL DEF QuotaComesBack

----------------------------------------------------------------------------
(* The steps of a request. *)

\* the most steps a request in state q can still take: five for each attempt it has left,
\* and what is left of the present one
StepsLeft(q) ==
    IF q.at = "idle" THEN 0
    ELSE 5 * (MaxRetries - q.attempt) +
         CASE q.at = "plan" -> 5
           [] q.at = "consume" -> 4
           [] q.at = "upstream" -> 3
           [] q.at = "record" -> 2
           [] OTHER -> 1

\* a request sleeps only when a retry is left to it
AttemptsInv ==
    \A r \in Request :
        /\ request[r].attempt <= MaxRetries
        /\ At(r, "sleep") => request[r].attempt < MaxRetries

GetsOn(r) ==
    \/ request'[r] = request[r]
    \/ At(r, "idle")
    \/ StepsLeft(request'[r]) < StepsLeft(request[r])

\* Where a request is that is under way, and how far that is from its end.
LEMMA StepsLeftType ==
    ASSUME TypeOK, AttemptsInv, NEW r \in Request
    PROVE  /\ StepsLeft(request[r]) \in 0 .. 5 * (MaxRetries + 1)
           /\ ~At(r, "idle") => StepsLeft(request[r]) > 0
<1>1. /\ request[r].at \in {"idle", "plan", "consume", "upstream", "record", "sleep"}
      /\ request[r].attempt \in Nat /\ request[r].attempt <= MaxRetries /\ MaxRetries \in Nat
    BY ProxyAssumption DEF TypeOK, AttemptsInv
<1> QED
    BY <1>1 DEF StepsLeft, At

\* What Throw leaves of a request: the end, or a pause that a retry follows.
LEMMA ThrowGetsOn ==
    ASSUME TypeOK, AttemptsInv, NEW r \in Request, Throw(r), ~At(r, "idle"), ~At(r, "sleep")
    PROVE  AttemptsInv' /\ \A q \in Request : GetsOn(q)
<1>1. /\ MaxRetries \in Nat /\ request \in [Request -> [at : {"idle", "plan", "consume", "upstream",
            "record", "sleep"}, model : Plan, plan : Plan, attempt : Nat]]
      /\ StepsLeft(request[r]) > 0 /\ StepsLeft(Ended) = 0
    BY ProxyAssumption, StepsLeftType DEF TypeOK, StepsLeft, Ended
<1>2. CASE HasRetries(request[r].attempt)
    <2>1. request' = [request EXCEPT ![r].at = "sleep"]
        BY <1>1, <1>2 DEF Throw
    <2>2. AttemptsInv'
        BY <1>1, <1>2, <2>1 DEF AttemptsInv, At, HasRetries
    <2>3. StepsLeft(request'[r]) < StepsLeft(request[r])
        <3>1. request'[r].at = "sleep" /\ request'[r].attempt = request[r].attempt
            BY <1>1, <2>1
        <3>2. request[r].at \in {"plan", "consume", "upstream", "record"}
            BY <1>1 DEF At
        <3> QED
            BY <1>1, <3>1, <3>2 DEF StepsLeft
    <2> QED
        BY <1>1, <2>1, <2>2, <2>3 DEF GetsOn
<1>3. CASE ~HasRetries(request[r].attempt)
    <2>1. request' = [request EXCEPT ![r] = Ended]
        BY <1>1, <1>3 DEF Throw
    <2> QED
        BY <1>1, <2>1 DEF AttemptsInv, At, GetsOn, Ended
<1> QED
    BY <1>2, <1>3

\* Every step brings the request it is of nearer to its end, and disturbs no other.
LEMMA StepsGetOn ==
    ASSUME TypeOK, AttemptsInv, [Next]_vars
    PROVE  AttemptsInv' /\ \A q \in Request : GetsOn(q)
<1> DEFINE Requests == [Request -> [at : {"idle", "plan", "consume", "upstream", "record", "sleep"},
                                    model : Plan, plan : Plan, attempt : Nat]]
<1>0. MaxRetries \in Nat /\ request \in Requests /\ StepsLeft(Ended) = 0 /\ Ended.at = "idle"
      /\ Ended.attempt = 0
    BY ProxyAssumption DEF TypeOK, StepsLeft, Ended
<1>1. ASSUME NEW r \in Request, NEW model \in Plan, Start(r, model)
      PROVE  AttemptsInv' /\ \A q \in Request : GetsOn(q)
    BY <1>0, <1>1 DEF Start, AttemptsInv, GetsOn, At, Ended
<1>2. ASSUME NEW r \in Request, Retry(r)
      PROVE  AttemptsInv' /\ \A q \in Request : GetsOn(q)
    <2>1. /\ request' = [request EXCEPT ![r].at = "plan", ![r].attempt = request[r].attempt + 1]
          /\ request[r].at = "sleep" /\ request[r].attempt < MaxRetries
        BY <1>2 DEF Retry, PlanFirst, NextAttempt, AttemptsInv, At
    <2>2. AttemptsInv'
        BY <1>0, <2>1 DEF AttemptsInv, At
    <2>3. StepsLeft(request'[r]) < StepsLeft(request[r])
        BY <1>0, <2>1 DEF StepsLeft
    <2> QED
        BY <1>0, <2>1, <2>2, <2>3 DEF GetsOn
<1>3. ASSUME NEW r \in Request, NEW from, NEW to, NEW plan, At(r, from),
             <<from, to>> \in {<<"plan", "consume">>, <<"consume", "upstream">>, <<"upstream", "record">>},
             request' = [request EXCEPT ![r] = [@ EXCEPT !.at = to, !.plan = plan]]
      PROVE  AttemptsInv' /\ \A q \in Request : GetsOn(q)
    <2>1. request'[r].at = to /\ request'[r].attempt = request[r].attempt
        BY <1>0, <1>3
    <2>2. AttemptsInv'
        BY <1>0, <1>3, <2>1 DEF AttemptsInv, At
    <2>3. StepsLeft(request'[r]) < StepsLeft(request[r])
        BY <1>0, <1>3, <2>1 DEF StepsLeft, At
    <2> QED
        BY <1>0, <1>3, <2>2, <2>3 DEF GetsOn
<1>4. ASSUME NEW r \in Request, ~At(r, "idle"), request' = [request EXCEPT ![r] = Ended]
      PROVE  AttemptsInv' /\ \A q \in Request : GetsOn(q)
    <2>1. StepsLeft(request'[r]) < StepsLeft(request[r])
        BY <1>0, <1>4, StepsLeftType
    <2> QED
        BY <1>0, <1>4, <2>1 DEF AttemptsInv, At, GetsOn
<1>5. ASSUME NEW r \in Request, GetUserPlan(r)
      PROVE  AttemptsInv' /\ \A q \in Request : GetsOn(q)
    <2>1. CASE IsModelAllowed(request[r].model, userPlan)
        <3>1. request' = [request EXCEPT ![r] = [@ EXCEPT !.at = "consume", !.plan = userPlan]]
            BY <1>0, <1>5, <2>1 DEF GetUserPlan
        <3> QED
            BY <1>3, <1>5, <3>1 DEF GetUserPlan
    <2>2. CASE ~IsModelAllowed(request[r].model, userPlan)
        <3>1. request' = [request EXCEPT ![r] = Ended] /\ ~At(r, "idle")
            BY <1>0, <1>5, <2>2 DEF GetUserPlan, At
        <3> QED
            BY <1>4, <3>1
    <2> QED
        BY <2>1, <2>2
<1>6. ASSUME NEW r \in Request, NEW from, NEW to, At(r, from),
             <<from, to>> \in {<<"consume", "upstream">>, <<"upstream", "record">>}, Goto(r, to)
      PROVE  AttemptsInv' /\ \A q \in Request : GetsOn(q)
    <2>1. request' = [request EXCEPT ![r] = [@ EXCEPT !.at = to, !.plan = request[r].plan]]
        BY <1>0, <1>6 DEF Goto
    <2> QED
        BY <1>3, <1>6, <2>1
<1>7. ASSUME NEW r \in Request, Throw(r), ~At(r, "idle"), ~At(r, "sleep")
      PROVE  AttemptsInv' /\ \A q \in Request : GetsOn(q)
    BY <1>7, ThrowGetsOn
<1>8. CASE Crash
    <2>1. \A q \in Request : request'[q] = Ended
        BY <1>8 DEF Crash
    <2>2. \A q \in Request : At(q, "idle") \/ StepsLeft(request'[q]) < StepsLeft(request[q])
        BY <1>0, <2>1, StepsLeftType
    <2> QED
        BY <1>0, <2>1, <2>2 DEF AttemptsInv, At, GetsOn
<1>9. CASE UNCHANGED request
    BY <1>9 DEF AttemptsInv, At, GetsOn
<1>10. ASSUME NEW r \in Request, RefuseQuota(r) \/ Fail(r)
       PROVE  AttemptsInv' /\ \A q \in Request : GetsOn(q)
    <2>1. Throw(r) /\ ~At(r, "idle") /\ ~At(r, "sleep")
        BY <1>10 DEF RefuseQuota, Fail, At
    <2> QED
        BY <1>7, <2>1
<1>11. ASSUME NEW r \in Request, ConsumeQuota(r) \/ UpstreamAnswers(r) \/ RecordUsage(r)
       PROVE  AttemptsInv' /\ \A q \in Request : GetsOn(q)
    <2>1. CASE ConsumeQuota(r)
        <3>1. At(r, "consume") /\ Goto(r, "upstream")
            BY <2>1 DEF ConsumeQuota
        <3> QED
            BY <1>6, <3>1
    <2>2. CASE UpstreamAnswers(r)
        <3>1. At(r, "upstream") /\ Goto(r, "record")
            BY <2>2 DEF UpstreamAnswers
        <3> QED
            BY <1>6, <3>1
    <2>3. CASE RecordUsage(r)
        <3>1. ~At(r, "idle") /\ request' = [request EXCEPT ![r] = Ended]
            BY <2>3 DEF RecordUsage, At
        <3> QED
            BY <1>4, <3>1
    <2> QED
        BY <1>11, <2>1, <2>2, <2>3
<1>12. CASE Expire \/ UNCHANGED vars \/ \E plan \in Plan : SetUserPlan(plan)
    BY <1>9, <1>12 DEF Expire, SetUserPlan, vars
<1> QED
    BY <1>1, <1>2, <1>5, <1>8, <1>10, <1>11, <1>12 DEF Next

\* No request goes on for ever: of the steps it may take, which are five for each attempt,
\* every step of its own, a failure as well as an answer, takes one away, and no other
\* request, window or plan gives it one back.
THEOREM RequestsGetOn ==
    Spec => /\ [](\A r \in Request : StepsLeft(request[r]) \in 0 .. 5 * (MaxRetries + 1))
            /\ [][\A r \in Request : GetsOn(r)]_vars
<1>1. Init => AttemptsInv
    BY ProxyAssumption DEF Init, AttemptsInv, At, Ended
<1>2. TypeOK /\ AttemptsInv /\ [Next]_vars => AttemptsInv' /\ [\A r \in Request : GetsOn(r)]_vars
    BY StepsGetOn
<1>3. TypeOK /\ AttemptsInv => \A r \in Request : StepsLeft(request[r]) \in 0 .. 5 * (MaxRetries + 1)
    BY StepsLeftType
<1> QED
    BY <1>1, <1>2, <1>3, TypeCorrect, PTL DEF Spec
=============================================================================
