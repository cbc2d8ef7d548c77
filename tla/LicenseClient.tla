--------------------------- MODULE LicenseClient ---------------------------
(***************************************************************************)
(* The license service of each device (license-service/src/                *)
(* license-manager.ts) with the server that binds the devices: the         *)
(* license it keeps in memory and on disk, verifications by the timer, at  *)
(* startup and by the user's command, which nothing keeps apart, answers   *)
(* that are lost or late, and restarts.                                    *)
(***************************************************************************)
EXTENDS LicenseDevices

CONSTANTS
    Offered,      \* bound: plans the license has and changes to
    MaxChanges,   \* bound: changes of the license row
    MaxUnbinds    \* bound: times a device is unbound

ASSUME ClientAssumption == Offered \subseteq Plan /\ MaxChanges \in Nat /\ MaxUnbinds \in Nat

VARIABLES
    cached,     \* cachedLicense of each device
    stored,     \* 'miaoda.license.cache' of its global state
    waiting,    \* the verifications whose answer a device still waits for
    overlapped  \* history: devices that had two verifications under way at a time

clientVars == <<cached, stored, waiting, overlapped>>
vars == <<deviceVars, clientVars>>

\* what a cached license is known by: the history its answer carries
NoLicense == [valid |-> FALSE, change |-> 0, unbind |-> 0]

License(v) == [valid |-> TRUE, change |-> verifier[v].change, unbind |-> verifier[v].unbind]

Init ==
    /\ DevicesInit
    /\ license.plan \in Offered
    /\ cached = [d \in Device |-> NoLicense]
    /\ stored = [d \in Device |-> NoLicense]
    /\ waiting = {}
    /\ overlapped = {}

----------------------------------------------------------------------------
Verifying(d) == {v \in waiting : verifier[v].device = d}

\* verifyLicense sends its request, by whatever it was called
VerifyLicense(v, d) ==
    /\ GetLicense(v, d)
    /\ waiting' = waiting \cup {v}
    /\ overlapped' = IF Verifying(d) = {} THEN overlapped ELSE overlapped \cup {d}
    /\ UNCHANGED <<cached, stored>>

\* fetch fails; what the server does of the request it does
LoseConnection(v) ==
    /\ v \in waiting
    /\ waiting' = waiting \ {v}
    /\ UNCHANGED <<deviceVars, cached, stored, overlapped>>

AnyAnswer(v) == TRUE
Awaited(v) == v \in waiting

\* A valid license is cached; a refusal or an error throws and the cache stays.
ReceiveAnswer(v) ==
    LET d == verifier[v].device IN
    /\ Awaited(v)
    /\ Answered(v)
    /\ cached' = IF verifier[v].at = "valid" THEN [cached EXCEPT ![d] = License(v)] ELSE cached
    /\ waiting' = waiting \ {v}
    /\ UNCHANGED <<stored, overlapped>>

DropAnswer(v) ==
    /\ v \notin waiting
    /\ Answered(v)
    /\ UNCHANGED clientVars

\* the update of the global state that cacheLicense waits for
StoreLicense(d) ==
    /\ stored[d] # cached[d]
    /\ stored' = [stored EXCEPT ![d] = cached[d]]
    /\ UNCHANGED <<deviceVars, cached, waiting, overlapped>>

\* the program ends, at any point, and loadCachedLicense starts the next one
Restart(d) ==
    /\ cached' = [cached EXCEPT ![d] = stored[d]]
    /\ waiting' = waiting \ Verifying(d)
    /\ UNCHANGED <<deviceVars, stored, overlapped>>

Next ==
    \/ \E v \in Verifier, d \in Device : VerifyLicense(v, d)
    \/ \E v \in Verifier : LoseConnection(v)
    \/ \E v \in Verifier : ReceiveAnswer(v)
    \/ \E v \in Verifier : DropAnswer(v)
    \/ \E d \in Device : StoreLicense(d)
    \/ \E d \in Device : Restart(d)
    \/ \E v \in Verifier : CountDevices(v) /\ UNCHANGED clientVars
    \/ \E v \in Verifier : BindDevice(v) /\ UNCHANGED clientVars
    \/ \E v \in Verifier : VerifyFails(v) /\ UNCHANGED clientVars
    \/ \E d \in Device : unbinds[d] < MaxUnbinds /\ UnbindDevice(d) /\ UNCHANGED clientVars
    \/ \E plan \in Offered :
            changes < MaxChanges /\ UpdateLicensePlan(plan) /\ UNCHANGED clientVars

Spec == Init /\ [][Next]_vars

----------------------------------------------------------------------------
\* A device that holds a valid license, from memory or from before a restart, is bound,
\* unless it has been unbound since the answer: no binding that failed, was lost or came
\* second is ever taken for one.
ValidMeansBound ==
    \A d \in Device : cached[d].valid /\ cached[d].unbind = unbinds[d] => d \in devices

\* A device never goes back to an older state of its license, however late answers come,
\* except to the one it had stored when it is restarted, or when two of its verifications
\* were under way at a time: then the last answer wins, whatever it was read from.
LicenseGoesForward ==
    [][\A d \in Device :
        \/ cached'[d].change >= cached[d].change
        \/ cached'[d] = stored[d]
        \/ d \in overlapped]_vars
=============================================================================
