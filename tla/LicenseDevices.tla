--------------------------- MODULE LicenseDevices ---------------------------
(***************************************************************************)
(* Device bindings of one license                                          *)
(* (cloud-service/src/services/licenseService.ts).                         *)
(*                                                                         *)
(* verifyLicense is three statements with an await after each: the license *)
(* row, the bindings, and the insert of a new binding.  No transaction     *)
(* joins them, so several verifications and changes of the license         *)
(* interleave.  Only the limit and the insert matter here; a license has   *)
(* no expiry, since nothing in the repository sets expires_at.             *)
(***************************************************************************)
EXTENDS Plans, Naturals, FiniteSets

CONSTANTS
    Device,     \* device fingerprints
    Verifier,   \* requests the server handles at a time, each verifying one license
    NoDevice

ASSUME DevicesAssumption ==
    /\ IsFiniteSet(Verifier)
    /\ NoDevice \notin Device

VARIABLES
    license,    \* the row of licenses: plan and max_devices
    changes,    \* history: how often the row has changed
    peakLimit,  \* history: the highest max_devices the row has had
    devices,    \* the rows of device_bindings
    unbinds,    \* history: how often each device has been unbound
    verifier    \* what each verifyLicense knows and where it is, or its answer

licenseVars == <<license, changes, peakLimit>>
bindingVars == <<devices, unbinds>>
deviceVars == <<licenseVars, bindingVars, verifier>>

\* A verification carries the history of what it has read: the change of the license
\* row, and the binding it has found or made.
Idle == [at |-> "idle", device |-> NoDevice, limit |-> 0, change |-> 0, unbind |-> 0]

Answer == {"valid", "device_limit_exceeded", "error"}

DevicesTypeOK ==
    /\ license \in [plan : Plan, maxDevices : Nat]
    /\ changes \in Nat
    /\ peakLimit \in Nat
    /\ devices \in SUBSET Device
    /\ unbinds \in [Device -> Nat]
    /\ verifier \in [Verifier -> [at : {"idle", "licensed", "inserting"} \cup Answer,
                                  device : Device \cup {NoDevice},
                                  limit : Nat, change : Nat, unbind : Nat]]

DevicesInit ==
    /\ license \in {LicenseOf(plan) : plan \in Plan}
    /\ changes = 0
    /\ peakLimit = license.maxDevices
    /\ devices = {}
    /\ unbinds = [d \in Device |-> 0]
    /\ verifier = [v \in Verifier |-> Idle]

----------------------------------------------------------------------------
\* a verification that has seen the binding of its device, and one that ends without
Bound(v) == [verifier[v] EXCEPT !.at = "valid", !.limit = 0,
                                !.unbind = unbinds[verifier[v].device]]

Without(v, answer) == [Idle EXCEPT !.at = answer, !.device = verifier[v].device]

\* the license row is read
GetLicense(v, d) ==
    /\ verifier[v].at = "idle"
    /\ verifier' = [verifier EXCEPT ![v] =
            [Idle EXCEPT !.at = "licensed", !.device = d,
                         !.limit = license.maxDevices, !.change = changes]]
    /\ UNCHANGED <<licenseVars, bindingVars>>

UpToLimit(count, limit) == count <= limit
BelowLimit(count, limit) == count < limit

\* The bindings are read.  A known device is only stamped (which fails on no one),
\* whatever the limit.
CountDevices(v) ==
    LET d == verifier[v].device IN
    /\ verifier[v].at = "licensed"
    /\ verifier' = [verifier EXCEPT ![v] =
            IF d \in devices THEN Bound(v)
            ELSE IF BelowLimit(Cardinality(devices), @.limit)
                 THEN [@ EXCEPT !.at = "inserting", !.limit = 0]
                 ELSE Without(v, "device_limit_exceeded")]
    /\ UNCHANGED <<licenseVars, bindingVars>>

\* the insert; of two for one device the second violates UNIQUE and throws
BindDevice(v) ==
    LET d == verifier[v].device IN
    /\ verifier[v].at = "inserting"
    /\ devices' = devices \cup {d}
    /\ verifier' = [verifier EXCEPT ![v] =
            IF d \in devices THEN Without(v, "error") ELSE Bound(v)]
    /\ UNCHANGED <<licenseVars, unbinds>>

SwallowedError == "valid"
ErrorAnswer == "error"

\* a statement throws, or the server goes down
VerifyFails(v) ==
    /\ verifier[v].at \in {"licensed", "inserting"}
    /\ verifier' = [verifier EXCEPT ![v] = Without(v, ErrorAnswer)]
    /\ UNCHANGED <<licenseVars, bindingVars>>

\* the answer reaches the client, or no one
Answered(v) ==
    /\ verifier[v].at \in Answer
    /\ verifier' = [verifier EXCEPT ![v] = Idle]
    /\ UNCHANGED <<licenseVars, bindingVars>>

UnbindDevice(d) ==
    /\ d \in devices
    /\ devices' = devices \ {d}
    /\ unbinds' = [unbinds EXCEPT ![d] = @ + 1]
    /\ UNCHANGED <<licenseVars, verifier>>

\* the statement by which updateLicensePlan, and the subscriptions, set the row
UpdateLicensePlan(plan) ==
    /\ license' = LicenseOf(plan)
    /\ changes' = changes + 1
    /\ peakLimit' = IF MaxDevices(plan) > peakLimit THEN MaxDevices(plan) ELSE peakLimit
    /\ UNCHANGED <<bindingVars, verifier>>

DevicesNext ==
    \/ \E v \in Verifier, d \in Device : GetLicense(v, d)
    \/ \E v \in Verifier : CountDevices(v)
    \/ \E v \in Verifier : BindDevice(v)
    \/ \E v \in Verifier : VerifyFails(v)
    \/ \E v \in Verifier : Answered(v)
    \/ \E d \in Device : UnbindDevice(d)
    \/ \E plan \in Plan : UpdateLicensePlan(plan)

DevicesSpec == DevicesInit /\ [][DevicesNext]_deviceVars

----------------------------------------------------------------------------
Inserting == {v \in Verifier : verifier[v].at = "inserting"}

\* However many devices verify at once, whatever plan changes and unbinding go on
\* between a verification's statements: a license never has more devices than the
\* highest limit it had, plus one for each verification beside the first that the
\* server handles at a time.  With one at a time the limit itself holds.
OvershootIsBounded ==
    Cardinality(devices) + Cardinality(Inserting) < peakLimit + Cardinality(Verifier)
=============================================================================
