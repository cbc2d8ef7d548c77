--------------------------- MODULE LicenseProofs ---------------------------
(***************************************************************************)
(* For all sets of devices and of requests: how far the device limit can   *)
(* be passed, and that the clients leave the server's specification as it  *)
(* is.  That each verification goes by a limit the license once had makes  *)
(* the bound inductive.                                                    *)
(***************************************************************************)
EXTENDS LicenseClient, FiniteSetTheorems, TLAPS

LimitsWereInForce ==
    /\ 0 < peakLimit
    /\ license.maxDevices <= peakLimit
    /\ \A v \in Verifier : /\ verifier[v].limit <= peakLimit
                           /\ verifier[v].at # "idle" => verifier[v].device \in Device
    /\ IsFiniteSet(devices)

DevicesInv == DevicesTypeOK /\ LimitsWereInForce

VerifierType == [at : {"idle", "licensed", "inserting"} \cup Answer,
                 device : Device \cup {NoDevice},
                 limit : Nat, change : Nat, unbind : Nat]

LEMMA LicenseType ==
    \A plan \in Plan : /\ LicenseOf(plan) \in [plan : Plan, maxDevices : Nat]
                       /\ LicenseOf(plan).maxDevices = MaxDevices(plan)
                       /\ MaxDevices(plan) \in Nat /\ 0 < MaxDevices(plan)
    BY DEF LicenseOf, MaxDevices, Plan

LEMMA DevicesInvInit == DevicesInit => DevicesInv
<1> SUFFICES ASSUME DevicesInit PROVE DevicesInv
    OBVIOUS
<1>1. PICK plan \in Plan : license = LicenseOf(plan)
    BY DEF DevicesInit
<1>2. license \in [plan : Plan, maxDevices : Nat] /\ peakLimit \in Nat /\ 0 < peakLimit
    BY <1>1, LicenseType DEF DevicesInit
<1>3. Idle \in VerifierType
    BY DEF Idle, VerifierType
<1>4. IsFiniteSet(devices)
    BY FS_EmptySet DEF DevicesInit
<1>5. DevicesTypeOK
    BY <1>2, <1>3 DEF DevicesInit, DevicesTypeOK, VerifierType
<1>6. LimitsWereInForce
    BY <1>2, <1>4 DEF DevicesInit, LimitsWereInForce, Idle
<1> QED
    BY <1>5, <1>6 DEF DevicesInv

\* What a step may do to one verification.
LEMMA VerifierStep ==
    ASSUME DevicesInv, NEW v \in Verifier, NEW new \in VerifierType, new.limit <= peakLimit,
           new.at # "idle" => new.device \in Device,
           verifier' = [verifier EXCEPT ![v] = new], UNCHANGED licenseVars,
           devices' \in SUBSET Device, IsFiniteSet(devices'), unbinds' \in [Device -> Nat]
    PROVE  DevicesInv'
<1>1. DevicesTypeOK'
    BY DEF DevicesInv, DevicesTypeOK, VerifierType, licenseVars
<1>2. LimitsWereInForce'
    BY DEF DevicesInv, LimitsWereInForce, licenseVars, DevicesTypeOK
<1> QED
    BY <1>1, <1>2 DEF DevicesInv

\* The records verifications end or go on with.
LEMMA VerifierRecords ==
    ASSUME DevicesInv, NEW v \in Verifier
    PROVE  /\ Idle \in VerifierType /\ Idle.limit = 0 /\ Idle.at = "idle"
           /\ verifier[v] \in VerifierType
    BY DEF DevicesInv, DevicesTypeOK, VerifierType, Idle

LEMMA EndedRecords ==
    ASSUME DevicesInv, NEW v \in Verifier, verifier[v].at # "idle"
    PROVE  /\ verifier[v].device \in Device
           /\ Bound(v) \in VerifierType /\ Bound(v).limit = 0
           /\ Bound(v).device = verifier[v].device /\ Bound(v).at = "valid"
           /\ \A answer \in Answer : /\ Without(v, answer) \in VerifierType
                                     /\ Without(v, answer).limit = 0
                                     /\ Without(v, answer).device = verifier[v].device
                                     /\ Without(v, answer).at = answer
<1>1. verifier[v].device \in Device
    BY DEF DevicesInv, LimitsWereInForce
<1>2. verifier[v] \in VerifierType /\ unbinds[verifier[v].device] \in Nat
    BY <1>1, VerifierRecords DEF DevicesInv, DevicesTypeOK
<1>3. "valid" \in Answer
    BY DEF Answer
<1>4. /\ Bound(v) \in VerifierType /\ Bound(v).limit = 0
      /\ Bound(v).device = verifier[v].device /\ Bound(v).at = "valid"
    BY <1>1, <1>2, <1>3 DEF Bound, VerifierType
<1>5. ASSUME NEW answer \in Answer
      PROVE  /\ Without(v, answer) \in VerifierType /\ Without(v, answer).limit = 0
             /\ Without(v, answer).device = verifier[v].device
             /\ Without(v, answer).at = answer
    BY <1>1, <1>5 DEF Without, Idle, VerifierType
<1> QED
    BY <1>1, <1>4, <1>5

LEMMA PeakNat == DevicesInv => peakLimit \in Nat /\ 0 <= peakLimit
    BY DEF DevicesInv, DevicesTypeOK

LEMMA DevicesInvStep == DevicesInv /\ [DevicesNext]_deviceVars => DevicesInv'
<1> SUFFICES ASSUME DevicesInv, [DevicesNext]_deviceVars PROVE DevicesInv'
    OBVIOUS
<1>a. /\ IsFiniteSet(devices) /\ devices \in SUBSET Device /\ unbinds \in [Device -> Nat]
      /\ peakLimit \in Nat /\ 0 <= peakLimit
    BY PeakNat DEF DevicesInv, DevicesTypeOK, LimitsWereInForce
<1>1. ASSUME NEW v \in Verifier, NEW d \in Device, GetLicense(v, d) PROVE DevicesInv'
    <2> DEFINE new == [Idle EXCEPT !.at = "licensed", !.device = d,
                                   !.limit = license.maxDevices, !.change = changes]
    <2>1. new \in VerifierType /\ new.limit <= peakLimit /\ new.device \in Device
        BY DEF DevicesInv, DevicesTypeOK, LimitsWereInForce, Idle, VerifierType
    <2>2. verifier' = [verifier EXCEPT ![v] = new]
        BY <1>1 DEF GetLicense
    <2>3. UNCHANGED licenseVars /\ UNCHANGED bindingVars
        BY <1>1 DEF GetLicense
    <2> HIDE DEF new
    <2> QED
        BY <1>a, <2>1, <2>2, <2>3, VerifierStep DEF bindingVars
<1>2. ASSUME NEW v \in Verifier, CountDevices(v) PROVE DevicesInv'
    <2>1. verifier[v].at = "licensed" /\ UNCHANGED licenseVars /\ UNCHANGED bindingVars
        BY <1>2 DEF CountDevices
    <2> DEFINE go == [verifier[v] EXCEPT !.at = "inserting", !.limit = 0]
    <2>2. go \in VerifierType /\ go.limit = 0 /\ go.device = verifier[v].device
        BY VerifierRecords DEF VerifierType
    <2>3. \/ verifier' = [verifier EXCEPT ![v] = Bound(v)]
          \/ verifier' = [verifier EXCEPT ![v] = go]
          \/ verifier' = [verifier EXCEPT ![v] = Without(v, "device_limit_exceeded")]
        BY <1>2 DEF CountDevices, DevicesInv, DevicesTypeOK
    <2>4. "device_limit_exceeded" \in Answer
        BY DEF Answer
    <2> HIDE DEF go
    <2>5. \E new \in VerifierType : /\ new.limit = 0 /\ new.device \in Device
                                    /\ verifier' = [verifier EXCEPT ![v] = new]
        BY <2>1, <2>2, <2>3, <2>4, EndedRecords
    <2> QED
        BY <1>a, <2>1, <2>5, VerifierStep DEF bindingVars
<1>3. ASSUME NEW v \in Verifier, BindDevice(v) PROVE DevicesInv'
    <2>1. verifier[v].at = "inserting" /\ UNCHANGED licenseVars /\ unbinds' = unbinds
        BY <1>3 DEF BindDevice
    <2>2. verifier[v].device \in Device
        BY <2>1, EndedRecords
    <2>3. devices' = devices \cup {verifier[v].device}
        BY <1>3 DEF BindDevice
    <2>4. devices' \in SUBSET Device /\ IsFiniteSet(devices')
        BY <1>a, <2>2, <2>3, FS_AddElement
    <2>5. "error" \in Answer
        BY DEF Answer
    <2>6. \E new \in VerifierType : /\ new.limit = 0 /\ new.device \in Device
                                    /\ verifier' = [verifier EXCEPT ![v] = new]
        BY <1>3, <2>1, <2>5, EndedRecords DEF BindDevice
    <2> QED
        BY <1>a, <2>1, <2>4, <2>6, VerifierStep
<1>4. ASSUME NEW v \in Verifier, VerifyFails(v) PROVE DevicesInv'
    <2>1. verifier[v].at # "idle" /\ UNCHANGED licenseVars /\ UNCHANGED bindingVars
        BY <1>4 DEF VerifyFails
    <2>2. ErrorAnswer \in Answer
        BY DEF Answer, ErrorAnswer
    <2>3. verifier' = [verifier EXCEPT ![v] = Without(v, ErrorAnswer)]
        BY <1>4 DEF VerifyFails
    <2> QED
        BY <1>a, <2>1, <2>2, <2>3, EndedRecords, VerifierStep DEF bindingVars
<1>5. ASSUME NEW v \in Verifier, Answered(v) PROVE DevicesInv'
    BY <1>5, <1>a, VerifierRecords, VerifierStep DEF Answered, bindingVars
<1>6. ASSUME NEW d \in Device, UnbindDevice(d) PROVE DevicesInv'
    <2>1. devices' = devices \ {d} /\ unbinds' = [unbinds EXCEPT ![d] = @ + 1]
          /\ UNCHANGED licenseVars /\ verifier' = verifier
        BY <1>6 DEF UnbindDevice
    <2>2. IsFiniteSet(devices')
        BY <1>a, <2>1, FS_RemoveElement, FS_Subset
    <2>3. DevicesTypeOK'
        BY <2>1 DEF DevicesInv, DevicesTypeOK, licenseVars
    <2>4. LimitsWereInForce'
        BY <2>1, <2>2 DEF DevicesInv, LimitsWereInForce, licenseVars
    <2> QED
        BY <2>3, <2>4 DEF DevicesInv
<1>7. ASSUME NEW plan \in Plan, UpdateLicensePlan(plan) PROVE DevicesInv'
    <2>1. /\ license' = LicenseOf(plan) /\ changes' = changes + 1
          /\ peakLimit' = IF MaxDevices(plan) > peakLimit THEN MaxDevices(plan) ELSE peakLimit
          /\ UNCHANGED bindingVars /\ verifier' = verifier
        BY <1>7 DEF UpdateLicensePlan
    <2>2. peakLimit' \in Nat /\ peakLimit <= peakLimit' /\ MaxDevices(plan) <= peakLimit'
        BY <1>a, <2>1, LicenseType
    <2>3. DevicesTypeOK'
        BY <2>1, <2>2, LicenseType DEF DevicesInv, DevicesTypeOK, bindingVars
    <2>4. \A v \in Verifier : verifier[v].limit \in Nat
        BY DEF DevicesInv, DevicesTypeOK
    <2>5. LimitsWereInForce'
        BY <1>a, <2>1, <2>2, <2>4, LicenseType DEF DevicesInv, LimitsWereInForce, bindingVars
    <2> QED
        BY <2>3, <2>5 DEF DevicesInv
<1>8. CASE UNCHANGED deviceVars
    BY <1>8 DEF deviceVars, licenseVars, bindingVars, DevicesInv, DevicesTypeOK, LimitsWereInForce
<1> QED
    BY <1>1, <1>2, <1>3, <1>4, <1>5, <1>6, <1>7, <1>8 DEF DevicesNext

\* What the verifications do to the set of those about to insert.
LEMMA InsertingFinite ==
    ASSUME DevicesInv
    PROVE  /\ Cardinality(devices) \in Nat /\ Cardinality(Inserting) \in Nat
           /\ Cardinality(Verifier) \in Nat
           /\ IsFiniteSet(devices) /\ IsFiniteSet(Inserting) /\ peakLimit \in Nat
<1>1. IsFiniteSet(Verifier) /\ Inserting \subseteq Verifier /\ IsFiniteSet(devices)
    BY DevicesAssumption DEF Inserting, DevicesInv, LimitsWereInForce
<1>2. IsFiniteSet(Inserting)
    BY <1>1, FS_Subset
<1> QED
    BY <1>1, <1>2, PeakNat, FS_CardinalityType

\* Fewer devices, fewer inserts under way and a higher peak keep the bound.
LEMMA Shrinking ==
    ASSUME DevicesInv, OvershootIsBounded, devices' \subseteq devices,
           Inserting' \subseteq Inserting, peakLimit' \in Nat, peakLimit <= peakLimit'
    PROVE  OvershootIsBounded'
<1>1. Cardinality(devices') \in Nat /\ Cardinality(devices') <= Cardinality(devices)
    BY InsertingFinite, FS_Subset, FS_CardinalityType
<1>2. Cardinality(Inserting') \in Nat /\ Cardinality(Inserting') <= Cardinality(Inserting)
    BY InsertingFinite, FS_Subset, FS_CardinalityType
<1> QED
    BY <1>1, <1>2, InsertingFinite DEF OvershootIsBounded

LEMMA OvershootStep ==
    DevicesInv /\ OvershootIsBounded /\ [DevicesNext]_deviceVars => OvershootIsBounded'
<1> SUFFICES ASSUME DevicesInv, OvershootIsBounded, [DevicesNext]_deviceVars
             PROVE  OvershootIsBounded'
    OBVIOUS
<1>a. peakLimit \in Nat /\ peakLimit <= peakLimit /\ \A v \in Verifier : verifier[v].limit <= peakLimit
    BY PeakNat DEF DevicesInv, LimitsWereInForce
<1>b. verifier = [v \in Verifier |-> verifier[v]]
    BY DEF DevicesInv, DevicesTypeOK
<1>1. ASSUME NEW v \in Verifier, NEW d \in Device, GetLicense(v, d) PROVE OvershootIsBounded'
    <2>1. Inserting' \subseteq Inserting
        BY <1>1, <1>b DEF GetLicense, Inserting, Idle
    <2> QED
        BY <1>1, <1>a, <2>1, Shrinking DEF GetLicense, licenseVars, bindingVars
<1>2. ASSUME NEW v \in Verifier, CountDevices(v) PROVE OvershootIsBounded'
    <2> DEFINE below == /\ verifier[v].device \notin devices
                        /\ BelowLimit(Cardinality(devices), verifier[v].limit)
    <2>1. devices' = devices /\ peakLimit' = peakLimit
        BY <1>2 DEF CountDevices, licenseVars, bindingVars
    <2>2. CASE below
        <3>1. Cardinality(devices) < verifier[v].limit /\ verifier[v].limit \in Nat
            BY <2>2 DEF BelowLimit, DevicesInv, DevicesTypeOK
        <3>2. Inserting' \subseteq Verifier
            BY DEF Inserting
        <3>3. Cardinality(Inserting') \in Nat /\ Cardinality(Inserting') <= Cardinality(Verifier)
            BY <3>2, DevicesAssumption, FS_Subset, FS_CardinalityType
        <3> QED
            BY <1>a, <2>1, <3>1, <3>3, InsertingFinite DEF OvershootIsBounded
    <2>3. CASE ~below
        <3>1. \/ verifier' = [verifier EXCEPT ![v] = Bound(v)]
              \/ verifier' = [verifier EXCEPT ![v] = Without(v, "device_limit_exceeded")]
            BY <1>2, <2>3, <1>b DEF CountDevices
        <3>2. Bound(v).at # "inserting" /\ Without(v, "device_limit_exceeded").at # "inserting"
            BY VerifierRecords DEF Bound, Without, Idle, VerifierType
        <3>3. Inserting' \subseteq Inserting
            BY <1>b, <3>1, <3>2 DEF Inserting
        <3> QED
            BY <1>a, <2>1, <3>3, Shrinking
    <2> QED
        BY <2>2, <2>3
<1>3. ASSUME NEW v \in Verifier, BindDevice(v) PROVE OvershootIsBounded'
    <2>1. v \in Inserting /\ peakLimit' = peakLimit
          /\ devices' = devices \cup {verifier[v].device}
        BY <1>3 DEF BindDevice, Inserting, licenseVars
    <2>2. \/ verifier' = [verifier EXCEPT ![v] = Without(v, "error")]
          \/ verifier' = [verifier EXCEPT ![v] = Bound(v)]
        BY <1>3, <1>b DEF BindDevice
    <2>3. Bound(v).at # "inserting" /\ Without(v, "error").at # "inserting"
        BY VerifierRecords DEF Bound, Without, Idle, VerifierType
    <2>4. Inserting' = Inserting \ {v}
        BY <1>b, <2>1, <2>2, <2>3 DEF Inserting
    <2>5. Cardinality(Inserting') = Cardinality(Inserting) - 1
        BY <2>1, <2>4, InsertingFinite, FS_RemoveElement
    <2>6. /\ Cardinality(devices') \in Nat
          /\ Cardinality(devices') <= Cardinality(devices) + 1
        <3>1. IsFiniteSet(devices) /\ Cardinality(devices) \in Nat
            BY InsertingFinite
        <3>2. \/ Cardinality(devices') = Cardinality(devices)
              \/ Cardinality(devices') = Cardinality(devices) + 1
            BY <2>1, <3>1, FS_AddElement
        <3> QED
            BY <3>1, <3>2
    <2> QED
        BY <2>1, <2>5, <2>6, InsertingFinite DEF OvershootIsBounded
<1>4. ASSUME NEW v \in Verifier, VerifyFails(v) PROVE OvershootIsBounded'
    <2>1. Without(v, ErrorAnswer).at # "inserting"
        BY DEF Without, Idle, ErrorAnswer
    <2>2. Inserting' \subseteq Inserting
        BY <1>4, <1>b, <2>1 DEF VerifyFails, Inserting
    <2> QED
        BY <1>4, <1>a, <2>2, Shrinking DEF VerifyFails, licenseVars, bindingVars
<1>5. ASSUME NEW v \in Verifier, Answered(v) PROVE OvershootIsBounded'
    <2>1. Inserting' \subseteq Inserting
        BY <1>5, <1>b DEF Answered, Inserting, Idle
    <2> QED
        BY <1>5, <1>a, <2>1, Shrinking DEF Answered, licenseVars, bindingVars
<1>6. ASSUME NEW d \in Device, UnbindDevice(d) PROVE OvershootIsBounded'
    BY <1>6, <1>a, Shrinking DEF UnbindDevice, licenseVars, Inserting
<1>7. ASSUME NEW plan \in Plan, UpdateLicensePlan(plan) PROVE OvershootIsBounded'
    <2>1. peakLimit' \in Nat /\ peakLimit <= peakLimit'
        BY <1>7, <1>a, LicenseType DEF UpdateLicensePlan
    <2> QED
        BY <1>7, <2>1, Shrinking DEF UpdateLicensePlan, bindingVars, Inserting
<1>8. CASE UNCHANGED deviceVars
    BY <1>8, <1>a, Shrinking DEF deviceVars, licenseVars, bindingVars, Inserting
<1> QED
    BY <1>1, <1>2, <1>3, <1>4, <1>5, <1>6, <1>7, <1>8 DEF DevicesNext

LEMMA OvershootInit == DevicesInit => OvershootIsBounded
<1> SUFFICES ASSUME DevicesInit PROVE OvershootIsBounded
    OBVIOUS
<1>1. DevicesInv
    BY DevicesInvInit
<1>2. Inserting = {} /\ devices = {}
    BY DEF DevicesInit, Inserting, Idle
<1>3. 0 < peakLimit
    BY <1>1 DEF DevicesInv, LimitsWereInForce
<1> QED
    BY <1>1, <1>2, <1>3, InsertingFinite, FS_EmptySet DEF OvershootIsBounded

\* For every set of devices and every number of requests at a time, the device limit is
\* passed by less than the number of requests.
THEOREM ServerOvershootIsBounded == DevicesSpec => []OvershootIsBounded
<1>1. DevicesInit => DevicesInv /\ OvershootIsBounded
    BY DevicesInvInit, OvershootInit
<1>2. (DevicesInv /\ OvershootIsBounded) /\ [DevicesNext]_deviceVars
        => (DevicesInv /\ OvershootIsBounded)'
    BY DevicesInvStep, OvershootStep
<1> QED
    BY <1>1, <1>2, PTL DEF DevicesSpec

LEMMA ClientStepIsServerStep == [Next]_vars => [DevicesNext]_deviceVars
<1> SUFFICES ASSUME [Next]_vars PROVE [DevicesNext]_deviceVars
    OBVIOUS
<1>1. ASSUME NEW v \in Verifier, NEW d \in Device, VerifyLicense(v, d) PROVE DevicesNext
    BY <1>1 DEF VerifyLicense, DevicesNext
<1>2. ASSUME NEW v \in Verifier, LoseConnection(v) PROVE UNCHANGED deviceVars
    BY <1>2 DEF LoseConnection
<1>3. ASSUME NEW v \in Verifier, ReceiveAnswer(v) \/ DropAnswer(v) PROVE DevicesNext
    BY <1>3 DEF ReceiveAnswer, DropAnswer, DevicesNext
<1>4. ASSUME NEW d \in Device, StoreLicense(d) \/ Restart(d) PROVE UNCHANGED deviceVars
    BY <1>4 DEF StoreLicense, Restart
<1>5. ASSUME NEW plan \in Offered, UpdateLicensePlan(plan) PROVE DevicesNext
    BY <1>5, ClientAssumption DEF DevicesNext
<1>6. ASSUME UNCHANGED vars PROVE UNCHANGED deviceVars
    BY <1>6 DEF vars
<1> QED
    BY <1>1, <1>2, <1>3, <1>4, <1>5, <1>6 DEF Next, DevicesNext

\* The clients, with their caches, restarts and lost answers, are one of the surroundings
\* the server was specified for: every step of theirs is a step of the server or leaves
\* its tables as they are.
THEOREM ClientsImplementServer == Spec => DevicesSpec
<1>1. Init => DevicesInit
    BY DEF Init
<1> QED
    BY <1>1, ClientStepIsServerStep, PTL DEF Spec, DevicesSpec

\* The bound on the devices over the limit holds with the clients there too.
THEOREM OvershootHolds == Spec => []OvershootIsBounded
BY ServerOvershootIsBounded, ClientsImplementServer, PTL

----------------------------------------------------------------------------
\* The device was bound when it had been unbound u times, and still is unless it has
\* been unbound since.
BoundSince(d, u) == u <= unbinds[d] /\ (u = unbinds[d] => d \in devices)

LicenseRecord == [valid : BOOLEAN, change : Nat, unbind : Nat]

AnswersAreReal ==
    \A v \in Verifier :
        verifier[v].at = "valid" => BoundSince(verifier[v].device, verifier[v].unbind)

BindingsInv ==
    /\ DevicesInv
    /\ cached \in [Device -> LicenseRecord]
    /\ stored \in [Device -> LicenseRecord]
    /\ AnswersAreReal
    /\ \A d \in Device : /\ cached[d].valid => BoundSince(d, cached[d].unbind)
                         /\ stored[d].valid => BoundSince(d, stored[d].unbind)

LEMMA BoundSinceStays ==
    ASSUME DevicesInv, [DevicesNext]_deviceVars, NEW d \in Device, NEW u \in Nat,
           BoundSince(d, u)
    PROVE  BoundSince(d, u)'
<1>1. ASSUME NEW e \in Device, UnbindDevice(e) PROVE BoundSince(d, u)'
    <2>1. unbinds' = [unbinds EXCEPT ![e] = @ + 1] /\ devices' = devices \ {e}
        BY <1>1 DEF UnbindDevice
    <2>2. unbinds \in [Device -> Nat]
        BY DEF DevicesInv, DevicesTypeOK
    <2> QED
        BY <2>1, <2>2 DEF BoundSince
<1>2. ASSUME NEW v \in Verifier, BindDevice(v) PROVE BoundSince(d, u)'
    BY <1>2 DEF BindDevice, BoundSince
<1>3. CASE UNCHANGED bindingVars
    BY <1>3 DEF bindingVars, BoundSince
<1>4. \/ \E e \in Device : UnbindDevice(e)
      \/ \E v \in Verifier : BindDevice(v)
      \/ UNCHANGED bindingVars
    BY DEF DevicesNext, GetLicense, CountDevices, VerifyFails, Answered, UpdateLicensePlan,
           deviceVars
<1> QED
    BY <1>1, <1>2, <1>3, <1>4

\* A step makes one answer at most, and that one from a binding it sees or makes.
LEMMA AnswersAreRealStep ==
    DevicesInv /\ AnswersAreReal /\ [DevicesNext]_deviceVars => AnswersAreReal'
<1> SUFFICES ASSUME DevicesInv, AnswersAreReal, [DevicesNext]_deviceVars, NEW v \in Verifier,
                    verifier'[v].at = "valid"
             PROVE  BoundSince(verifier[v].device, verifier[v].unbind)'
    BY DEF AnswersAreReal
<1>a. verifier \in [Verifier -> VerifierType] /\ unbinds \in [Device -> Nat]
    BY DEF DevicesInv, DevicesTypeOK, VerifierType
<1>1. CASE verifier'[v] = verifier[v]
    <2>0. PICK d, u : d = verifier[v].device /\ u = verifier[v].unbind
        OBVIOUS
    <2>1. d \in Device /\ u \in Nat /\ BoundSince(d, u)
        BY <1>1, <1>a, <2>0 DEF AnswersAreReal, DevicesInv, LimitsWereInForce, VerifierType
    <2>2. BoundSince(d, u)'
        BY <2>1, BoundSinceStays
    <2> QED
        BY <1>1, <2>0, <2>2 DEF BoundSince
<1>2. ASSUME verifier'[v] = Bound(v), verifier[v].device \in devices',
             unbinds' = unbinds, verifier[v].device \in Device
      PROVE  BoundSince(verifier[v].device, verifier[v].unbind)'
    <2>1. Bound(v).device = verifier[v].device /\ Bound(v).unbind = unbinds[verifier[v].device]
        BY <1>a DEF Bound, VerifierType
    <2>2. unbinds[verifier[v].device] \in Nat
        BY <1>2, <1>a
    <2> QED
        BY <1>2, <2>1, <2>2 DEF BoundSince
<1>3. ASSUME NEW w \in Verifier, NEW d \in Device, GetLicense(w, d)
      PROVE  verifier'[v] = verifier[v]
    BY <1>3, <1>a DEF GetLicense, Idle
<1>4. ASSUME NEW w \in Verifier, CountDevices(w)
      PROVE  \/ verifier'[v] = verifier[v]
             \/ /\ verifier'[v] = Bound(v) /\ verifier[v].device \in devices'
                /\ unbinds' = unbinds /\ verifier[v].device \in Device
    <2>1. CASE w # v
        BY <1>4, <1>a, <2>1 DEF CountDevices
    <2>2. CASE w = v
        <3>1. verifier[v].device \in Device /\ UNCHANGED bindingVars
            BY <1>4, <2>2, EndedRecords DEF CountDevices
        <3>2. CASE verifier[v].device \in devices
            BY <1>4, <1>a, <2>2, <3>1, <3>2 DEF CountDevices, bindingVars
        <3>3. CASE verifier[v].device \notin devices
            <4>1. \/ verifier'[v] = [verifier[v] EXCEPT !.at = "inserting", !.limit = 0]
                  \/ verifier'[v] = Without(v, "device_limit_exceeded")
                BY <1>4, <1>a, <2>2, <3>3 DEF CountDevices
            <4>2. verifier'[v].at # "valid"
                BY <4>1, <1>a DEF Without, Idle, VerifierType
            <4> QED
                BY <4>2
        <3> QED
            BY <3>2, <3>3
    <2> QED
        BY <2>1, <2>2
<1>5. ASSUME NEW w \in Verifier, BindDevice(w)
      PROVE  \/ verifier'[v] = verifier[v]
             \/ /\ verifier'[v] = Bound(v) /\ verifier[v].device \in devices'
                /\ unbinds' = unbinds /\ verifier[v].device \in Device
    <2>1. CASE w # v
        BY <1>5, <1>a, <2>1 DEF BindDevice
    <2>2. CASE w = v
        <3>1. verifier[v].device \in Device
            BY <1>5, <2>2, EndedRecords DEF BindDevice
        <3>2. verifier'[v] = Bound(v) \/ verifier'[v] = Without(v, "error")
            BY <1>5, <1>a, <2>2 DEF BindDevice
        <3>3. Without(v, "error").at # "valid"
            BY DEF Without, Idle
        <3> QED
            BY <1>5, <2>2, <3>1, <3>2, <3>3 DEF BindDevice
    <2> QED
        BY <2>1, <2>2
<1>6. ASSUME NEW w \in Verifier, VerifyFails(w) PROVE verifier'[v] = verifier[v]
    <2>1. w = v => verifier'[v] = Without(v, "error")
        BY <1>6, <1>a DEF VerifyFails, ErrorAnswer
    <2>2. Without(v, "error").at # "valid"
        BY DEF Without, Idle
    <2> QED
        BY <1>6, <1>a, <2>1, <2>2 DEF VerifyFails
<1>7. ASSUME NEW w \in Verifier, Answered(w) PROVE verifier'[v] = verifier[v]
    BY <1>7, <1>a DEF Answered, Idle
<1>8. \/ \E w \in Verifier, d \in Device : GetLicense(w, d)
      \/ \E w \in Verifier : CountDevices(w)
      \/ \E w \in Verifier : BindDevice(w)
      \/ \E w \in Verifier : VerifyFails(w)
      \/ \E w \in Verifier : Answered(w)
      \/ verifier' = verifier
    BY DEF DevicesNext, UnbindDevice, UpdateLicensePlan, deviceVars
<1> QED
    BY <1>1, <1>2, <1>3, <1>4, <1>5, <1>6, <1>7, <1>8

\* A device caches a valid answer, or what it had stored; it stores what it has cached.
LEMMA CacheSteps ==
    ASSUME BindingsInv, [Next]_vars, NEW d \in Device
    PROVE  /\ \/ cached'[d] \in {cached[d], stored[d]}
              \/ \E v \in Verifier : /\ verifier[v].at = "valid" /\ verifier[v].device = d
                                     /\ cached'[d] = License(v)
           /\ stored'[d] \in {stored[d], cached[d]}
<1>a. cached \in [Device -> LicenseRecord] /\ stored \in [Device -> LicenseRecord]
    BY DEF BindingsInv
<1>1. ASSUME NEW v \in Verifier, ReceiveAnswer(v)
      PROVE  /\ \/ cached'[d] = cached[d]
                \/ /\ verifier[v].at = "valid" /\ verifier[v].device = d
                   /\ cached'[d] = License(v)
             /\ stored' = stored
    BY <1>1, <1>a DEF ReceiveAnswer
<1>2. ASSUME NEW e \in Device, StoreLicense(e)
      PROVE  cached' = cached /\ stored'[d] \in {stored[d], cached[d]}
    BY <1>2, <1>a DEF StoreLicense
<1>3. ASSUME NEW e \in Device, Restart(e)
      PROVE  cached'[d] \in {cached[d], stored[d]} /\ stored' = stored
    BY <1>3, <1>a DEF Restart
<1>4. \/ \E v \in Verifier : ReceiveAnswer(v)
      \/ \E e \in Device : StoreLicense(e) \/ Restart(e)
      \/ UNCHANGED <<cached, stored>>
    BY DEF Next, VerifyLicense, LoseConnection, DropAnswer, clientVars, vars
<1> QED
    BY <1>1, <1>2, <1>3, <1>4

LEMMA BindingsInvInit == Init => BindingsInv
<1> SUFFICES ASSUME Init PROVE BindingsInv
    OBVIOUS
<1>1. DevicesInv
    BY DevicesInvInit DEF Init
<1>2. NoLicense \in LicenseRecord /\ ~NoLicense.valid
    BY DEF NoLicense, LicenseRecord
<1>3. AnswersAreReal
    BY DEF Init, DevicesInit, AnswersAreReal, Idle
<1> QED
    BY <1>1, <1>2, <1>3 DEF Init, BindingsInv

LEMMA BindingsInvStep == BindingsInv /\ [Next]_vars => BindingsInv'
<1> SUFFICES ASSUME BindingsInv, [Next]_vars PROVE BindingsInv'
    OBVIOUS
<1>1. DevicesInv /\ AnswersAreReal /\ [DevicesNext]_deviceVars
    BY ClientStepIsServerStep DEF BindingsInv
<1>2. DevicesInv' /\ AnswersAreReal'
    BY <1>1, DevicesInvStep, AnswersAreRealStep
<1>3. \A d \in Device, u \in Nat : BoundSince(d, u) => BoundSince(d, u)'
    BY <1>1, BoundSinceStays
<1>4. \A v \in Verifier : License(v) \in LicenseRecord /\ License(v).unbind = verifier[v].unbind
    BY DEF BindingsInv, DevicesInv, DevicesTypeOK, License, LicenseRecord
<1>5. ASSUME NEW d \in Device
      PROVE  /\ cached'[d] \in LicenseRecord /\ stored'[d] \in LicenseRecord
             /\ cached'[d].valid => BoundSince(d, cached[d].unbind)'
             /\ stored'[d].valid => BoundSince(d, stored[d].unbind)'
    <2>0. PICK c, s : c = cached'[d] /\ s = stored'[d]
        OBVIOUS
    <2>1. \/ c \in {cached[d], stored[d]}
          \/ \E v \in Verifier : /\ verifier[v].at = "valid" /\ verifier[v].device = d
                                 /\ c = License(v)
        BY <2>0, CacheSteps
    <2>2. s \in {stored[d], cached[d]}
        BY <2>0, CacheSteps
    <2>3. c \in LicenseRecord /\ (c.valid => BoundSince(d, c.unbind))
        BY <1>4, <2>1 DEF BindingsInv, AnswersAreReal
    <2>4. s \in LicenseRecord /\ (s.valid => BoundSince(d, s.unbind))
        BY <2>2 DEF BindingsInv
    <2>5. (c.valid => BoundSince(d, c.unbind)') /\ (s.valid => BoundSince(d, s.unbind)')
        BY <1>3, <2>3, <2>4 DEF LicenseRecord
    <2> QED
        BY <2>0, <2>3, <2>4, <2>5 DEF BoundSince
<1>6. cached' \in [Device -> LicenseRecord] /\ stored' \in [Device -> LicenseRecord]
    <2>1. /\ cached' = [d \in Device |-> cached'[d]]
          /\ stored' = [d \in Device |-> stored'[d]]
        <3>1. cached \in [Device -> LicenseRecord] /\ stored \in [Device -> LicenseRecord]
            BY DEF BindingsInv
        <3>2. ASSUME NEW v \in Verifier, ReceiveAnswer(v)
              PROVE  /\ cached' = [d \in Device |-> cached'[d]]
                     /\ stored' = [d \in Device |-> stored'[d]]
            BY <3>1, <3>2 DEF ReceiveAnswer
        <3>3. ASSUME NEW e \in Device, StoreLicense(e) \/ Restart(e)
              PROVE  /\ cached' = [d \in Device |-> cached'[d]]
                     /\ stored' = [d \in Device |-> stored'[d]]
            BY <3>1, <3>3 DEF StoreLicense, Restart
        <3>4. \/ \E v \in Verifier : ReceiveAnswer(v)
              \/ \E e \in Device : StoreLicense(e) \/ Restart(e)
              \/ UNCHANGED <<cached, stored>>
            BY DEF Next, VerifyLicense, LoseConnection, DropAnswer, clientVars, vars
        <3> QED
            BY <3>1, <3>2, <3>3, <3>4
    <2> QED
        BY <1>5, <2>1
<1> QED
    BY <1>2, <1>5, <1>6 DEF BindingsInv

\* For any number of devices and requests: what a device holds for a valid license was a
\* binding, which only an unbinding has taken away.
THEOREM ValidLicensesAreBound == Spec => []ValidMeansBound
<1>1. BindingsInv => ValidMeansBound
    BY DEF BindingsInv, BoundSince, ValidMeansBound
<1> QED
    BY <1>1, BindingsInvInit, BindingsInvStep, PTL DEF Spec

----------------------------------------------------------------------------
\* A device whose verifications never overlapped waits for one at most, and that one has
\* read a state of the license no older than the one the device holds.
AnswerIsNewer(d, v) ==
    verifier[v].at \in {"licensed", "inserting", "valid"} =>
        cached[d].change <= verifier[v].change

OneAtATime ==
    \A d \in Device \ overlapped : \A v, w \in Verifying(d) : v = w /\ AnswerIsNewer(d, v)

ReadBefore ==
    /\ \A v \in Verifier : verifier[v].change <= changes
    /\ \A d \in Device : cached[d].change <= changes /\ stored[d].change <= changes

OrderInv ==
    /\ BindingsInv
    /\ waiting \subseteq {v \in Verifier : verifier[v].at # "idle"}
    /\ ReadBefore
    /\ OneAtATime

\* What a step may do to a verification: begin it, take it on to an answer that carries
\* what it has read or nothing, or end it.
VerificationStep(v) ==
    \/ verifier'[v] = verifier[v]
    \/ /\ verifier[v].at = "idle" /\ verifier'[v].at = "licensed"
       /\ verifier'[v].change = changes
    \/ /\ verifier[v].at \in {"licensed", "inserting"}
       /\ verifier'[v].at \in {"inserting", "valid"}
       /\ verifier'[v].device = verifier[v].device
       /\ verifier'[v].change = verifier[v].change
    \/ /\ verifier[v].at \in {"licensed", "inserting"}
       /\ verifier'[v].at \in {"device_limit_exceeded", "error"}
       /\ verifier'[v].device = verifier[v].device
       /\ verifier'[v].change = 0
    \/ verifier[v].at \in Answer /\ verifier'[v].at = "idle" /\ verifier'[v].change = 0

LEMMA VerifierSteps ==
    ASSUME DevicesInv, [DevicesNext]_deviceVars, NEW v \in Verifier
    PROVE  changes' \in Nat /\ changes <= changes' /\ VerificationStep(v)
<1>a. verifier \in [Verifier -> VerifierType] /\ changes \in Nat
    BY DEF DevicesInv, DevicesTypeOK, VerifierType
<1>b. /\ Bound(v).change = verifier[v].change
      /\ Bound(v).at = "valid" /\ Bound(v).device = verifier[v].device
      /\ \A answer : /\ Without(v, answer).at = answer /\ Without(v, answer).change = 0
                     /\ Without(v, answer).device = verifier[v].device
    BY <1>a DEF Bound, Without, Idle, VerifierType
<1>c. verifier[v] \in VerifierType
    BY <1>a
<1>1. ASSUME NEW w \in Verifier, NEW d \in Device, GetLicense(w, d)
      PROVE  changes' = changes /\ VerificationStep(v)
    BY <1>1, <1>a DEF GetLicense, Idle, licenseVars, VerificationStep
<1>2. ASSUME NEW w \in Verifier, CountDevices(w) PROVE changes' = changes /\ VerificationStep(v)
    <2>1. \/ verifier'[v] = verifier[v]
          \/ /\ verifier[v].at = "licensed"
             /\ \/ verifier'[v] \in {Bound(v), Without(v, "device_limit_exceeded")}
                \/ verifier'[v] = [verifier[v] EXCEPT !.at = "inserting", !.limit = 0]
        BY <1>2, <1>a DEF CountDevices
    <2>2. changes' = changes
        BY <1>2 DEF CountDevices, licenseVars
    <2>3. CASE /\ verifier[v].at = "licensed"
               /\ verifier'[v] = [verifier[v] EXCEPT !.at = "inserting", !.limit = 0]
        BY <1>c, <2>2, <2>3 DEF VerifierType, VerificationStep
    <2>4. CASE /\ verifier[v].at = "licensed"
               /\ verifier'[v] \in {Bound(v), Without(v, "device_limit_exceeded")}
        BY <1>b, <2>2, <2>4 DEF VerificationStep
    <2>5. CASE verifier'[v] = verifier[v]
        BY <2>2, <2>5 DEF VerificationStep
    <2> QED
        BY <2>1, <2>3, <2>4, <2>5
<1>3. ASSUME NEW w \in Verifier, BindDevice(w) \/ VerifyFails(w)
      PROVE  changes' = changes /\ VerificationStep(v)
    <2>1. /\ changes' = changes
          /\ \/ verifier'[v] = verifier[v]
             \/ /\ verifier[v].at \in {"licensed", "inserting"}
                /\ verifier'[v] \in {Bound(v), Without(v, "error")}
        BY <1>3, <1>a DEF BindDevice, VerifyFails, ErrorAnswer, licenseVars
    <2> QED
        BY <1>b, <2>1 DEF VerificationStep
<1>4. ASSUME NEW w \in Verifier, Answered(w) PROVE changes' = changes /\ VerificationStep(v)
    BY <1>4, <1>a DEF Answered, Idle, licenseVars, VerificationStep
<1>5. CASE \E d \in Device : UnbindDevice(d)
    BY <1>5, <1>a DEF UnbindDevice, licenseVars, VerificationStep
<1>6. CASE \E plan \in Plan : UpdateLicensePlan(plan)
    BY <1>6, <1>a DEF UpdateLicensePlan, VerificationStep
<1>7. CASE UNCHANGED deviceVars
    BY <1>7, <1>a DEF deviceVars, licenseVars, VerificationStep
<1>8. changes' = changes => changes' \in Nat /\ changes <= changes'
    BY <1>a
<1> QED
    BY <1>1, <1>2, <1>3, <1>4, <1>5, <1>6, <1>7, <1>8 DEF DevicesNext

LEMMA OrderInvInit == Init => OrderInv
<1> SUFFICES ASSUME Init PROVE OrderInv
    OBVIOUS
<1>1. ReadBefore
    BY DEF Init, DevicesInit, ReadBefore, Idle, NoLicense
<1>2. waiting = {}
    BY DEF Init
<1> QED
    BY <1>1, <1>2, BindingsInvInit DEF OrderInv, OneAtATime, Verifying

LEMMA ReadBeforeStep == OrderInv /\ [Next]_vars => ReadBefore'
<1> SUFFICES ASSUME OrderInv, [Next]_vars PROVE ReadBefore'
    OBVIOUS
<1>1. /\ changes \in Nat /\ changes' \in Nat /\ changes <= changes'
      /\ \A v \in Verifier : VerificationStep(v)
    <2>1. DevicesInv /\ [DevicesNext]_deviceVars
        BY ClientStepIsServerStep DEF OrderInv, BindingsInv
    <2>2. changes \in Nat
        BY <2>1 DEF DevicesInv, DevicesTypeOK
    <2>3. changes' = changes \/ changes' = changes + 1
        BY <2>1 DEF DevicesNext, GetLicense, CountDevices, BindDevice, VerifyFails, Answered,
                    UnbindDevice, UpdateLicensePlan, licenseVars, deviceVars
    <2>4. \A v \in Verifier : VerificationStep(v)
        BY <2>1, VerifierSteps
    <2> QED
        BY <2>2, <2>3, <2>4
<1>2. /\ \A v \in Verifier : verifier[v].change \in Nat /\ License(v).change = verifier[v].change
      /\ \A d \in Device : cached[d].change \in Nat /\ stored[d].change \in Nat
    BY DEF OrderInv, BindingsInv, DevicesInv, DevicesTypeOK, LicenseRecord, License
<1>3. ASSUME NEW v \in Verifier PROVE verifier'[v].change <= changes'
    <2>1. verifier'[v].change \in {verifier[v].change, changes, 0}
        BY <1>1 DEF VerificationStep
    <2> QED
        BY <1>1, <1>2, <2>1 DEF OrderInv, ReadBefore
<1>4. ASSUME NEW d \in Device PROVE cached'[d].change <= changes' /\ stored'[d].change <= changes'
    <2>1. /\ \/ cached'[d] \in {cached[d], stored[d]}
             \/ \E v \in Verifier : cached'[d] = License(v)
          /\ stored'[d] \in {stored[d], cached[d]}
        BY CacheSteps DEF OrderInv
    <2> QED
        BY <1>1, <1>2, <2>1 DEF OrderInv, ReadBefore
<1> QED
    BY <1>3, <1>4 DEF ReadBefore

\* Only what is under way is waited for, whatever a step begins or ends.
LEMMA WaitingStep ==
    OrderInv /\ [Next]_vars => waiting' \subseteq {v \in Verifier : verifier'[v].at # "idle"}
<1> SUFFICES ASSUME OrderInv, [Next]_vars
             PROVE  waiting' \subseteq {v \in Verifier : verifier'[v].at # "idle"}
    OBVIOUS
<1>a. verifier \in [Verifier -> VerifierType]
    BY DEF OrderInv, BindingsInv, DevicesInv, DevicesTypeOK, VerifierType
<1>b. \A v \in waiting : v \in Verifier /\ verifier[v].at # "idle"
    BY DEF OrderInv
<1>1. ASSUME NEW v \in Verifier, NEW d \in Device, VerifyLicense(v, d)
      PROVE  /\ waiting' = waiting \cup {v} /\ verifier'[v].at # "idle"
             /\ \A w \in Verifier \ {v} : verifier'[w] = verifier[w]
    BY <1>1, <1>a DEF VerifyLicense, GetLicense, Idle
<1>2. ASSUME NEW v \in Verifier, ReceiveAnswer(v) \/ DropAnswer(v)
      PROVE  waiting' = waiting \ {v} /\ \A w \in Verifier \ {v} : verifier'[w] = verifier[w]
    BY <1>2, <1>a DEF ReceiveAnswer, DropAnswer, Answered, clientVars
<1>3. ASSUME NEW v \in Verifier, CountDevices(v) \/ BindDevice(v) \/ VerifyFails(v),
             UNCHANGED clientVars
      PROVE  /\ waiting' = waiting /\ verifier'[v].at # "idle"
             /\ \A w \in Verifier \ {v} : verifier'[w] = verifier[w]
    <2>1. verifier[v].at \in {"licensed", "inserting"}
        BY <1>3 DEF CountDevices, BindDevice, VerifyFails
    <2>2. DevicesInv /\ [DevicesNext]_deviceVars
        BY ClientStepIsServerStep DEF OrderInv, BindingsInv
    <2>3. VerificationStep(v)
        BY <2>2, VerifierSteps
    <2>4. verifier'[v].at # "idle"
        BY <2>1, <2>3 DEF VerificationStep, Answer
    <2> QED
        BY <1>3, <1>a, <2>4 DEF CountDevices, BindDevice, VerifyFails, clientVars
<1>4. CASE waiting' \subseteq waiting /\ verifier' = verifier
    BY <1>4, <1>b
<1>5. \/ \E v \in Verifier, d \in Device : VerifyLicense(v, d)
      \/ \E v \in Verifier : ReceiveAnswer(v) \/ DropAnswer(v)
      \/ \E v \in Verifier : /\ CountDevices(v) \/ BindDevice(v) \/ VerifyFails(v)
                             /\ UNCHANGED clientVars
      \/ waiting' \subseteq waiting /\ verifier' = verifier
    BY DEF Next, LoseConnection, StoreLicense, Restart, UnbindDevice, UpdateLicensePlan,
           clientVars, deviceVars, vars
<1> QED
    BY <1>1, <1>2, <1>3, <1>4, <1>5, <1>b

\* What happens to the caches, and to what they wait for, when nothing is begun.
LEMMA ClientStep ==
    ASSUME OrderInv, [Next]_vars
    PROVE  /\ overlapped \subseteq overlapped'
           /\ \/ \E v \in Verifier, d \in Device : VerifyLicense(v, d)
              \/ /\ waiting' \subseteq waiting
                 /\ \A d \in Device : \/ cached'[d] = cached[d]
                                      \/ cached'[d] = stored[d] /\ waiting' = waiting \ Verifying(d)
                                      \/ \E v \in Verifying(d) : /\ waiting' = waiting \ {v}
                                                                 /\ verifier[v].at = "valid"
                                                                 /\ cached'[d] = License(v)
<1>a. cached \in [Device -> LicenseRecord]
    BY DEF OrderInv, BindingsInv
<1>1. CASE \E v \in Verifier, d \in Device : VerifyLicense(v, d)
    BY <1>1 DEF VerifyLicense
<1>2. ASSUME NEW v \in Verifier, ReceiveAnswer(v), NEW d \in Device
      PROVE  \/ cached'[d] = cached[d]
             \/ \E w \in Verifying(d) : /\ waiting' = waiting \ {w}
                                        /\ verifier[w].at = "valid"
                                        /\ cached'[d] = License(w)
    <2>1. \/ cached'[d] = cached[d]
          \/ /\ v \in Verifying(d) /\ waiting' = waiting \ {v}
             /\ verifier[v].at = "valid" /\ cached'[d] = License(v)
        BY <1>2, <1>a DEF ReceiveAnswer, Awaited, Verifying
    <2> QED
        BY <2>1
<1>3. ASSUME NEW e \in Device, Restart(e), NEW d \in Device
      PROVE  \/ cached'[d] = cached[d]
             \/ cached'[d] = stored[d] /\ waiting' = waiting \ Verifying(d)
    BY <1>3, <1>a DEF Restart
<1>4. \/ \E v \in Verifier, d \in Device : VerifyLicense(v, d)
      \/ \E v \in Verifier : ReceiveAnswer(v)
      \/ \E e \in Device : Restart(e)
      \/ waiting' \subseteq waiting /\ UNCHANGED <<cached, overlapped>>
    BY DEF Next, LoseConnection, DropAnswer, StoreLicense, clientVars, vars
<1>5. CASE \E v \in Verifier : ReceiveAnswer(v)
    BY <1>2, <1>5 DEF ReceiveAnswer
<1>6. CASE \E e \in Device : Restart(e)
    BY <1>3, <1>6 DEF Restart
<1> QED
    BY <1>1, <1>4, <1>5, <1>6

LEMMA OneAtATimeStep == OrderInv /\ [Next]_vars => OneAtATime'
<1> SUFFICES ASSUME OrderInv, [Next]_vars, NEW d \in Device, d \notin overlapped'
             PROVE  \A v, w \in Verifying(d)' : v = w /\ AnswerIsNewer(d, v)'
    BY DEF OneAtATime
<1>a. d \notin overlapped /\ \A v, w \in Verifying(d) : v = w /\ AnswerIsNewer(d, v)
    BY ClientStep DEF OrderInv, OneAtATime
<1>b. \A v \in waiting : v \in Verifier /\ verifier[v].at # "idle"
    BY DEF OrderInv
<1>c. \A v \in waiting' : verifier'[v].at # "idle"
    BY WaitingStep
\* what goes on being waited for keeps its device and what it has read
<1>d. ASSUME NEW v \in waiting, v \in Verifying(d)'
      PROVE  v \in Verifying(d) /\ (cached'[d] = cached[d] => AnswerIsNewer(d, v)')
    <2>1. DevicesInv /\ [DevicesNext]_deviceVars
        BY ClientStepIsServerStep DEF OrderInv, BindingsInv
    <2>2. VerificationStep(v)
        BY <2>1, <1>b, VerifierSteps
    <2>3. v \in waiting' /\ verifier'[v].device = d
        BY <1>d DEF Verifying
    <2>4. /\ verifier'[v].device = verifier[v].device
          /\ verifier'[v].at \in {"licensed", "inserting", "valid"} =>
                /\ verifier[v].at \in {"licensed", "inserting", "valid"}
                /\ verifier'[v].change = verifier[v].change
        BY <2>2, <2>3, <1>b, <1>c DEF VerificationStep
    <2>5. v \in Verifying(d)
        BY <2>3, <2>4 DEF Verifying
    <2> QED
        BY <1>a, <2>4, <2>5 DEF AnswerIsNewer
<1>1. ASSUME NEW u \in Verifier, NEW e \in Device, VerifyLicense(u, e)
      PROVE  \A v, w \in Verifying(d)' : v = w /\ AnswerIsNewer(d, v)'
    <2>1. /\ waiting' = waiting \cup {u} /\ cached' = cached
          /\ e = d => Verifying(d) = {}
        BY <1>1, <1>a DEF VerifyLicense
    <2>2. verifier'[u].device = e /\ verifier'[u].change = changes
        BY <1>1 DEF VerifyLicense, GetLicense, Idle, OrderInv, BindingsInv, DevicesInv,
                    DevicesTypeOK
    <2>3. u \in Verifying(d)' => e = d /\ AnswerIsNewer(d, u)'
        BY <2>1, <2>2 DEF Verifying, AnswerIsNewer, OrderInv, ReadBefore
    <2>4. \A v \in Verifying(d)' : v = u \/ (v \in Verifying(d) /\ AnswerIsNewer(d, v)')
        BY <1>d, <2>1 DEF Verifying
    <2> QED
        BY <1>a, <2>1, <2>3, <2>4
<1>2. CASE waiting' \subseteq waiting /\ ~\E v \in Verifier, e \in Device : VerifyLicense(v, e)
    <2>1. ASSUME NEW v \in Verifying(d)' PROVE cached'[d] = cached[d] /\ v \in waiting
        <3>1. v \in waiting' /\ v \in waiting
            BY <1>2, <2>1 DEF Verifying
        <3>2. v \in Verifying(d) /\ \A w \in Verifying(d) : w = v
            BY <1>a, <1>d, <2>1, <3>1
        <3>3. waiting' # waiting \ Verifying(d) /\ \A w \in Verifying(d) : waiting' # waiting \ {w}
            BY <3>1, <3>2
        <3> QED
            BY <1>2, <3>1, <3>3, ClientStep
    <2> QED
        BY <1>a, <1>d, <2>1
<1> QED
    BY <1>1, <1>2, ClientStep

\* For any number of devices and requests: while its verifications do not overlap, a
\* device goes back to an older license only by going back to the one it had stored.
THEOREM LicensesGoForward == Spec => LicenseGoesForward
<1>1. ASSUME OrderInv, [Next]_vars, NEW d \in Device
      PROVE  \/ cached'[d].change >= cached[d].change
             \/ cached'[d] = stored[d]
             \/ d \in overlapped
    <2>1. cached[d].change \in Nat
        BY <1>1 DEF OrderInv, BindingsInv, LicenseRecord
    <2>2. CASE cached'[d] = cached[d] \/ \E v \in Verifier, e \in Device : VerifyLicense(v, e)
        BY <2>1, <2>2 DEF VerifyLicense
    <2>3. ASSUME NEW v \in Verifying(d), verifier[v].at = "valid", cached'[d] = License(v),
                 d \notin overlapped
          PROVE  cached'[d].change >= cached[d].change
        <3>1. verifier[v].change \in Nat /\ License(v).change = verifier[v].change
            BY <1>1 DEF Verifying, License, OrderInv, BindingsInv, DevicesInv, DevicesTypeOK
        <3>2. cached[d].change <= verifier[v].change
            BY <1>1, <2>3 DEF OrderInv, OneAtATime, AnswerIsNewer
        <3> QED
            BY <2>1, <2>3, <3>1, <3>2
    <2> QED
        BY <1>1, <2>2, <2>3, ClientStep
<1>2. OrderInv /\ [Next]_vars => OrderInv'
    BY BindingsInvStep, WaitingStep, ReadBeforeStep, OneAtATimeStep DEF OrderInv
<1>3. OrderInv /\ [Next]_vars =>
        [\A d \in Device : \/ cached'[d].change >= cached[d].change
                           \/ cached'[d] = stored[d]
                           \/ d \in overlapped]_vars
    BY <1>1
<1> QED
    BY <1>2, <1>3, OrderInvInit, PTL DEF Spec, LicenseGoesForward
=============================================================================
