------------------------ MODULE SubscriptionsProofs ------------------------
(***************************************************************************)
(* For any number of requests, subscriptions and events: the row says      *)
(* nothing of Stripe that is not so, a paid plan has a row, and at rest    *)
(* all that is kept of a subscription agrees.                              *)
(*                                                                         *)
(* Stripe never takes back a cancellation, so what an event or a request   *)
(* has learned of one stays true however late it is used.  The invariant   *)
(* says of every event, request and row that what it claims is so: that    *)
(* makes the properties of the row inductive.                              *)
(***************************************************************************)
EXTENDS Subscriptions, TLAPS

StripeRecord == [status : {"running", "canceled"}, plan : Plan, atEnd : BOOLEAN]

EventRecord == [type : {"payment", "updated", "deleted"}, sub : Nat, atEnd : BOOLEAN]

RequestRecord == [op : {"none", "create", "cancel", "cancelAtEnd", "change", "deleted"},
                  at : {"idle", "insert", "stripe", "row", "user", "license"},
                  sub : Nat, plan : Plan]

RowRecord == [sub : Nat, plan : Plan, status : {"none", "running", "canceled"},
              atEnd : BOOLEAN]

Created(sub) == sub \in Nat /\ 0 < sub /\ sub <= Len(stripe)

RealEvent(e) ==
    /\ e \in EventRecord
    /\ Created(e.sub)
    /\ e.type = "deleted" => stripe[e.sub].status = "canceled"
    /\ e.atEnd => stripe[e.sub].atEnd

\* The plan of a request at its last statements has a row.
RealRequest(q) ==
    /\ q \in RequestRecord
    /\ q.at # "idle" => Created(q.sub)
    /\ q.at = "row" => /\ q.op \in {"cancel", "cancelAtEnd", "change", "deleted"}
                       /\ q.op \in {"cancel", "deleted"} => stripe[q.sub].status = "canceled"
                       /\ q.op = "cancelAtEnd" => stripe[q.sub].atEnd
    /\ q.at \in {"user", "license"} => row # NoRow

RealRow(w) ==
    /\ w \in RowRecord
    /\ w = NoRow \/ Created(w.sub)
    /\ w.status = "canceled" => stripe[w.sub].status = "canceled"
    /\ w.atEnd => stripe[w.sub].atEnd

BillingInv ==
    /\ stripe \in Seq(StripeRecord)
    /\ request \in [Request -> RequestRecord]
    /\ \A e \in events : RealEvent(e)
    /\ \A r \in Request : RealRequest(request[r])
    /\ RealRow(row)
    /\ PaidPlanIsRecorded

LEMMA NoRecords ==
    /\ NoRow \in RowRecord /\ NoRow.sub = 0 /\ NoRow.status = "none" /\ ~NoRow.atEnd
    /\ NoRequest \in RequestRecord /\ NoRequest.at = "idle"
    BY DEF NoRow, NoRequest, RowRecord, RequestRecord, Plan

LEMMA PlanOfLicense == \A plan \in Plan : LicenseOf(plan).plan = plan
    BY DEF LicenseOf

LEMMA BillingInvInit == Init => BillingInv
<1> SUFFICES ASSUME Init PROVE BillingInv
    OBVIOUS
<1>1. stripe \in Seq(StripeRecord) /\ events = {} /\ row = NoRow
    BY DEF Init
<1>2. request \in [Request -> RequestRecord] /\ \A r \in Request : RealRequest(request[r])
    BY NoRecords DEF Init, RealRequest
<1>3. RealRow(row)
    BY <1>1, NoRecords DEF RealRow
<1>4. PaidPlanIsRecorded
    BY PlanOfLicense DEF Init, PaidPlanIsRecorded, Plan
<1> QED
    BY <1>1, <1>2, <1>3, <1>4 DEF BillingInv

\* What was true of Stripe stays so.
GoesOn ==
    /\ stripe' \in Seq(StripeRecord)
    /\ Len(stripe) <= Len(stripe')
    /\ \A sub \in 1 .. Len(stripe) :
          /\ stripe[sub].status = "canceled" => stripe'[sub].status = "canceled"
          /\ stripe[sub].atEnd => stripe'[sub].atEnd

LEMMA SameStripe == BillingInv /\ UNCHANGED stripe => GoesOn
    BY DEF BillingInv, GoesOn

\* Claims stay true: a step has only to answer for the ones it makes.
LEMMA ClaimsStay ==
    ASSUME BillingInv, GoesOn, row # NoRow => row' # NoRow,
           request' \in [Request -> RequestRecord],
           \A e \in events' : e \in events \/ RealEvent(e)',
           \A r \in Request : request'[r] = request[r] \/ RealRequest(request[r])',
           row' = row \/ RealRow(row)',
           PaidPlanIsRecorded'
    PROVE  BillingInv'
<1>0. stripe \in Seq(StripeRecord) /\ Len(stripe) \in Nat /\ Len(stripe') \in Nat
    BY DEF BillingInv, GoesOn
<1>1. \A sub : Created(sub) => /\ Created(sub)' /\ sub \in 1 .. Len(stripe)
    BY <1>0 DEF Created, GoesOn
<1>2. ASSUME NEW e \in events' PROVE RealEvent(e)'
    BY <1>1, <1>2 DEF BillingInv, RealEvent, GoesOn
<1>3. ASSUME NEW r \in Request PROVE RealRequest(request[r])'
    <2>1. CASE RealRequest(request[r])'
        BY <2>1
    <2>2. CASE request'[r] = request[r]
        <3>1. RealRequest(request[r])
            BY DEF BillingInv
        <3> QED
            BY <1>1, <2>2, <3>1 DEF RealRequest, GoesOn
    <2> QED
        BY <2>1, <2>2
<1>4. RealRow(row)'
    <2>1. CASE row' = row
        <3>1. RealRow(row)
            BY DEF BillingInv
        <3>2. CASE row = NoRow
            BY <2>1, <3>2, NoRecords DEF RealRow
        <3>3. CASE Created(row.sub)
            BY <1>1, <2>1, <3>1, <3>3 DEF RealRow, GoesOn
        <3> QED
            BY <3>1, <3>2, <3>3 DEF RealRow
    <2> QED
        BY <2>1
<1> QED
    BY <1>2, <1>3, <1>4 DEF BillingInv, GoesOn

\* A step that moves one request on, and perhaps answers an event or makes new ones.
LEMMA RequestStep ==
    ASSUME BillingInv, GoesOn, row # NoRow => row' # NoRow,
           NEW r \in Request, NEW q, request' = [request EXCEPT ![r] = q],
           RealRequest(q)',
           \A e \in events' : e \in events \/ RealEvent(e)',
           row' = row \/ RealRow(row)', PaidPlanIsRecorded'
    PROVE  BillingInv'
<1>1. request \in [Request -> RequestRecord] /\ q \in RequestRecord
    BY DEF BillingInv, RealRequest
<1>2. request' \in [Request -> RequestRecord]
    BY <1>1
<1>3. ASSUME NEW s \in Request PROVE request'[s] = request[s] \/ RealRequest(request[s])'
    <2>1. CASE s = r
        <3>1. request'[s] = q
            BY <1>1, <2>1
        <3> QED
            BY <3>1 DEF RealRequest
    <2>2. CASE s # r
        BY <1>1, <2>2
    <2> QED
        BY <2>1, <2>2
<1> QED
    BY <1>2, <1>3, ClaimsStay

LEMMA SamePlans ==
    ASSUME BillingInv, UNCHANGED <<userPlan, license>>, row # NoRow => row' # NoRow
    PROVE  PaidPlanIsRecorded'
    BY DEF BillingInv, PaidPlanIsRecorded

\* A request is at an end, or fails.
LEMMA NoneIsReal == RealRequest(NoRequest)'
    BY NoRecords DEF RealRequest

LEMMA RequestFacts ==
    ASSUME BillingInv, NEW r \in Request
    PROVE  /\ RealRequest(request[r]) /\ request[r] \in RequestRecord
           /\ request[r] = NoRequest \/ request[r].at = "idle" \/ Created(request[r].sub)
    BY DEF BillingInv, RealRequest

\* Stripe changes one subscription, and neither runs it again nor forgets its end.
LEMMA StripeStep ==
    ASSUME BillingInv, NEW sub, Created(sub), NEW after \in StripeRecord,
           stripe' = [stripe EXCEPT ![sub] = after],
           stripe[sub].status = "canceled" => after.status = "canceled",
           stripe[sub].atEnd => after.atEnd
    PROVE  GoesOn /\ stripe'[sub] = after /\ Created(sub)'
<1>1. stripe \in Seq(StripeRecord) /\ Len(stripe) \in Nat /\ sub \in 1 .. Len(stripe)
    BY DEF BillingInv, Created
<1>2. stripe' \in Seq(StripeRecord) /\ Len(stripe') = Len(stripe) /\ stripe'[sub] = after
    BY <1>1
<1>3. \A s \in 1 .. Len(stripe) : s # sub => stripe'[s] = stripe[s]
    BY <1>1
<1> QED
    BY <1>1, <1>2, <1>3 DEF GoesOn, Created

LEMMA CreateStep ==
    ASSUME BillingInv, NEW r \in Request, NEW plan \in PaidPlan, CreateInStripe(r, plan)
    PROVE  BillingInv'
<1>0. PICK sub, q, new, event :
        /\ sub = Len(stripe) + 1
        /\ new = [status |-> "running", plan |-> plan, atEnd |-> FALSE]
        /\ q = [op |-> "create", at |-> "insert", sub |-> sub, plan |-> plan]
        /\ event = Plain("payment", sub)
    OBVIOUS
<1>1. /\ stripe' = Append(stripe, new)
      /\ events' = events \cup {event}
      /\ request' = [request EXCEPT ![r] = q]
      /\ UNCHANGED <<row, userPlan, license>>
    BY <1>0 DEF CreateInStripe, Emit, Continue, FirstStatement, rowVars
<1>2. new \in StripeRecord /\ stripe \in Seq(StripeRecord) /\ Len(stripe) \in Nat
    BY <1>0 DEF StripeRecord, PaidPlan, BillingInv
<1>3. GoesOn /\ Created(sub)'
    <2>1. /\ stripe' \in Seq(StripeRecord) /\ Len(stripe') = Len(stripe) + 1
          /\ \A s \in 1 .. Len(stripe) : stripe'[s] = stripe[s]
        BY <1>1, <1>2
    <2> QED
        BY <1>0, <1>2, <2>1 DEF GoesOn, Created
<1>4. RealRequest(q)'
    BY <1>0, <1>2, <1>3 DEF RealRequest, RequestRecord, PaidPlan
<1>5. RealEvent(event)'
    BY <1>0, <1>2, <1>3 DEF RealEvent, EventRecord, Plain
<1>6. \A e \in events' : e \in events \/ RealEvent(e)'
    BY <1>1, <1>5
<1>7. PaidPlanIsRecorded'
    BY <1>1, SamePlans
<1> QED
    BY <1>1, <1>3, <1>4, <1>6, <1>7, RequestStep

LEMMA InsertStep ==
    ASSUME BillingInv, NEW r \in Request, InsertRow(r)
    PROVE  BillingInv'
<1>1. GoesOn
    BY SameStripe DEF InsertRow
<1>2. UNCHANGED <<stripe, events, userPlan, license>>
    BY DEF InsertRow
<1>3. RealRequest(request[r]) /\ Created(request[r].sub) /\ request[r] \in RequestRecord
    BY RequestFacts DEF RealRequest, InsertRow
<1>4. CASE row = NoRow
    <2>0. PICK q, new :
            /\ q = Moved(r, "user")
            /\ new = [sub |-> request[r].sub, plan |-> request[r].plan,
                      status |-> "running", atEnd |-> FALSE]
        OBVIOUS
    <2>1. row' = new /\ request' = [request EXCEPT ![r] = q]
        BY <1>4, <2>0 DEF InsertRow, Continue
    <2>2. new # NoRow
        BY <1>3, <2>0 DEF NoRow, Created
    <2>3. RealRow(new)'
        BY <1>2, <1>3, <2>0 DEF RealRow, RowRecord, RequestRecord, Created
    <2>4. RealRequest(q)'
        BY <1>2, <1>3, <2>0, <2>1, <2>2 DEF RealRequest, Moved, RequestRecord, Created
    <2>5. row' # NoRow /\ RealRow(row)'
        BY <2>1, <2>2, <2>3 DEF RealRow
    <2>6. PaidPlanIsRecorded'
        BY <1>2, <2>5, SamePlans
    <2> QED
        BY <1>1, <1>2, <2>1, <2>4, <2>5, <2>6, RequestStep
<1>5. CASE row # NoRow
    <2>1. row' = row /\ request' = [request EXCEPT ![r] = NoRequest]
        BY <1>5 DEF InsertRow, Continue
    <2>2. PaidPlanIsRecorded'
        BY <1>2, <2>1, SamePlans
    <2> QED
        BY <1>1, <1>2, <2>1, <2>2, NoneIsReal, RequestStep
<1> QED
    BY <1>4, <1>5

LEMMA ReadRowStep ==
    ASSUME BillingInv, NEW r \in Request,
           NEW op \in {"cancel", "cancelAtEnd", "change"}, NEW plan \in Plan,
           ReadRow(r, op, plan)
    PROVE  BillingInv'
<1>0. PICK q : q = [op |-> op, at |-> "stripe", sub |-> row.sub, plan |-> plan]
    OBVIOUS
<1>1. /\ request' = [request EXCEPT ![r] = q] /\ row # NoRow
      /\ UNCHANGED <<stripe, events, row, userPlan, license>>
    BY <1>0 DEF ReadRow, Continue, rowVars
<1>2. Created(row.sub) /\ row.sub \in Nat
    BY <1>1 DEF BillingInv, RealRow, Created
<1>3. RealRequest(q)'
    BY <1>0, <1>1, <1>2 DEF RealRequest, RequestRecord, Created
<1>4. PaidPlanIsRecorded'
    BY <1>1, SamePlans
<1> QED
    BY <1>1, <1>3, <1>4, SameStripe, RequestStep

LEMMA CallStripeStep ==
    ASSUME BillingInv, NEW r \in Request, NEW op, NEW after \in StripeRecord, NEW type,
           op \in {"cancel", "cancelAtEnd", "change"}, type \in {"deleted", "updated"},
           CallStripe(r, op, after, type),
           Asked(r).atEnd => after.atEnd,
           op = "cancel" \/ type = "deleted" => after.status = "canceled",
           op = "cancelAtEnd" => after.atEnd
    PROVE  BillingInv'
<1>0. PICK sub, q, event :
        /\ sub = request[r].sub
        /\ q = Moved(r, "row")
        /\ event = IF type = "deleted" THEN Plain("deleted", sub) ELSE Updated(sub)
    OBVIOUS
<1>1. /\ request[r].op = op /\ request[r].at = "stripe" /\ stripe[sub].status # "canceled"
      /\ stripe' = [stripe EXCEPT ![sub] = after]
      /\ events' = events \cup {event}
      /\ request' = [request EXCEPT ![r] = q]
      /\ UNCHANGED <<row, userPlan, license>>
    BY <1>0 DEF CallStripe, Emit, Continue, FirstStatement, rowVars
<1>2. RealRequest(request[r]) /\ Created(sub) /\ request[r] \in RequestRecord
    BY <1>0, <1>1, RequestFacts DEF RealRequest
<1>3. GoesOn /\ stripe'[sub] = after /\ Created(sub)'
    <2>1. stripe[sub].status # "canceled" /\ (stripe[sub].atEnd => after.atEnd)
        BY <1>0, <1>1 DEF Asked
    <2> QED
        BY <1>1, <1>2, <2>1, StripeStep
<1>4. RealRequest(q)'
    BY <1>0, <1>1, <1>2, <1>3 DEF RealRequest, Moved, RequestRecord
<1>5. RealEvent(event)'
    <2>1. sub \in Nat /\ after.atEnd \in BOOLEAN
        BY <1>2 DEF Created, StripeRecord
    <2>2. CASE type = "deleted"
        BY <1>0, <1>3, <2>1, <2>2 DEF RealEvent, EventRecord, Plain
    <2>3. CASE type # "deleted"
        <3>1. event = [type |-> "updated", sub |-> sub, atEnd |-> after.atEnd]
            BY <1>0, <1>3, <2>3 DEF Updated
        <3> QED
            BY <1>3, <2>1, <3>1 DEF RealEvent, EventRecord
    <2> QED
        BY <2>2, <2>3
<1>6. \A e \in events' : e \in events \/ RealEvent(e)'
    BY <1>1, <1>5
<1>7. PaidPlanIsRecorded'
    BY <1>1, SamePlans
<1> QED
    BY <1>1, <1>3, <1>4, <1>6, <1>7, RequestStep

LEMMA UpdateRowStep ==
    ASSUME BillingInv, NEW r \in Request, UpdateRow(r)
    PROVE  BillingInv'
<1>0. PICK q, last, next :
        /\ q = request[r]
        /\ last = (~Finds(q.sub) \/ RowOnly(q.op))
        /\ next = IF last THEN NoRequest ELSE Moved(r, "user")
    OBVIOUS
<1>1. /\ q.at = "row" /\ UNCHANGED <<stripe, userPlan, license>>
      /\ row' = IF Finds(q.sub) THEN RowAfter(q) ELSE row
      /\ request' = [request EXCEPT ![r] = next]
    BY <1>0 DEF UpdateRow, Continue
<1>2. \A e \in events' : e \in events
    BY DEF UpdateRow, AnswerOf, Answer
<1>3. RealRequest(q) /\ Created(q.sub) /\ q \in RequestRecord
    BY <1>0, <1>1, RequestFacts DEF RealRequest
<1>4. GoesOn /\ RealRow(row)
    BY <1>1, SameStripe DEF BillingInv
<1>5. CASE Finds(q.sub)
    <2>1. row.sub = q.sub /\ row \in RowRecord /\ row # NoRow
        BY <1>3, <1>4, <1>5 DEF Finds, RealRow, NoRow, Created
    <2>2. q.op \in {"cancel", "cancelAtEnd", "change", "deleted"}
        BY <1>1, <1>3 DEF RealRequest
    <2>3. /\ row' \in RowRecord /\ row'.sub = row.sub
          /\ row'.status = "canceled" => stripe[row.sub].status = "canceled"
          /\ row'.atEnd => stripe[row.sub].atEnd
        <3>1. CASE q.op \in {"cancel", "deleted"}
            BY <1>1, <1>3, <1>4, <1>5, <2>1, <3>1
               DEF RowAfter, RealRequest, RealRow, RowRecord
        <3>2. CASE q.op = "cancelAtEnd"
            BY <1>1, <1>3, <1>4, <1>5, <2>1, <3>2
               DEF RowAfter, RealRequest, RealRow, RowRecord
        <3>3. CASE q.op = "change"
            BY <1>1, <1>3, <1>4, <1>5, <2>1, <3>3
               DEF RowAfter, RequestRecord, RealRow, RowRecord
        <3> QED
            BY <2>2, <3>1, <3>2, <3>3
    <2>4. row' # NoRow /\ RealRow(row)'
        BY <1>1, <1>3, <2>1, <2>3 DEF RealRow, NoRow, Created
    <2>5. RealRequest(next)'
        <3>1. CASE next = Moved(r, "user")
            BY <1>0, <1>1, <1>3, <2>4, <3>1 DEF RealRequest, Moved, RequestRecord, Created
        <3>2. CASE next = NoRequest
            BY <3>2, NoneIsReal DEF RealRequest
        <3> QED
            BY <1>0, <3>1, <3>2
    <2>6. PaidPlanIsRecorded'
        BY <1>1, <2>4, SamePlans
    <2> QED
        BY <1>1, <1>2, <1>4, <2>4, <2>5, <2>6, RequestStep
<1>6. CASE ~Finds(q.sub)
    <2>1. row' = row /\ request' = [request EXCEPT ![r] = NoRequest]
        BY <1>0, <1>1, <1>6
    <2>2. PaidPlanIsRecorded'
        BY <1>1, <2>1, SamePlans
    <2> QED
        BY <1>2, <1>4, <2>1, <2>2, NoneIsReal, RequestStep
<1> QED
    BY <1>5, <1>6

LEMMA LastStatementsStep ==
    ASSUME BillingInv, NEW r \in Request, UpdateUser(r) \/ UpdateLicense(r)
    PROVE  BillingInv'
<1>1. RealRequest(request[r]) /\ request[r] \in RequestRecord
    BY RequestFacts
<1>2. /\ row # NoRow /\ UNCHANGED <<stripe, row>> /\ Created(request[r].sub)
      /\ \A e \in events' : e \in events
    BY <1>1 DEF RealRequest, UpdateUser, UpdateLicense, AnswerOf, Answer
<1>3. PaidPlanIsRecorded' /\ GoesOn
    BY <1>2, SameStripe DEF PaidPlanIsRecorded
<1>4. CASE UpdateUser(r)
    <2>0. PICK q : q = Moved(r, "license")
        OBVIOUS
    <2>1. RealRequest(q)'
        BY <1>1, <1>2, <2>0 DEF RealRequest, Moved, RequestRecord, Created
    <2>2. request' = [request EXCEPT ![r] = q]
        BY <1>4, <2>0 DEF UpdateUser, Continue
    <2> QED
        BY <1>2, <1>3, <2>1, <2>2, RequestStep
<1>5. CASE UpdateLicense(r)
    BY <1>2, <1>3, <1>5, NoneIsReal, RequestStep DEF UpdateLicense, Continue
<1> QED
    BY <1>4, <1>5

LEMMA EndStep ==
    ASSUME BillingInv, NEW r \in Request, StripeRefuses(r) \/ RequestFails(r)
    PROVE  BillingInv'
<1>1. /\ request' = [request EXCEPT ![r] = NoRequest]
      /\ UNCHANGED <<stripe, events, row, userPlan, license>>
    BY DEF StripeRefuses, RequestFails, Continue, rowVars
<1> QED
    BY <1>1, NoneIsReal, SameStripe, SamePlans, RequestStep

LEMMA ReceiveEventStep ==
    ASSUME BillingInv, NEW event \in events, ReceiveEvent(event)
    PROVE  BillingInv'
<1> DEFINE new == [row EXCEPT !.status = "running",
                              !.atEnd = IF event.type = "updated" THEN event.atEnd ELSE @]
<1>1. /\ row' = IF Finds(event.sub) THEN new ELSE row
      /\ UNCHANGED <<stripe, userPlan, license, request>>
      /\ \A e \in events' : e \in events
    BY DEF ReceiveEvent, Answer
<1>2. RealEvent(event) /\ RealRow(row) /\ row \in RowRecord /\ event \in EventRecord
    BY DEF BillingInv, RealRow, RealEvent
<1>3. GoesOn
    BY <1>1, SameStripe
<1>4. CASE ~Finds(event.sub)
    BY <1>1, <1>3, <1>4, SamePlans, ClaimsStay DEF BillingInv
<1>5. CASE Finds(event.sub)
    <2>1. row.sub = event.sub /\ Created(row.sub) /\ row # NoRow
        BY <1>2, <1>5 DEF Finds, RealEvent, NoRow, Created
    <2>2. /\ new \in RowRecord /\ new.sub = row.sub /\ new.status = "running"
          /\ new.atEnd => stripe[row.sub].atEnd
        BY <1>2, <2>1 DEF RowRecord, EventRecord, RealRow, RealEvent
    <2>3. row' = new
        BY <1>1, <1>5
    <2> HIDE DEF new
    <2>4. RealRow(row)' /\ row' # NoRow
        BY <1>1, <2>1, <2>2, <2>3 DEF RealRow, NoRow, Created
    <2> QED
        BY <1>1, <1>3, <2>4, SamePlans, ClaimsStay DEF BillingInv
<1> QED
    BY <1>4, <1>5

LEMMA ReceiveDeletedStep ==
    ASSUME BillingInv, NEW r \in Request, NEW event \in events, ReceiveDeleted(r, event)
    PROVE  BillingInv'
<1>0. PICK q : q = [op |-> "deleted", at |-> "row", sub |-> event.sub, plan |-> "free"]
    OBVIOUS
<1>1. /\ request' = [request EXCEPT ![r] = q] /\ event.type = "deleted"
      /\ UNCHANGED <<stripe, events, row, userPlan, license>>
    BY <1>0 DEF ReceiveDeleted, Continue, rowVars
<1>2. RealEvent(event)
    BY DEF BillingInv
<1>3. RealRequest(q)'
    BY <1>0, <1>1, <1>2 DEF RealRequest, RealEvent, RequestRecord, Created, Plan
<1> QED
    BY <1>1, <1>3, SameStripe, SamePlans, RequestStep

LEMMA StripeAloneStep ==
    ASSUME BillingInv, NEW sub \in DOMAIN stripe, Renews(sub) \/ Ends(sub)
    PROVE  BillingInv'
<1>1. stripe \in Seq(StripeRecord) /\ Created(sub) /\ stripe[sub] \in StripeRecord
    BY DEF BillingInv, Created
<1>2. UNCHANGED <<row, userPlan, license, request>>
    BY DEF Renews, Ends, rowVars
<1>3. CASE Renews(sub)
    <2>1. events' = events \cup {Plain("payment", sub)} /\ UNCHANGED stripe
        BY <1>3 DEF Renews, Emit
    <2>2. RealEvent(Plain("payment", sub))'
        BY <1>1, <2>1 DEF RealEvent, EventRecord, Plain, Created
    <2>3. \A e \in events' : e \in events \/ RealEvent(e)'
        BY <2>1, <2>2
    <2> QED
        BY <1>2, <2>1, <2>3, SameStripe, SamePlans, ClaimsStay DEF BillingInv
<1>4. CASE Ends(sub)
    <2>0. PICK after : after = [stripe[sub] EXCEPT !.status = "canceled"]
        OBVIOUS
    <2>1. events' = events \cup {Plain("deleted", sub)}
        BY <1>4 DEF Ends, Emit
    <2>2. stripe' = [stripe EXCEPT ![sub] = after]
        BY <1>4, <2>0 DEF Ends
    <2>3. /\ after \in StripeRecord /\ after.status = "canceled"
          /\ after.atEnd = stripe[sub].atEnd
        BY <1>1, <2>0 DEF StripeRecord
    <2>4. GoesOn /\ stripe'[sub] = after /\ Created(sub)'
        BY <1>1, <2>2, <2>3, StripeStep
    <2>5. RealEvent(Plain("deleted", sub))'
        BY <1>1, <2>3, <2>4 DEF RealEvent, EventRecord, Plain, Created
    <2>6. \A e \in events' : e \in events \/ RealEvent(e)'
        BY <2>1, <2>5
    <2> QED
        BY <1>2, <2>4, <2>6, SamePlans, ClaimsStay DEF BillingInv
<1> QED
    BY <1>3, <1>4

LEMMA BillingInvStep == BillingInv /\ [Next]_vars => BillingInv'
<1> SUFFICES ASSUME BillingInv, [Next]_vars PROVE BillingInv'
    OBVIOUS
<1>1. ASSUME NEW r \in Request, NEW plan \in PaidPlan, CreateInStripe(r, plan)
      PROVE  BillingInv'
    BY <1>1, CreateStep
<1>2. ASSUME NEW r \in Request, InsertRow(r) PROVE BillingInv'
    BY <1>2, InsertStep
<1>3. ASSUME NEW r \in Request, NEW op \in {"cancel", "cancelAtEnd"}, ReadRow(r, op, "free")
      PROVE  BillingInv'
    BY <1>3, ReadRowStep DEF Plan
<1>4. ASSUME NEW r \in Request, NEW plan \in PaidPlan, ReadRow(r, "change", plan)
      PROVE  BillingInv'
    BY <1>4, ReadRowStep DEF PaidPlan
<1>5. ASSUME NEW r \in Request,
             CancelInStripe(r) \/ CancelAtEndInStripe(r) \/ ChangeInStripe(r)
      PROVE  BillingInv'
    <2>1. request[r].at = "stripe" /\ RealRequest(request[r])
        BY <1>5, RequestFacts
           DEF CancelInStripe, CancelAtEndInStripe, ChangeInStripe, CallStripe
    <2>2. Asked(r) \in StripeRecord /\ request[r].plan \in Plan
        BY <2>1 DEF Asked, RealRequest, RequestRecord, Created, BillingInv
    <2>3. CASE CancelInStripe(r)
        <3>1. [Asked(r) EXCEPT !.status = "canceled"] \in StripeRecord
            BY <2>2 DEF StripeRecord
        <3> QED
            BY <2>2, <2>3, <3>1, CallStripeStep DEF CancelInStripe, StripeRecord
    <2>4. CASE CancelAtEndInStripe(r)
        <3>1. [Asked(r) EXCEPT !.atEnd = TRUE] \in StripeRecord
            BY <2>2 DEF StripeRecord
        <3> QED
            BY <2>2, <2>4, <3>1, CallStripeStep DEF CancelAtEndInStripe, StripeRecord
    <2>5. CASE ChangeInStripe(r)
        <3>1. [Asked(r) EXCEPT !.plan = request[r].plan] \in StripeRecord
            BY <2>2 DEF StripeRecord
        <3> QED
            BY <2>2, <2>5, <3>1, CallStripeStep DEF ChangeInStripe, StripeRecord
    <2> QED
        BY <1>5, <2>3, <2>4, <2>5
<1>6. ASSUME NEW r \in Request, UpdateRow(r) PROVE BillingInv'
    BY <1>6, UpdateRowStep
<1>7. ASSUME NEW r \in Request, UpdateUser(r) \/ UpdateLicense(r) PROVE BillingInv'
    BY <1>7, LastStatementsStep
<1>8. ASSUME NEW r \in Request, StripeRefuses(r) \/ RequestFails(r) PROVE BillingInv'
    BY <1>8, EndStep
<1>9. ASSUME NEW event \in events, ReceiveEvent(event) PROVE BillingInv'
    BY <1>9, ReceiveEventStep
<1>10. ASSUME NEW r \in Request, NEW event \in events, ReceiveDeleted(r, event)
       PROVE  BillingInv'
    BY <1>10, ReceiveDeletedStep
<1>11. ASSUME NEW sub \in DOMAIN stripe, Renews(sub) \/ Ends(sub) PROVE BillingInv'
    BY <1>11, StripeAloneStep
<1>12. ASSUME UNCHANGED vars PROVE BillingInv'
    BY <1>12, SameStripe, SamePlans, ClaimsStay DEF BillingInv, vars, rowVars
<1> QED
    BY <1>1, <1>2, <1>3, <1>4, <1>5, <1>6, <1>7, <1>8, <1>9, <1>10, <1>11, <1>12 DEF Next

LEMMA BillingInvHolds == Spec => []BillingInv
BY BillingInvInit, BillingInvStep, PTL DEF Spec

\* The row never says that Stripe has ended, or will end, what it goes on charging for.
THEOREM CancellationsAreReal == Spec => []CancelIsReal
<1>1. BillingInv => CancelIsReal
    BY DEF BillingInv, RealRow, CancelIsReal
<1> QED
    BY <1>1, BillingInvHolds, PTL

\* No one has a paid plan, or a paid license, without a recorded subscription.
THEOREM PaidPlansAreRecorded == Spec => []PaidPlanIsRecorded
<1>1. BillingInv => PaidPlanIsRecorded
    BY DEF BillingInv
<1> QED
    BY <1>1, BillingInvHolds, PTL

----------------------------------------------------------------------------
(***************************************************************************)
(* At rest Stripe, row, user and license agree.  A request fits the row it *)
(* works on.  Undisturbed, the one upgrade that may be under way knows     *)
(* the plan in force; user and license have that plan unless the upgrade   *)
(* is still to write it, or the subscription has ended and the event that  *)
(* says so is still to be answered.                                        *)
(***************************************************************************)
Resetting(q) == q.op \in {"cancel", "deleted"}

Fits(q) ==
    /\ q.at = "idle" <=> q = NoRequest
    /\ q.op = "none" => q.at = "idle"
    /\ q.at = "insert" => q.op = "create"
    /\ q.op = "create" => q.at \in {"insert", "user", "license"}
    /\ q.op = "cancelAtEnd" => q.at \in {"stripe", "row"}
    /\ q.op \in {"cancel", "cancelAtEnd", "change"} \/ q.at \in {"user", "license"}
            => row # NoRow /\ q.sub = row.sub
    /\ Resetting(q) => /\ q.plan = "free"
                       /\ q.at # "stripe" => stripe[q.sub].status = "canceled"

EachFits == \A r \in Request : Fits(request[r])

EndReported(sub) == Plain("deleted", sub) \in events

Upgrades(at) == \E r \in Request : Upgrading(request[r]) /\ request[r].at \in at

UpgradesInForce ==
    \A r \in Request : Upgrading(request[r]) =>
        /\ request[r].plan = stripe[request[r].sub].plan
        /\ stripe[request[r].sub].status = "canceled" => EndReported(request[r].sub)

RowAgrees == row # NoRow => row.plan = stripe[row.sub].plan
UserAgrees == userPlan = PlanInForce \/ EndReported(row.sub)
LicenseAgrees == license = LicenseOf(PlanInForce) \/ EndReported(row.sub)

\* what the last statement of a deleted event relies on when the event is answered
UserIsReset ==
    \A r \in Request : request[r].op = "deleted" /\ request[r].at = "license" => userPlan = "free"

Undisturbed ==
    /\ ~Overlap(request)
    /\ UpgradesInForce
    /\ RowAgrees \/ Upgrades({"row"})
    /\ UserAgrees \/ Upgrades({"row", "user"})
    /\ LicenseAgrees \/ Upgrades({"row", "user", "license"})
    /\ UserIsReset

RestInv == BillingInv /\ EachFits /\ (~disturbed => Undisturbed)

LEMMA StripeGoesOn == BillingInv /\ [Next]_vars => GoesOn
<1> SUFFICES ASSUME BillingInv, [Next]_vars PROVE GoesOn
    OBVIOUS
<1>1. stripe \in Seq(StripeRecord) /\ Len(stripe) \in Nat
    BY DEF BillingInv
<1>2. ASSUME NEW r \in Request, NEW plan \in PaidPlan, CreateInStripe(r, plan) PROVE GoesOn
    <2>0. PICK new : new = [status |-> "running", plan |-> plan, atEnd |-> FALSE]
        OBVIOUS
    <2>1. new \in StripeRecord /\ stripe' = Append(stripe, new)
        BY <1>2, <2>0 DEF StripeRecord, PaidPlan, CreateInStripe
    <2>2. /\ stripe' \in Seq(StripeRecord) /\ Len(stripe') = Len(stripe) + 1
          /\ \A s \in 1 .. Len(stripe) : stripe'[s] = stripe[s]
        BY <1>1, <2>1
    <2> QED
        BY <1>1, <2>2 DEF GoesOn
<1>3. ASSUME NEW sub, Created(sub), NEW after \in StripeRecord,
             stripe' = [stripe EXCEPT ![sub] = after],
             stripe[sub].status # "canceled", stripe[sub].atEnd => after.atEnd
      PROVE  GoesOn
    BY <1>3, StripeStep
<1>4. ASSUME NEW r \in Request,
             CancelInStripe(r) \/ CancelAtEndInStripe(r) \/ ChangeInStripe(r)
      PROVE  GoesOn
    <2>0. PICK sub : sub = request[r].sub
        OBVIOUS
    <2>1. request[r].at = "stripe" /\ stripe[sub].status # "canceled"
        BY <1>4, <2>0 DEF CancelInStripe, CancelAtEndInStripe, ChangeInStripe, CallStripe
    <2>2. Created(sub) /\ stripe[sub] \in StripeRecord /\ request[r].plan \in Plan
        BY <1>1, <2>0, <2>1, RequestFacts DEF RealRequest, Created, RequestRecord
    <2>3. CASE CancelInStripe(r)
        <3>1. [stripe[sub] EXCEPT !.status = "canceled"] \in StripeRecord
            BY <2>2 DEF StripeRecord
        <3>2. stripe' = [stripe EXCEPT ![sub] = [stripe[sub] EXCEPT !.status = "canceled"]]
            BY <2>0, <2>3 DEF CancelInStripe, CallStripe, Asked
        <3>3. [stripe[sub] EXCEPT !.status = "canceled"].atEnd = stripe[sub].atEnd
            BY <2>2 DEF StripeRecord
        <3> QED
            BY <1>3, <2>1, <2>2, <3>1, <3>2, <3>3
    <2>4. CASE CancelAtEndInStripe(r)
        <3>1. [stripe[sub] EXCEPT !.atEnd = TRUE] \in StripeRecord
            BY <2>2 DEF StripeRecord
        <3>2. stripe' = [stripe EXCEPT ![sub] = [stripe[sub] EXCEPT !.atEnd = TRUE]]
            BY <2>0, <2>4 DEF CancelAtEndInStripe, CallStripe, Asked
        <3>3. [stripe[sub] EXCEPT !.atEnd = TRUE].atEnd
            BY <2>2 DEF StripeRecord
        <3> QED
            BY <1>3, <2>1, <2>2, <3>1, <3>2, <3>3
    <2>5. CASE ChangeInStripe(r)
        <3>1. [stripe[sub] EXCEPT !.plan = request[r].plan] \in StripeRecord
            BY <2>2 DEF StripeRecord
        <3>2. stripe' = [stripe EXCEPT ![sub] = [stripe[sub] EXCEPT !.plan = request[r].plan]]
            BY <2>0, <2>5 DEF ChangeInStripe, CallStripe, Asked
        <3>3. [stripe[sub] EXCEPT !.plan = request[r].plan].atEnd = stripe[sub].atEnd
            BY <2>2 DEF StripeRecord
        <3> QED
            BY <1>3, <2>1, <2>2, <3>1, <3>2, <3>3
    <2> QED
        BY <1>4, <2>3, <2>4, <2>5
<1>5. ASSUME NEW sub \in DOMAIN stripe, Ends(sub) PROVE GoesOn
    <2>1. Created(sub) /\ stripe[sub] \in StripeRecord
        BY <1>1 DEF Created
    <2>2. [stripe[sub] EXCEPT !.status = "canceled"] \in StripeRecord
        BY <2>1 DEF StripeRecord
    <2>3. /\ stripe' = [stripe EXCEPT ![sub] = [stripe[sub] EXCEPT !.status = "canceled"]]
          /\ stripe[sub].status # "canceled"
        BY <1>5 DEF Ends
    <2>4. [stripe[sub] EXCEPT !.status = "canceled"].atEnd = stripe[sub].atEnd
        BY <2>1 DEF StripeRecord
    <2> QED
        BY <1>3, <2>1, <2>2, <2>3, <2>4
<1>6. CASE UNCHANGED stripe
    BY <1>6, SameStripe
<1> QED
    BY <1>2, <1>4, <1>5, <1>6
       DEF Next, InsertRow, ReadRow, StripeRefuses, UpdateRow, UpdateUser, UpdateLicense,
           RequestFails, ReceiveEvent, ReceiveDeleted, Renews, vars

\* A row, once there, stays that of its subscription.
LEMMA RowStays ==
    ASSUME BillingInv, [Next]_vars, row # NoRow
    PROVE  row' # NoRow /\ row'.sub = row.sub
<1>1. row \in RowRecord /\ Created(row.sub)
    BY DEF BillingInv, RealRow
<1>2. ASSUME NEW r \in Request, UpdateRow(r) PROVE row'.sub = row.sub
    <2>1. request[r].op \in {"cancel", "cancelAtEnd", "change", "deleted"}
        BY <1>2, RequestFacts DEF RealRequest, UpdateRow
    <2> QED
        BY <1>1, <1>2, <2>1 DEF UpdateRow, RowAfter, RowRecord
<1>3. ASSUME NEW event \in events, ReceiveEvent(event) PROVE row'.sub = row.sub
    BY <1>1, <1>3 DEF ReceiveEvent, RowRecord
<1>4. CASE UNCHANGED row
    BY <1>4
<1>5. row'.sub = row.sub
    BY <1>2, <1>3, <1>4
       DEF Next, CreateInStripe, InsertRow, ReadRow, CancelInStripe, CancelAtEndInStripe,
           ChangeInStripe, CallStripe, StripeRefuses, UpdateUser, UpdateLicense,
           RequestFails, ReceiveDeleted, Renews, Ends, rowVars, vars
<1> QED
    BY <1>1, <1>5 DEF NoRow, Created

LEMMA FitsStay ==
    ASSUME BillingInv, EachFits, [Next]_vars,
           \A r \in Request : request'[r] = request[r] \/ Fits(request[r])'
    PROVE  EachFits'
<1> SUFFICES ASSUME NEW r \in Request, request'[r] = request[r] PROVE Fits(request[r])'
    BY DEF EachFits
<1>1. Fits(request[r]) /\ RealRequest(request[r])
    BY DEF EachFits, BillingInv
<1>2. row # NoRow => row' # NoRow /\ row'.sub = row.sub
    BY RowStays
<1>3. request[r].at # "idle" => /\ request[r].sub \in 1 .. Len(stripe)
                                /\ GoesOn
    BY <1>1, StripeGoesOn DEF RealRequest, Created, BillingInv
<1>4. ~Resetting(NoRequest)
    BY DEF Resetting, NoRequest
<1>5. Resetting(request[r]) => request[r].at # "idle"
    BY <1>1, <1>4 DEF Fits
<1>6. Resetting(request[r]) /\ request[r].at # "stripe" =>
        stripe'[request[r].sub].status = "canceled"
    BY <1>1, <1>3, <1>5 DEF Fits, GoesOn
<1> QED
    BY <1>1, <1>2, <1>6 DEF Fits, Resetting

LEMMA FitsMoved ==
    ASSUME BillingInv, EachFits, [Next]_vars, NEW r \in Request, NEW q,
           request' = [request EXCEPT ![r] = q], Fits(q)'
    PROVE  EachFits'
<1>1. ASSUME NEW s \in Request PROVE request'[s] = request[s] \/ Fits(request[s])'
    <2>1. request \in [Request -> RequestRecord]
        BY DEF BillingInv
    <2>2. CASE s = r
        <3>1. request'[s] = q
            BY <2>1, <2>2
        <3> QED
            BY <3>1 DEF Fits
    <2>3. CASE s # r
        BY <2>1, <2>3
    <2> QED
        BY <2>2, <2>3
<1> QED
    BY <1>1, FitsStay

LEMMA EachFitsStep == BillingInv /\ EachFits /\ [Next]_vars => EachFits'
<1> SUFFICES ASSUME BillingInv, EachFits, [Next]_vars PROVE EachFits'
    OBVIOUS
<1>a. ASSUME NEW r \in Request PROVE Fits(request[r]) /\ request[r] \in RequestRecord
    BY RequestFacts DEF EachFits
<1>b. Fits(NoRequest)'
    BY DEF Fits, NoRequest, Resetting
<1>1. ASSUME NEW r \in Request, NEW plan \in PaidPlan, CreateInStripe(r, plan) PROVE EachFits'
    <2>0. PICK q : q = [op |-> "create", at |-> "insert", sub |-> Len(stripe) + 1, plan |-> plan]
        OBVIOUS
    <2>1. Fits(q)'
        BY <2>0 DEF Fits, NoRequest, Resetting
    <2>2. request' = [request EXCEPT ![r] = q]
        BY <1>1, <2>0 DEF CreateInStripe, Continue, FirstStatement
    <2> QED
        BY <2>1, <2>2, FitsMoved
<1>2. ASSUME NEW r \in Request, InsertRow(r) PROVE EachFits'
    <2>0. PICK q : q = Moved(r, "user")
        OBVIOUS
    <2>1. CASE row = NoRow
        <3>1. /\ q.op = request[r].op /\ q.at = "user" /\ q.sub = request[r].sub
              /\ request[r].op = "create"
            BY <1>2, <1>a, <2>0 DEF Moved, RequestRecord, InsertRow, Fits
        <3>2. row'.sub = q.sub /\ request' = [request EXCEPT ![r] = q]
            BY <1>2, <2>0, <2>1, <3>1 DEF InsertRow, Continue
        <3>3. row' # NoRow
            BY <1>2, <3>1, <3>2, RequestFacts DEF RealRequest, Created, NoRow, InsertRow
        <3>4. Fits(q)'
            BY <3>1, <3>2, <3>3 DEF Fits, NoRequest, Resetting
        <3> QED
            BY <3>2, <3>4, FitsMoved
    <2>2. CASE row # NoRow
        BY <1>2, <1>b, <2>2, FitsMoved DEF InsertRow, Continue
    <2> QED
        BY <2>1, <2>2
<1>3. ASSUME NEW r \in Request, NEW op, NEW plan, ReadRow(r, op, plan),
             (op \in {"cancel", "cancelAtEnd"} /\ plan = "free") \/ op = "change"
      PROVE  EachFits'
    <2>0. PICK q : q = [op |-> op, at |-> "stripe", sub |-> row.sub, plan |-> plan]
        OBVIOUS
    <2>1. row # NoRow /\ row' = row /\ request' = [request EXCEPT ![r] = q]
        BY <1>3, <2>0 DEF ReadRow, Continue, rowVars
    <2>2. Fits(q)'
        BY <1>3, <2>0, <2>1 DEF Fits, NoRequest, Resetting
    <2> QED
        BY <2>1, <2>2, FitsMoved
<1>4. ASSUME NEW r \in Request, NEW op, NEW after, NEW type, CallStripe(r, op, after, type),
             op \in {"cancelAtEnd", "change"} \/ (op = "cancel" /\ after.status = "canceled")
      PROVE  EachFits'
    <2>0. PICK q : q = Moved(r, "row")
        OBVIOUS
    <2>1. /\ q.op = op /\ q.at = "row" /\ q.sub = request[r].sub /\ q.plan = request[r].plan
          /\ request[r].op = op /\ request[r].at = "stripe"
        BY <1>4, <1>a, <2>0 DEF CallStripe, Moved, RequestRecord
    <2>2. Created(q.sub) /\ stripe' = [stripe EXCEPT ![q.sub] = after]
        BY <1>4, <2>1, RequestFacts DEF RealRequest, CallStripe
    <2>3. stripe'[q.sub] = after
        BY <2>2 DEF Created, BillingInv
    <2>4. row' = row /\ request' = [request EXCEPT ![r] = q]
        BY <1>4, <2>0 DEF CallStripe, Continue, FirstStatement, rowVars
    <2>5. row # NoRow /\ q.sub = row.sub /\ (q.op = "cancel" => q.plan = "free")
        BY <1>4, <1>a, <2>1 DEF Fits, Resetting
    <2>6. Fits(q)'
        BY <1>4, <2>1, <2>3, <2>4, <2>5 DEF Fits, NoRequest, Resetting
    <2> QED
        BY <2>4, <2>6, FitsMoved
<1>5. ASSUME NEW r \in Request, UpdateRow(r) PROVE EachFits'
    <2>0. PICK q : q = Moved(r, "user")
        OBVIOUS
    <2>1. CASE request' = [request EXCEPT ![r] = NoRequest]
        BY <1>b, <2>1, FitsMoved
    <2>2. CASE /\ request' = [request EXCEPT ![r] = q]
               /\ Finds(request[r].sub) /\ request[r].op # "cancelAtEnd"
        <3>1. /\ q.op = request[r].op /\ q.at = "user" /\ q.sub = request[r].sub
              /\ q.plan = request[r].plan /\ request[r].at = "row" /\ stripe' = stripe
            BY <1>5, <1>a, <2>0 DEF Moved, RequestRecord, UpdateRow
        <3>2. row # NoRow /\ q.sub = row.sub
            BY <2>2, <3>1, RequestFacts DEF Finds, RealRequest, Created, NoRow
        <3>3. row' # NoRow /\ q.sub = row'.sub
            BY <3>2, RowStays
        <3>4. Resetting(q) => q.plan = "free" /\ stripe'[q.sub].status = "canceled"
            BY <1>a, <3>1 DEF Fits, Resetting
        <3>5. q.op # "none"
            BY <1>a, <3>1 DEF Fits
        <3>6. Fits(q)'
            BY <2>2, <3>1, <3>3, <3>4, <3>5 DEF Fits, NoRequest, Resetting
        <3> QED
            BY <2>2, <3>6, FitsMoved
    <2> QED
        BY <1>5, <2>0, <2>1, <2>2 DEF UpdateRow, Continue, RowOnly
<1>6. ASSUME NEW r \in Request, UpdateUser(r) PROVE EachFits'
    <2>0. PICK q : q = Moved(r, "license")
        OBVIOUS
    <2>1. /\ q.op = request[r].op /\ q.at = "license" /\ q.sub = request[r].sub
          /\ q.plan = request[r].plan /\ request[r].at = "user"
          /\ UNCHANGED <<stripe, row>> /\ request' = [request EXCEPT ![r] = q]
        BY <1>6, <1>a, <2>0 DEF Moved, RequestRecord, UpdateUser, Continue
    <2>2. Fits(q)'
        BY <1>a, <2>1 DEF Fits, NoRequest, Resetting
    <2> QED
        BY <2>1, <2>2, FitsMoved
<1>7. ASSUME NEW r \in Request, request' = [request EXCEPT ![r] = NoRequest] PROVE EachFits'
    BY <1>7, <1>b, FitsMoved
<1>8. ASSUME NEW r \in Request, NEW event \in events, ReceiveDeleted(r, event) PROVE EachFits'
    <2>0. PICK q : q = [op |-> "deleted", at |-> "row", sub |-> event.sub, plan |-> "free"]
        OBVIOUS
    <2>1. stripe' = stripe /\ request' = [request EXCEPT ![r] = q]
        BY <1>8, <2>0 DEF ReceiveDeleted, Continue
    <2>2. stripe[event.sub].status = "canceled"
        BY <1>8 DEF BillingInv, RealEvent, ReceiveDeleted
    <2>3. Fits(q)'
        BY <2>0, <2>1, <2>2 DEF Fits, NoRequest, Resetting
    <2> QED
        BY <2>1, <2>3, FitsMoved
<1>9. CASE UNCHANGED request
    BY <1>9, FitsStay
<1>10. ASSUME NEW r \in Request, CancelInStripe(r) \/ CancelAtEndInStripe(r) \/ ChangeInStripe(r)
       PROVE  EachFits'
    <2>1. [Asked(r) EXCEPT !.status = "canceled"].status = "canceled"
        <3>1. request[r].at = "stripe"
            BY <1>10 DEF CancelInStripe, CancelAtEndInStripe, ChangeInStripe, CallStripe
        <3>2. Asked(r) \in StripeRecord
            BY <3>1, RequestFacts DEF RealRequest, Asked, Created, BillingInv
        <3> QED
            BY <3>2 DEF StripeRecord
    <2> QED
        BY <1>4, <1>10, <2>1 DEF CancelInStripe, CancelAtEndInStripe, ChangeInStripe
<1> QED
    BY <1>1, <1>2, <1>3, <1>5, <1>6, <1>7, <1>8, <1>9, <1>10
       DEF Next, StripeRefuses, UpdateLicense, RequestFails, ReceiveEvent, Renews, Ends,
           Continue, vars

\* An upgrade is undisturbed only while nothing else writes.
LEMMA UpgradeIsAlone ==
    ASSUME ~Overlap(request), NEW r \in Request, Upgrading(request[r])
    PROVE  \A s \in Request \ {r} : ~Writing(request[s]) /\ ~Upgrading(request[s])
    BY DEF Overlap, Upgrading

LEMMA WriterIsAlone ==
    ASSUME ~Overlap(request), NEW r \in Request, Writing(request[r])
    PROVE  \A s \in Request \ {r} : ~Upgrading(request[s])
    BY DEF Overlap

\* a request begins, ends or goes on without an upgrade, but for a creation that never
\* gets its row
Aside(r) ==
    \/ request'[r] = request[r]
    \/ /\ Upgrading(request[r]) => request[r].at = "insert"
       /\ ~Upgrading(request[r])'
       /\ request'[r].op = "deleted" => request'[r].at # "license"

\* Stripe keeps the plan of each subscription, and reports the end of one that it ends.
Reported ==
    \A sub : Created(sub) =>
        /\ stripe'[sub].plan = stripe[sub].plan
        /\ stripe'[sub].status = stripe[sub].status \/ EndReported(sub)'

RowKept ==
    \/ row = NoRow /\ row' = NoRow
    \/ row # NoRow /\ row' # NoRow /\ row'.sub = row.sub /\ row'.plan = row.plan

LEMMA AsideStep ==
    ASSUME BillingInv, Undisturbed, ~Overlap(request)', Reported, RowKept,
           UNCHANGED <<userPlan, license>>, \A r \in Request : Aside(r),
           \A sub : EndReported(sub) =>
                EndReported(sub)' \/ (sub # row.sub /\ ~\E r \in Request : Upgrading(request[r]))
    PROVE  Undisturbed'
<1>1. UpgradesInForce'
    <2> SUFFICES ASSUME NEW r \in Request, Upgrading(request[r])'
                 PROVE  /\ request'[r].plan = stripe'[request'[r].sub].plan
                        /\ stripe'[request'[r].sub].status = "canceled"
                                => EndReported(request[r].sub)'
        BY DEF UpgradesInForce
    <2>1. request'[r] = request[r] /\ Upgrading(request[r])
        BY DEF Aside, Upgrading, Writing
    <2>2. Created(request[r].sub)
        BY <2>1, RequestFacts DEF RealRequest, Upgrading, Writing
    <2>3. /\ request[r].plan = stripe[request[r].sub].plan
          /\ stripe[request[r].sub].status = "canceled" => EndReported(request[r].sub)
        BY <2>1 DEF Undisturbed, UpgradesInForce
    <2>4. EndReported(request[r].sub) => EndReported(request[r].sub)'
        <3>1. PICK sub : sub = request[r].sub
            OBVIOUS
        <3>2. EndReported(sub) => EndReported(sub)'
            BY <2>1
        <3> QED
            BY <2>1, <3>1, <3>2 DEF EndReported
    <2>5. /\ stripe'[request[r].sub].plan = stripe[request[r].sub].plan
          /\ \/ stripe'[request[r].sub].status = stripe[request[r].sub].status
             \/ Plain("deleted", request[r].sub) \in events'
        BY <2>2 DEF Reported, EndReported
    <2> QED
        BY <2>1, <2>3, <2>4, <2>5 DEF EndReported
<1>2. ASSUME NEW at \in SUBSET {"row", "user", "license"}, Upgrades(at) PROVE Upgrades(at)'
    <2>1. PICK r \in Request : Upgrading(request[r]) /\ request[r].at \in at
        BY <1>2 DEF Upgrades
    <2>2. request'[r] = request[r]
        BY <2>1 DEF Aside
    <2>3. Upgrading(request[r])' /\ request'[r].at \in at
        BY <2>1, <2>2 DEF Upgrading, Writing
    <2> QED
        BY <2>3 DEF Upgrades
<1>3. /\ PlanInForce' = PlanInForce \/ EndReported(row.sub)'
      /\ EndReported(row.sub) => EndReported(row.sub)'
      /\ RowAgrees => RowAgrees'
    <2>1. PICK sub : sub = row.sub
        OBVIOUS
    <2>2. row'.sub = sub /\ (EndReported(sub) => EndReported(sub)')
        BY <2>1 DEF RowKept
    <2>3. EndReported(row.sub) => EndReported(row.sub)'
        BY <2>1, <2>2 DEF EndReported
    <2>4. CASE row = NoRow
        BY <2>3, <2>4 DEF RowKept, PlanInForce, RowAgrees
    <2>5. CASE row # NoRow
        <3>1. Created(sub)
            BY <2>1, <2>5 DEF BillingInv, RealRow
        <3>2. /\ stripe'[sub].plan = stripe[sub].plan
              /\ stripe'[sub].status = stripe[sub].status \/ Plain("deleted", sub) \in events'
            BY <3>1 DEF Reported, EndReported
        <3> QED
            BY <2>1, <2>2, <2>3, <2>5, <3>2 DEF RowKept, PlanInForce, RowAgrees, EndReported
    <2> QED
        BY <2>4, <2>5
<1>4. RowAgrees' \/ Upgrades({"row"})'
    BY <1>2, <1>3 DEF Undisturbed
<1>5. UserAgrees' \/ Upgrades({"row", "user"})'
    BY <1>2, <1>3 DEF Undisturbed, UserAgrees
<1>6. LicenseAgrees' \/ Upgrades({"row", "user", "license"})'
    BY <1>2, <1>3 DEF Undisturbed, LicenseAgrees
<1>7. UserIsReset'
    BY DEF Undisturbed, UserIsReset, Aside
<1> QED
    BY <1>1, <1>4, <1>5, <1>6, <1>7 DEF Undisturbed

\* An upgrade takes a step.
LEMMA UpgradeStep ==
    ASSUME BillingInv, ~Overlap(request)', NEW r \in Request, NEW q,
           request' = [request EXCEPT ![r] = q], Upgrading(q),
           q.plan = stripe'[q.sub].plan,
           stripe'[q.sub].status = "canceled" => EndReported(q.sub)',
           RowAgrees' \/ q.at = "row",
           UserAgrees' \/ q.at \in {"row", "user"},
           LicenseAgrees' \/ q.at \in {"row", "user", "license"}
    PROVE  Undisturbed'
<1>1. request'[r] = q
    BY DEF BillingInv
<1>2. Upgrading(request[r])'
    BY <1>1 DEF Upgrading, Writing
<1>3. \A s \in Request : s # r => ~Writing(request'[s]) /\ ~Upgrading(request'[s])
    BY <1>2 DEF Overlap, Upgrading
<1>4. UpgradesInForce'
    <2> SUFFICES ASSUME NEW s \in Request, Upgrading(request[s])'
                 PROVE  /\ request'[s].plan = stripe'[request'[s].sub].plan
                        /\ stripe'[request'[s].sub].status = "canceled"
                                => EndReported(request[s].sub)'
        BY DEF UpgradesInForce
    <2>1. s = r
        BY <1>3 DEF Upgrading, Writing
    <2> QED
        BY <1>1, <2>1 DEF EndReported
<1>5. ASSUME NEW at, q.at \in at PROVE Upgrades(at)'
    BY <1>1, <1>2, <1>5 DEF Upgrades
<1>6. UserIsReset'
    <2> SUFFICES ASSUME NEW s \in Request, request'[s].op = "deleted",
                        request'[s].at = "license"
                 PROVE  FALSE
        BY DEF UserIsReset
    <2>1. Writing(request'[s])
        BY DEF Writing
    <2>2. s = r
        BY <1>3, <2>1
    <2> QED
        BY <1>1, <2>2 DEF Upgrading
<1> QED
    BY <1>4, <1>5, <1>6 DEF Undisturbed

\* A step after which no upgrade is under way.
LEMMA NoUpgradeStep ==
    ASSUME \A s \in Request : ~Upgrading(request[s])',
           RowAgrees', UserAgrees', LicenseAgrees', UserIsReset'
    PROVE  Undisturbed'
    BY DEF Undisturbed, UpgradesInForce, Overlap

LEMMA OneAside ==
    ASSUME BillingInv, NEW r \in Request, NEW q, request' = [request EXCEPT ![r] = q],
           Upgrading(request[r]) => request[r].at = "insert",
           ~Upgrading(q), q.op = "deleted" => q.at # "license"
    PROVE  \A s \in Request : Aside(s)
<1> SUFFICES ASSUME NEW s \in Request PROVE Aside(s)
    OBVIOUS
<1>1. CASE s = r
    <2>1. request'[s] = q
        BY <1>1 DEF BillingInv
    <2> QED
        BY <1>1, <2>1 DEF Aside, Upgrading, Writing
<1>2. CASE s # r
    BY <1>2 DEF BillingInv, Aside
<1> QED
    BY <1>1, <1>2

LEMMA NoRequestIsIdle == ~Upgrading(NoRequest) /\ ~Writing(NoRequest) /\ NoRequest.op = "none"
    BY DEF NoRequest, Upgrading, Writing

\* Stripe ends a subscription, or notes that it will.
LEMMA ReportStep ==
    ASSUME BillingInv, NEW sub, Created(sub), NEW after \in StripeRecord,
           stripe' = [stripe EXCEPT ![sub] = after], after.plan = stripe[sub].plan,
           after.status = stripe[sub].status \/ Plain("deleted", sub) \in events'
    PROVE  Reported
<1> SUFFICES ASSUME NEW s, Created(s)
             PROVE  /\ stripe'[s].plan = stripe[s].plan
                    /\ stripe'[s].status = stripe[s].status \/ Plain("deleted", s) \in events'
    BY DEF Reported, EndReported
<1>1. s \in DOMAIN stripe /\ sub \in DOMAIN stripe
    BY DEF BillingInv, Created
<1>2. CASE s = sub
    BY <1>1, <1>2
<1>3. CASE s # sub
    BY <1>1, <1>3
<1> QED
    BY <1>2, <1>3

\* The steps beside the upgrades.
LEMMA AsideSteps ==
    ASSUME BillingInv, EachFits, Undisturbed, ~Overlap(request)',
           \/ \E r \in Request : InsertRow(r) /\ row # NoRow
           \/ \E r \in Request, op \in {"cancel", "cancelAtEnd", "change"}, plan \in Plan :
                    ReadRow(r, op, plan)
           \/ \E r \in Request : CancelInStripe(r) \/ CancelAtEndInStripe(r)
           \/ \E r \in Request : StripeRefuses(r)
           \/ \E r \in Request : UpdateRow(r) /\ request[r].op # "change"
           \/ \E event \in events : ReceiveEvent(event)
           \/ \E r \in Request, event \in events : ReceiveDeleted(r, event)
           \/ \E sub \in DOMAIN stripe : Renews(sub)
           \/ \E sub \in DOMAIN stripe : Ends(sub)
    PROVE  Undisturbed'
<1>a. UNCHANGED stripe => Reported
    BY DEF Reported
<1>b. UNCHANGED row => RowKept
    BY DEF RowKept
<1>c. events \subseteq events' => \A sub : EndReported(sub) => EndReported(sub)'
    BY DEF EndReported
<1>d. UNCHANGED request => \A r \in Request : Aside(r)
    BY DEF Aside
<1>e. ASSUME NEW r \in Request
      PROVE  Fits(request[r]) /\ RealRequest(request[r]) /\ request[r] \in RequestRecord
    BY RequestFacts DEF EachFits
<1>1. ASSUME NEW r \in Request, InsertRow(r) /\ row # NoRow PROVE Undisturbed'
    <2>1. /\ request' = [request EXCEPT ![r] = NoRequest] /\ request[r].at = "insert"
          /\ UNCHANGED <<stripe, events, row, userPlan, license>>
        BY <1>1 DEF InsertRow, Continue
    <2>2. \A s \in Request : Aside(s)
        BY <2>1, NoRequestIsIdle, OneAside
    <2> QED
        BY <1>a, <1>b, <1>c, <2>1, <2>2, AsideStep
<1>2. ASSUME NEW r \in Request, NEW op \in {"cancel", "cancelAtEnd", "change"},
             NEW plan \in Plan, ReadRow(r, op, plan)
      PROVE  Undisturbed'
    <2>0. PICK q : q = [op |-> op, at |-> "stripe", sub |-> row.sub, plan |-> plan]
        OBVIOUS
    <2>1. /\ request' = [request EXCEPT ![r] = q] /\ request[r] = NoRequest
          /\ UNCHANGED <<stripe, events, row, userPlan, license>>
        BY <1>2, <2>0 DEF ReadRow, Continue, rowVars
    <2>2. ~Upgrading(q) /\ q.op # "deleted"
        BY <2>0 DEF Upgrading, Writing
    <2>3. \A s \in Request : Aside(s)
        BY <2>1, <2>2, NoRequestIsIdle, OneAside
    <2> QED
        BY <1>a, <1>b, <1>c, <2>1, <2>3, AsideStep
<1>3. ASSUME NEW r \in Request, CancelInStripe(r) \/ CancelAtEndInStripe(r) PROVE Undisturbed'
    <2>0. PICK q, sub : q = Moved(r, "row") /\ sub = request[r].sub
        OBVIOUS
    <2>1. /\ request' = [request EXCEPT ![r] = q] /\ request[r].at = "stripe"
          /\ request[r].op \in {"cancel", "cancelAtEnd"}
          /\ UNCHANGED <<row, userPlan, license>> /\ events \subseteq events'
        BY <1>3, <2>0 DEF CancelInStripe, CancelAtEndInStripe, CallStripe, FirstStatement,
                          Continue, Emit, rowVars
    <2>2. ~Upgrading(q) /\ q.op # "deleted" /\ ~Upgrading(request[r])
        BY <1>e, <2>0, <2>1 DEF Upgrading, Writing, Moved, RequestRecord
    <2>3. \A s \in Request : Aside(s)
        BY <2>1, <2>2, OneAside
    <2>4. Created(sub) /\ stripe[sub] \in StripeRecord
        BY <1>e, <2>0, <2>1 DEF RealRequest, Created, BillingInv
    <2>5. CASE CancelInStripe(r)
        <3>0. PICK after : after = [stripe[sub] EXCEPT !.status = "canceled"]
            OBVIOUS
        <3>1. stripe' = [stripe EXCEPT ![sub] = after] /\ Plain("deleted", sub) \in events'
            BY <2>0, <2>5, <3>0 DEF CancelInStripe, CallStripe, Emit, Asked
        <3>2. after \in StripeRecord /\ after.plan = stripe[sub].plan
            BY <2>4, <3>0 DEF StripeRecord
        <3> QED
            BY <2>4, <3>1, <3>2, <1>b, <1>c, <2>1, <2>3, ReportStep, AsideStep
    <2>6. CASE CancelAtEndInStripe(r)
        <3>0. PICK after : after = [stripe[sub] EXCEPT !.atEnd = TRUE]
            OBVIOUS
        <3>1. stripe' = [stripe EXCEPT ![sub] = after]
            BY <2>0, <2>6, <3>0 DEF CancelAtEndInStripe, CallStripe, Asked
        <3>2. /\ after \in StripeRecord /\ after.plan = stripe[sub].plan
              /\ after.status = stripe[sub].status
            BY <2>4, <3>0 DEF StripeRecord
        <3> QED
            BY <2>4, <3>1, <3>2, <1>b, <1>c, <2>1, <2>3, ReportStep, AsideStep
    <2> QED
        BY <1>3, <2>5, <2>6
<1>4. ASSUME NEW r \in Request, StripeRefuses(r) PROVE Undisturbed'
    <2>1. /\ request' = [request EXCEPT ![r] = NoRequest] /\ request[r].at = "stripe"
          /\ UNCHANGED <<stripe, events, row, userPlan, license>>
        BY <1>4 DEF StripeRefuses, Continue, rowVars
    <2>2. \A s \in Request : Aside(s)
        BY <2>1, NoRequestIsIdle, OneAside DEF Upgrading, Writing
    <2> QED
        BY <1>a, <1>b, <1>c, <2>1, <2>2, AsideStep
<1>5. ASSUME NEW r \in Request, UpdateRow(r) /\ request[r].op # "change" PROVE Undisturbed'
    <2>0. PICK q, found : q = request[r] /\ found = Finds(request[r].sub)
        OBVIOUS
    <2>1. /\ q.at = "row" /\ UNCHANGED <<stripe, userPlan, license>>
          /\ row' = IF found THEN RowAfter(q) ELSE row
          /\ \/ /\ request' = [request EXCEPT ![r] = NoRequest]
                /\ AnswerOf(r) /\ (~found \/ q.op = "cancelAtEnd")
             \/ request' = [request EXCEPT ![r] = Moved(r, "user")] /\ UNCHANGED events
        BY <1>5, <2>0 DEF UpdateRow, Continue, RowOnly
    <2>2. q.op \in {"cancel", "cancelAtEnd", "deleted"} /\ ~Upgrading(q) /\ Created(q.sub)
        BY <1>5, <1>e, <2>0, <2>1 DEF RealRequest, Upgrading
    <2>3. \A s \in Request : Aside(s)
        <3>1. /\ ~Upgrading(Moved(r, "user")) /\ Moved(r, "user").at = "user"
            BY <1>e, <2>0, <2>2 DEF Moved, RequestRecord, Upgrading
        <3> QED
            BY <2>0, <2>1, <2>2, <3>1, NoRequestIsIdle, OneAside
    <2>4. RowKept
        <3>1. row \in RowRecord
            BY DEF BillingInv, RealRow
        <3>2. CASE found
            <4>1. row.sub = q.sub
                BY <2>0, <3>2 DEF Finds
            <4>2. row # NoRow
                BY <2>2, <4>1, NoRecords DEF Created
            <4>3. row'.sub = row.sub /\ row'.plan = row.plan
                BY <2>1, <2>2, <3>1, <3>2 DEF RowAfter, RowRecord
            <4>4. row' # NoRow
                BY <2>2, <4>1, <4>3, NoRecords DEF Created
            <4> QED
                BY <4>2, <4>3, <4>4 DEF RowKept
        <3> QED
            BY <1>b, <2>1, <3>2
    <2>5. ASSUME NEW sub, EndReported(sub)
          PROVE  EndReported(sub)' \/ (sub # row.sub /\ ~\E s \in Request : Upgrading(request[s]))
        <3>1. CASE UNCHANGED events
            BY <2>5, <3>1 DEF EndReported
        <3>2. CASE q.op # "deleted" /\ AnswerOf(r)
            BY <2>0, <2>5, <3>2 DEF AnswerOf, EndReported
        <3>3. CASE q.op = "deleted" /\ AnswerOf(r) /\ ~found
            <4>1. \A s \in Request : ~Upgrading(request[s])
                <5>1. Writing(request[r])
                    BY <2>0, <2>1, <3>3 DEF Writing
                <5> QED
                    BY <2>0, <2>2, <5>1, WriterIsAlone DEF Undisturbed
            <4>2. sub # row.sub \/ EndReported(sub)'
                <5>1. events \ {Plain("deleted", q.sub)} \subseteq events'
                    BY <2>0, <3>3 DEF AnswerOf, Answer
                <5>2. q.sub # row.sub
                    BY <2>0, <3>3 DEF Finds
                <5>3. Plain("deleted", sub) = Plain("deleted", q.sub) => sub = q.sub
                    BY DEF Plain
                <5> QED
                    BY <2>5, <5>1, <5>2, <5>3 DEF EndReported
            <4> QED
                BY <4>1, <4>2
        <3> QED
            BY <2>1, <2>2, <3>1, <3>2, <3>3
    <2> QED
        BY <1>a, <2>1, <2>3, <2>4, <2>5, AsideStep
<1>6. ASSUME NEW event \in events, ReceiveEvent(event) PROVE Undisturbed'
    <2>1. /\ event.type # "deleted" /\ UNCHANGED <<stripe, userPlan, license, request>>
          /\ events \ {event} \subseteq events'
        BY <1>6 DEF ReceiveEvent, Answer
    <2>2. \A sub : EndReported(sub) => EndReported(sub)'
        <3>1. \A sub : Plain("deleted", sub).type = "deleted"
            BY DEF Plain
        <3> QED
            BY <2>1, <3>1 DEF EndReported
    <2>3. RowKept
        <3>1. row \in RowRecord /\ Created(event.sub)
            BY DEF BillingInv, RealRow, RealEvent
        <3>2. CASE Finds(event.sub)
            <4>1. row'.sub = row.sub /\ row'.plan = row.plan /\ row.sub = event.sub
                BY <1>6, <3>1, <3>2 DEF ReceiveEvent, RowRecord, Finds
            <4> QED
                BY <3>1, <4>1 DEF RowKept, Created, NoRow
        <3>3. CASE ~Finds(event.sub)
            BY <1>6, <1>b, <3>3 DEF ReceiveEvent
        <3> QED
            BY <3>2, <3>3
    <2> QED
        BY <1>a, <1>d, <2>1, <2>2, <2>3, AsideStep
<1>7. ASSUME NEW r \in Request, NEW event \in events, ReceiveDeleted(r, event)
      PROVE  Undisturbed'
    <2>0. PICK q : q = [op |-> "deleted", at |-> "row", sub |-> event.sub, plan |-> "free"]
        OBVIOUS
    <2>1. /\ request' = [request EXCEPT ![r] = q] /\ request[r] = NoRequest
          /\ UNCHANGED <<stripe, events, row, userPlan, license>>
        BY <1>7, <2>0 DEF ReceiveDeleted, Continue, rowVars
    <2>2. ~Upgrading(q) /\ q.at # "license"
        BY <2>0 DEF Upgrading
    <2>3. \A s \in Request : Aside(s)
        BY <2>1, <2>2, NoRequestIsIdle, OneAside
    <2> QED
        BY <1>a, <1>b, <1>c, <2>1, <2>3, AsideStep
<1>8. ASSUME NEW sub \in DOMAIN stripe, Renews(sub) PROVE Undisturbed'
    <2>1. /\ UNCHANGED <<stripe, row, userPlan, license, request>>
          /\ events \subseteq events'
        BY <1>8 DEF Renews, Emit, rowVars
    <2> QED
        BY <1>a, <1>b, <1>c, <1>d, <2>1, AsideStep
<1>9. ASSUME NEW sub \in DOMAIN stripe, Ends(sub) PROVE Undisturbed'
    <2>0. PICK after : after = [stripe[sub] EXCEPT !.status = "canceled"]
        OBVIOUS
    <2>1. /\ stripe' = [stripe EXCEPT ![sub] = after] /\ Plain("deleted", sub) \in events'
          /\ UNCHANGED <<row, userPlan, license, request>> /\ events \subseteq events'
        BY <1>9, <2>0 DEF Ends, Emit, rowVars
    <2>2. Created(sub) /\ stripe[sub] \in StripeRecord
        BY DEF BillingInv, Created
    <2>3. after \in StripeRecord /\ after.plan = stripe[sub].plan
        BY <2>0, <2>2 DEF StripeRecord
    <2> QED
        BY <1>b, <1>c, <1>d, <2>1, <2>2, <2>3, ReportStep, AsideStep
<1> QED
    BY <1>1, <1>2, <1>3, <1>4, <1>5, <1>6, <1>7, <1>8, <1>9

\* While request r writes, what is still to be written is r's.
LEMMA WriterFacts ==
    ASSUME BillingInv, EachFits, Undisturbed, NEW r \in Request, Writing(request[r])
    PROVE  /\ \A s \in Request : s # r => ~Upgrading(request[s])
           /\ RowAgrees \/ (Upgrading(request[r]) /\ request[r].at = "row")
           /\ UserAgrees \/ (Upgrading(request[r]) /\ request[r].at \in {"row", "user"})
           /\ \/ LicenseAgrees
              \/ Upgrading(request[r]) /\ request[r].at \in {"row", "user", "license"}
           /\ Upgrading(request[r]) =>
                /\ request[r].plan = stripe[request[r].sub].plan
                /\ stripe[request[r].sub].status = "canceled" => EndReported(request[r].sub)
<1>1. \A s \in Request : s # r => ~Upgrading(request[s])
    BY WriterIsAlone DEF Undisturbed
<1>2. ASSUME NEW at, Upgrades(at) PROVE Upgrading(request[r]) /\ request[r].at \in at
    BY <1>1, <1>2 DEF Upgrades
<1> QED
    BY <1>1, <1>2 DEF Undisturbed, UpgradesInForce

LEMMA CreateKeeps ==
    ASSUME BillingInv, EachFits, Undisturbed, ~Overlap(request)',
           NEW r \in Request, NEW plan \in PaidPlan, CreateInStripe(r, plan)
    PROVE  Undisturbed'
<1>0. PICK sub, q, new :
        /\ sub = Len(stripe) + 1
        /\ new = [status |-> "running", plan |-> plan, atEnd |-> FALSE]
        /\ q = [op |-> "create", at |-> "insert", sub |-> sub, plan |-> plan]
    OBVIOUS
<1>1. /\ stripe' = Append(stripe, new) /\ events \subseteq events'
      /\ request' = [request EXCEPT ![r] = q] /\ request[r] = NoRequest
      /\ UNCHANGED <<row, userPlan, license>>
    BY <1>0 DEF CreateInStripe, Emit, Continue, FirstStatement, rowVars
<1>2. new \in StripeRecord /\ stripe \in Seq(StripeRecord) /\ Len(stripe) \in Nat
    BY <1>0 DEF StripeRecord, PaidPlan, BillingInv
<1>3. stripe'[sub] = new /\ \A s \in 1 .. Len(stripe) : stripe'[s] = stripe[s]
    BY <1>0, <1>1, <1>2
<1>4. Upgrading(q) /\ q.plan = stripe'[q.sub].plan /\ stripe'[q.sub].status # "canceled"
    BY <1>0, <1>3 DEF Upgrading, Writing
<1>5. \A s \in Request : ~Upgrading(request[s])
    <2> SUFFICES ASSUME NEW s \in Request, s # r PROVE ~Upgrading(request[s])
        BY <1>1, NoRequestIsIdle
    <2>1. request'[s] = request[s] /\ request'[r] = q
        BY <1>1 DEF BillingInv
    <2>2. Upgrading(request'[r])
        BY <1>4, <2>1
    <2> QED
        BY <2>1, <2>2 DEF Overlap, Upgrading
<1>6. RowAgrees /\ UserAgrees /\ LicenseAgrees
    BY <1>5 DEF Undisturbed, Upgrades
<1>7. row # NoRow => stripe'[row.sub] = stripe[row.sub]
    BY <1>3 DEF BillingInv, RealRow, Created
<1>8. RowAgrees' /\ UserAgrees' /\ LicenseAgrees'
    <2>1. PlanInForce' = PlanInForce /\ (EndReported(row.sub) => EndReported(row.sub)')
        BY <1>1, <1>7 DEF PlanInForce, EndReported
    <2> QED
        BY <1>1, <1>6, <1>7, <2>1 DEF RowAgrees, UserAgrees, LicenseAgrees
<1> QED
    BY <1>1, <1>4, <1>8, UpgradeStep

LEMMA InsertKeeps ==
    ASSUME BillingInv, EachFits, Undisturbed, ~Overlap(request)',
           NEW r \in Request, InsertRow(r), row = NoRow
    PROVE  Undisturbed'
<1>0. PICK q : q = Moved(r, "user")
    OBVIOUS
<1>1. /\ request' = [request EXCEPT ![r] = q] /\ request[r].at = "insert"
      /\ row' = [sub |-> request[r].sub, plan |-> request[r].plan,
                 status |-> "running", atEnd |-> FALSE]
      /\ UNCHANGED <<stripe, events, userPlan, license>>
    BY <1>0 DEF InsertRow, Continue
<1>2. /\ request[r].op = "create" /\ request[r] \in RequestRecord
    BY <1>1, RequestFacts DEF EachFits, Fits
<1>3. Upgrading(request[r]) /\ Writing(request[r])
    BY <1>1, <1>2 DEF Upgrading, Writing
<1>4. /\ request[r].plan = stripe[request[r].sub].plan
      /\ stripe[request[r].sub].status = "canceled" => EndReported(request[r].sub)
    BY <1>3, WriterFacts
<1>5. /\ q.op = "create" /\ q.at = "user" /\ q.sub = request[r].sub
      /\ q.plan = request[r].plan
    BY <1>0, <1>2 DEF Moved, RequestRecord
<1>6. Upgrading(q)
    BY <1>5 DEF Upgrading, Writing
<1>7. RowAgrees'
    BY <1>1, <1>4 DEF RowAgrees
<1>8. stripe'[q.sub].status = "canceled" => EndReported(q.sub)'
    BY <1>1, <1>4, <1>5 DEF EndReported
<1> QED
    BY <1>1, <1>4, <1>5, <1>6, <1>7, <1>8, UpgradeStep

LEMMA ChangeKeeps ==
    ASSUME BillingInv, EachFits, Undisturbed, ~Overlap(request)',
           NEW r \in Request, ChangeInStripe(r)
    PROVE  Undisturbed'
<1>0. PICK q, sub, after : /\ q = Moved(r, "row") /\ sub = request[r].sub
                           /\ after = [stripe[sub] EXCEPT !.plan = request[r].plan]
    OBVIOUS
<1>1. /\ request' = [request EXCEPT ![r] = q]
      /\ request[r].op = "change" /\ request[r].at = "stripe"
      /\ stripe' = [stripe EXCEPT ![sub] = after] /\ stripe[sub].status # "canceled"
    BY <1>0 DEF ChangeInStripe, CallStripe, Asked, Continue, FirstStatement
<1>2. Created(sub) /\ request[r] \in RequestRecord
    BY <1>0, <1>1, RequestFacts DEF RealRequest
<1>3. /\ q.op = "change" /\ q.at = "row" /\ q.sub = sub /\ q.plan = request[r].plan
    BY <1>0, <1>1, <1>2 DEF Moved, RequestRecord
<1>4. Upgrading(q)
    BY <1>3 DEF Upgrading, Writing
<1>5. stripe'[sub] = after /\ stripe[sub] \in StripeRecord
    BY <1>1, <1>2 DEF BillingInv, Created
<1>6. stripe'[q.sub].plan = q.plan /\ stripe'[q.sub].status # "canceled"
    BY <1>0, <1>1, <1>3, <1>5 DEF StripeRecord
<1> QED
    BY <1>1, <1>3, <1>4, <1>6, UpgradeStep

LEMMA RowKeeps ==
    ASSUME BillingInv, EachFits, Undisturbed, ~Overlap(request)',
           NEW r \in Request, UpdateRow(r), request[r].op = "change"
    PROVE  Undisturbed'
<1>0. PICK q : q = Moved(r, "user")
    OBVIOUS
<1>1. request[r].at = "row" /\ request[r] \in RequestRecord /\ Fits(request[r])
    BY RequestFacts DEF UpdateRow, EachFits
<1>2. row # NoRow /\ request[r].sub = row.sub /\ Finds(request[r].sub)
    BY <1>1 DEF Fits, Finds
<1>3. /\ request' = [request EXCEPT ![r] = q] /\ row' = [row EXCEPT !.plan = request[r].plan]
      /\ UNCHANGED <<stripe, events, userPlan, license>>
    BY <1>0, <1>2 DEF UpdateRow, RowOnly, Continue, RowAfter
<1>4. Upgrading(request[r]) /\ Writing(request[r])
    BY <1>1 DEF Upgrading, Writing
<1>5. /\ request[r].plan = stripe[request[r].sub].plan
      /\ stripe[request[r].sub].status = "canceled" => EndReported(request[r].sub)
    BY <1>4, WriterFacts
<1>6. /\ q.op = "change" /\ q.at = "user" /\ q.sub = request[r].sub
      /\ q.plan = request[r].plan
    BY <1>0, <1>1 DEF Moved, RequestRecord
<1>7. Upgrading(q)
    BY <1>6 DEF Upgrading, Writing
<1>8. RowAgrees'
    <2>1. row \in RowRecord
        BY DEF BillingInv, RealRow
    <2>2. row'.plan = request[r].plan /\ row'.sub = row.sub
        BY <1>3, <2>1 DEF RowRecord
    <2> QED
        BY <1>2, <1>3, <1>5, <2>2 DEF RowAgrees
<1>9. stripe'[q.sub].status = "canceled" => EndReported(q.sub)'
    BY <1>3, <1>5, <1>6 DEF EndReported
<1> QED
    BY <1>3, <1>5, <1>6, <1>7, <1>8, <1>9, UpgradeStep

\* What the requests are that write the user and the license.
LEMMA LastStatements ==
    ASSUME BillingInv, EachFits, Undisturbed, NEW r \in Request,
           request[r].at \in {"user", "license"}
    PROVE  /\ row # NoRow /\ request[r].sub = row.sub
           /\ request[r] \in RequestRecord /\ Writing(request[r])
           /\ \/ Upgrading(request[r]) /\ request[r].op \in {"create", "change"}
              \/ /\ ~Upgrading(request[r]) /\ request[r].op \in {"cancel", "deleted"}
                 /\ request[r].plan = "free" /\ PlanInForce = "free"
<1>1. Fits(request[r]) /\ request[r] \in RequestRecord
    BY RequestFacts DEF EachFits
<1>2. request[r].op \in {"create", "change", "cancel", "deleted"}
    BY <1>1 DEF Fits, RequestRecord
<1> QED
    BY <1>1, <1>2 DEF Fits, Resetting, Upgrading, Writing, PlanInForce

LEMMA UserKeeps ==
    ASSUME BillingInv, EachFits, Undisturbed, ~Overlap(request)',
           NEW r \in Request, UpdateUser(r)
    PROVE  Undisturbed'
<1>0. PICK q : q = Moved(r, "license")
    OBVIOUS
<1>1. /\ request[r].at = "user" /\ userPlan' = request[r].plan
      /\ request' = [request EXCEPT ![r] = q] /\ UNCHANGED <<stripe, events, row, license>>
    BY <1>0 DEF UpdateUser, Continue
<1>2. /\ row # NoRow /\ request[r].sub = row.sub
      /\ request[r] \in RequestRecord /\ Writing(request[r])
    BY <1>1, LastStatements
<1>3. /\ q.op = request[r].op /\ q.at = "license" /\ q.sub = request[r].sub
      /\ q.plan = request[r].plan
    BY <1>0, <1>2 DEF Moved, RequestRecord
<1>4. RowAgrees
    BY <1>1, <1>2, WriterFacts
<1>5. RowAgrees' /\ PlanInForce' = PlanInForce /\ (EndReported(row.sub)' <=> EndReported(row.sub))
    BY <1>1, <1>4 DEF RowAgrees, PlanInForce, EndReported
<1>6. CASE Upgrading(request[r])
    <2>1. /\ request[r].plan = stripe[row.sub].plan
          /\ stripe[row.sub].status = "canceled" => EndReported(row.sub)
        BY <1>2, <1>6, WriterFacts
    <2>2. UserAgrees'
        BY <1>1, <1>2, <1>5, <2>1 DEF UserAgrees, PlanInForce
    <2>3. Upgrading(q)
        BY <1>3, <1>6 DEF Upgrading, Writing
    <2>4. stripe'[q.sub].status = "canceled" => EndReported(q.sub)'
        BY <1>1, <1>2, <1>3, <2>1 DEF EndReported
    <2>5. q.plan = stripe'[q.sub].plan
        BY <1>1, <1>2, <1>3, <2>1
    <2> QED
        BY <1>1, <1>3, <1>5, <2>2, <2>3, <2>4, <2>5, UpgradeStep
<1>7. CASE ~Upgrading(request[r])
    <2>1. userPlan' = "free" /\ PlanInForce = "free" /\ request[r].op \in {"cancel", "deleted"}
        BY <1>1, <1>7, LastStatements
    <2>2. LicenseAgrees
        BY <1>2, <1>7, WriterFacts
    <2>3. UserAgrees' /\ LicenseAgrees'
        BY <1>1, <1>5, <2>1, <2>2 DEF UserAgrees, LicenseAgrees
    <2>4. UserIsReset'
        BY <2>1 DEF UserIsReset
    <2>5. ASSUME NEW s \in Request PROVE ~Upgrading(request[s])'
        <3>1. CASE s = r
            BY <1>1, <1>3, <2>1, <3>1 DEF BillingInv, Upgrading
        <3>2. CASE s # r
            BY <1>1, <1>2, <3>2, WriterFacts DEF BillingInv, Upgrading, Writing
        <3> QED
            BY <3>1, <3>2
    <2> QED
        BY <1>5, <2>3, <2>4, <2>5, NoUpgradeStep
<1> QED
    BY <1>6, <1>7

LEMMA LicenseKeeps ==
    ASSUME BillingInv, EachFits, Undisturbed, ~Overlap(request)',
           NEW r \in Request, UpdateLicense(r)
    PROVE  Undisturbed'
<1>1. /\ request[r].at = "license" /\ license' = LicenseOf(request[r].plan)
      /\ request' = [request EXCEPT ![r] = NoRequest] /\ UNCHANGED <<stripe, row, userPlan>>
      /\ request[r].op # "deleted" => events' = events
    BY DEF UpdateLicense, Continue, AnswerOf
<1>2. /\ row # NoRow /\ request[r].sub = row.sub /\ Writing(request[r])
    BY <1>1, LastStatements
<1>3. RowAgrees /\ UserAgrees
    BY <1>1, <1>2, WriterFacts
<1>4. RowAgrees' /\ PlanInForce' = PlanInForce
    BY <1>1, <1>3 DEF RowAgrees, PlanInForce
<1>5. ASSUME NEW s \in Request PROVE ~Upgrading(request[s])'
    <2>1. CASE s = r
        BY <1>1, <2>1, NoRequestIsIdle DEF BillingInv, Upgrading, Writing
    <2>2. CASE s # r
        BY <1>1, <1>2, <2>2, WriterFacts DEF BillingInv, Upgrading, Writing
    <2> QED
        BY <2>1, <2>2
<1>6. UserIsReset'
    <2>1. ASSUME NEW s \in Request, request'[s].op = "deleted"
          PROVE  request'[s] = request[s]
        BY <1>1, <2>1, NoRequestIsIdle DEF BillingInv
    <2> QED
        BY <1>1, <2>1 DEF Undisturbed, UserIsReset
<1>7. CASE Upgrading(request[r])
    <2>1. events' = events
        BY <1>1, <1>7 DEF Upgrading
    <2>2. /\ request[r].plan = stripe[row.sub].plan
          /\ stripe[row.sub].status = "canceled" => EndReported(row.sub)
        BY <1>2, <1>7, WriterFacts
    <2>3. UserAgrees' /\ LicenseAgrees'
        BY <1>1, <1>2, <1>3, <1>4, <2>1, <2>2
           DEF UserAgrees, LicenseAgrees, PlanInForce, EndReported
    <2> QED
        BY <1>4, <1>5, <1>6, <2>3, NoUpgradeStep
<1>8. CASE ~Upgrading(request[r])
    <2>1. /\ request[r].op \in {"cancel", "deleted"} /\ request[r].plan = "free"
          /\ PlanInForce = "free"
        BY <1>1, <1>8, LastStatements
    <2>2. LicenseAgrees'
        BY <1>1, <1>4, <2>1 DEF LicenseAgrees
    <2>3. UserAgrees'
        <3>1. CASE request[r].op = "deleted"
            BY <1>1, <1>4, <2>1, <3>1 DEF Undisturbed, UserIsReset, UserAgrees
        <3>2. CASE request[r].op # "deleted"
            BY <1>1, <1>3, <1>4, <3>2 DEF UserAgrees, EndReported
        <3> QED
            BY <3>1, <3>2
    <2> QED
        BY <1>4, <1>5, <1>6, <2>2, <2>3, NoUpgradeStep
<1> QED
    BY <1>7, <1>8

LEMMA FailKeeps ==
    ASSUME BillingInv, EachFits, Undisturbed, ~disturbed',
           NEW r \in Request, RequestFails(r)
    PROVE  Undisturbed'
<1>1. /\ request' = [request EXCEPT ![r] = NoRequest]
      /\ UNCHANGED <<stripe, events, row, userPlan, license>>
      /\ Upgrading(request[r]) => request[r].at = "insert"
    BY DEF RequestFails, rowVars
<1>2. \A s \in Request : Aside(s)
    BY <1>1, NoRequestIsIdle, OneAside
<1>3. ~Overlap(request)'
    <2>1. \A s \in Request : request'[s] \in {request[s], NoRequest}
        BY <1>1 DEF BillingInv
    <2>2. ASSUME NEW s \in Request, NEW t \in Request, s # t,
                 Upgrading(request'[s]), Writing(request'[t])
          PROVE  FALSE
        <3>1. request'[s] = request[s] /\ request'[t] = request[t]
            BY <2>1, <2>2, NoRequestIsIdle
        <3> QED
            BY <2>2, <3>1 DEF Undisturbed, Overlap
    <2> QED
        BY <2>2 DEF Overlap
<1>4. Reported /\ RowKept /\ \A sub : EndReported(sub) => EndReported(sub)'
    BY <1>1 DEF Reported, RowKept, EndReported
<1> QED
    BY <1>1, <1>2, <1>3, <1>4, AsideStep

LEMMA UndisturbedStep ==
    ASSUME BillingInv, EachFits, Undisturbed, [Next]_vars, ~disturbed'
    PROVE  Undisturbed'
<1>1. ASSUME NEW r \in Request, NEW q, Continue(r, q) PROVE ~Overlap(request)'
    BY <1>1 DEF Continue, Overlap
<1>2. ASSUME NEW r \in Request, NEW plan \in PaidPlan, CreateInStripe(r, plan)
      PROVE  Undisturbed'
    <2>1. ~Overlap(request)'
        BY <1>1, <1>2 DEF CreateInStripe
    <2> QED
        BY <1>2, <2>1, CreateKeeps
<1>3. ASSUME NEW r \in Request, InsertRow(r) PROVE Undisturbed'
    <2>1. ~Overlap(request)'
        BY <1>1, <1>3 DEF InsertRow
    <2> QED
        BY <1>3, <2>1, InsertKeeps, AsideSteps
<1>4. ASSUME NEW r \in Request, NEW op \in {"cancel", "cancelAtEnd", "change"},
             NEW plan \in Plan, ReadRow(r, op, plan)
      PROVE  Undisturbed'
    <2>1. ~Overlap(request)'
        BY <1>1, <1>4 DEF ReadRow
    <2> QED
        BY <1>4, <2>1, AsideSteps
<1>5. ASSUME NEW r \in Request,
             CancelInStripe(r) \/ CancelAtEndInStripe(r) \/ ChangeInStripe(r)
      PROVE  Undisturbed'
    <2>1. ~Overlap(request)'
        BY <1>1, <1>5 DEF CancelInStripe, CancelAtEndInStripe, ChangeInStripe, CallStripe
    <2> QED
        BY <1>5, <2>1, ChangeKeeps, AsideSteps
<1>6. ASSUME NEW r \in Request, StripeRefuses(r) PROVE Undisturbed'
    <2>1. ~Overlap(request)'
        BY <1>1, <1>6 DEF StripeRefuses
    <2> QED
        BY <1>6, <2>1, AsideSteps
<1>7. ASSUME NEW r \in Request, UpdateRow(r) PROVE Undisturbed'
    <2>1. ~Overlap(request)'
        BY <1>1, <1>7 DEF UpdateRow
    <2> QED
        BY <1>7, <2>1, RowKeeps, AsideSteps
<1>8. ASSUME NEW r \in Request, UpdateUser(r) \/ UpdateLicense(r) PROVE Undisturbed'
    <2>1. ~Overlap(request)'
        BY <1>1, <1>8 DEF UpdateUser, UpdateLicense
    <2> QED
        BY <1>8, <2>1, UserKeeps, LicenseKeeps
<1>9. ASSUME NEW r \in Request, RequestFails(r) PROVE Undisturbed'
    BY <1>9, FailKeeps
<1>10. ASSUME NEW event \in events, ReceiveEvent(event) PROVE Undisturbed'
    <2>1. ~Overlap(request)'
        BY <1>10 DEF ReceiveEvent, Undisturbed, Overlap
    <2> QED
        BY <1>10, <2>1, AsideSteps
<1>11. ASSUME NEW r \in Request, NEW event \in events, ReceiveDeleted(r, event)
       PROVE  Undisturbed'
    <2>1. ~Overlap(request)'
        BY <1>1, <1>11 DEF ReceiveDeleted
    <2> QED
        BY <1>11, <2>1, AsideSteps
<1>12. ASSUME NEW sub \in DOMAIN stripe, Renews(sub) \/ Ends(sub) PROVE Undisturbed'
    <2>1. ~Overlap(request)'
        BY <1>12 DEF Renews, Ends, Undisturbed, Overlap
    <2> QED
        BY <1>12, <2>1, AsideSteps
<1>13. ASSUME UNCHANGED vars PROVE Undisturbed'
    BY <1>13 DEF vars, rowVars, Undisturbed, Overlap, UpgradesInForce, RowAgrees, Upgrades,
                 UserAgrees, LicenseAgrees, UserIsReset, PlanInForce, EndReported,
                 Upgrading, Writing
<1>14. PaidPlan \subseteq Plan /\ "free" \in Plan
    BY DEF PaidPlan, Plan
<1> QED
    BY <1>2, <1>3, <1>4, <1>5, <1>6, <1>7, <1>8, <1>9, <1>10, <1>11, <1>12, <1>13, <1>14
       DEF Next

LEMMA RestInvInit == Init => RestInv
<1> SUFFICES ASSUME Init PROVE RestInv
    OBVIOUS
<1>1. EachFits
    BY DEF Init, EachFits, Fits, NoRequest, Resetting
<1>2. \A r \in Request : ~Upgrading(request[r]) /\ request[r].op # "deleted"
    BY NoRequestIsIdle DEF Init
<1>3. RowAgrees /\ UserAgrees /\ LicenseAgrees /\ UserIsReset
    BY <1>2 DEF Init, RowAgrees, UserAgrees, LicenseAgrees, UserIsReset, PlanInForce
<1>4. Undisturbed
    BY <1>2, <1>3 DEF Undisturbed, Overlap, UpgradesInForce
<1> QED
    BY <1>1, <1>4, BillingInvInit DEF RestInv

LEMMA RestInvStep == RestInv /\ [Next]_vars => RestInv'
<1> SUFFICES ASSUME RestInv, [Next]_vars PROVE RestInv'
    OBVIOUS
<1>1. disturbed => disturbed'
    BY DEF Next, CreateInStripe, InsertRow, ReadRow, CancelInStripe, CancelAtEndInStripe,
           ChangeInStripe, CallStripe, StripeRefuses, UpdateRow, UpdateUser, UpdateLicense,
           RequestFails, ReceiveEvent, ReceiveDeleted, Renews, Ends, Continue, vars
<1>2. ~disturbed' => Undisturbed'
    BY <1>1, UndisturbedStep DEF RestInv
<1> QED
    BY <1>2, BillingInvStep, EachFitsStep DEF RestInv

\* For any number of requests, subscriptions and events: when nothing is under way and
\* every deletion has been answered, Stripe, row, user and license agree on the plan,
\* unless an upgrade was cut short or ran beside another change.
THEOREM AgreesAtRest == Spec => []RestIsConsistent
<1>1. RestInv => RestIsConsistent
    <2> SUFFICES ASSUME RestInv, \A r \in Request : request[r] = NoRequest,
                        Plain("deleted", row.sub) \notin events, ~disturbed
                 PROVE  /\ userPlan = PlanInForce
                        /\ license = LicenseOf(PlanInForce)
                        /\ row # NoRow => row.plan = stripe[row.sub].plan
        BY DEF RestIsConsistent
    <2>1. \A at : ~Upgrades(at)
        BY NoRequestIsIdle DEF Upgrades
    <2> QED
        BY <2>1 DEF RestInv, Undisturbed, RowAgrees, UserAgrees, LicenseAgrees, EndReported
<1> QED
    BY <1>1, RestInvInit, RestInvStep, PTL DEF Spec

----------------------------------------------------------------------------
(* What the other parts of the service rely on. *)

\* One of the last two statements of a request that sets the plan: the user gets the plan, or
\* the license all that it gives.
SetsOnePlan ==
    \E plan \in Plan :
      \/ userPlan' = plan /\ license' = license
      \/ userPlan' = userPlan /\ license' = LicenseOf(plan)

\* The license never mixes two plans, whichever requests crossed or stopped, and no step
\* touches both user and license.  The verifications of devices and the LLM proxy, which read
\* one of them between two such steps, are modelled under exactly these changes
\* (LicenseDevices.UpdateLicensePlan, LLMProxy.SetUserPlan).
THEOREM PlansAreSetWhole ==
    Spec => /\ [](userPlan \in Plan /\ \E plan \in Plan : license = LicenseOf(plan))
            /\ [][UNCHANGED <<userPlan, license>> \/ SetsOnePlan]_vars
<1> DEFINE Whole == userPlan \in Plan /\ \E plan \in Plan : license = LicenseOf(plan)
           Change == UNCHANGED <<userPlan, license>> \/ SetsOnePlan
<1>1. Init => Whole
    BY DEF Init, Plan
<1>2. BillingInv /\ [Next]_vars => [Change]_vars
    <2> SUFFICES ASSUME BillingInv, Next PROVE Change
        OBVIOUS
    <2>1. CASE \E r \in Request : UpdateUser(r) \/ UpdateLicense(r)
        <3>1. PICK r \in Request : UpdateUser(r) \/ UpdateLicense(r)
            BY <2>1
        <3>2. request[r].plan \in Plan
            BY DEF BillingInv, RequestRecord
        <3> QED
            BY <3>1, <3>2 DEF UpdateUser, UpdateLicense, SetsOnePlan
    <2>2. CASE ~ \E r \in Request : UpdateUser(r) \/ UpdateLicense(r)
        BY <2>2 DEF Next, CreateInStripe, InsertRow, ReadRow, CancelInStripe,
              CancelAtEndInStripe, ChangeInStripe, CallStripe, StripeRefuses, UpdateRow,
              RequestFails, ReceiveEvent, ReceiveDeleted, Renews, Ends, rowVars
    <2> QED
        BY <2>1, <2>2
<1>3. Whole /\ [Change]_vars => Whole'
    BY DEF SetsOnePlan, vars, rowVars
<1>4. Spec => []BillingInv
    BY BillingInvInit, BillingInvStep, PTL DEF Spec
<1> HIDE DEF Whole, Change
<1>5. Spec => []Whole /\ [][Change]_vars
    BY <1>1, <1>2, <1>3, <1>4, PTL DEF Spec
<1> QED
    BY <1>5 DEF Whole, Change
=============================================================================
