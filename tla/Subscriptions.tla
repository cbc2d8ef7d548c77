--------------------------- MODULE Subscriptions ---------------------------
(***************************************************************************)
(* The subscription of one user: subscriptionService.ts, the webhooks of   *)
(* subscriptionRoutes.ts, and the Stripe account behind them.              *)
(*                                                                         *)
(* A request is a process with one step per call to Stripe and per         *)
(* statement, since nothing joins them: Stripe, the subscriptions row, the *)
(* user and the license change one after the other, and each may be the    *)
(* last.  Stripe delivers each event at least once, in any order; the      *)
(* server handles requests and events side by side.                        *)
(*                                                                         *)
(* The statuses active and past_due are one here, running: nothing that    *)
(* decides on a plan tells them apart.                                     *)
(***************************************************************************)
EXTENDS Plans, Naturals, FiniteSets, Sequences

CONSTANTS
    Request,     \* requests the server handles at a time
    MaxSubs,     \* bound: subscriptions created in Stripe
    MaxPending   \* bound: events Stripe has yet to deliver

ASSUME SubscriptionsAssumption == MaxSubs \in Nat /\ MaxPending \in Nat

VARIABLES
    stripe,     \* Stripe's subscriptions of the user, in order of creation
    events,     \* Stripe's events not yet answered with 200
    row,        \* the user's row of subscriptions
    userPlan,   \* users.plan
    license,    \* the user's row of licenses: plan and max_devices
    request,    \* what each request knows and where it is
    disturbed   \* history: an upgrade was cut short or ran beside another change of plan

rowVars == <<row, userPlan, license>>
vars == <<stripe, events, row, userPlan, license, request, disturbed>>

NoRow == [sub |-> 0, plan |-> "free", status |-> "none", atEnd |-> FALSE]

NoRequest == [op |-> "none", at |-> "idle", sub |-> 0, plan |-> "free"]

Plain(type, sub) == [type |-> type, sub |-> sub, atEnd |-> FALSE]

Updated(sub) == [type |-> "updated", sub |-> sub, atEnd |-> stripe'[sub].atEnd]

Init ==
    /\ stripe = <<>>
    /\ events = {}
    /\ row = NoRow
    /\ userPlan = "free"
    /\ license = LicenseOf("free")
    /\ request = [r \in Request |-> NoRequest]
    /\ disturbed = FALSE

----------------------------------------------------------------------------
Writing(q) == q.at \in {"insert", "row", "user", "license"} /\ q.op # "cancelAtEnd"

Upgrading(q) == Writing(q) /\ q.op \in {"create", "change"}

Overlap(qs) == \E r, s \in Request : r # s /\ Upgrading(qs[r]) /\ Writing(qs[s])

\* request r goes on as q
Continue(r, q) ==
    /\ request' = [request EXCEPT ![r] = q]
    /\ disturbed' = (disturbed \/ Overlap(request'))

Moved(r, at) == [request[r] EXCEPT !.at = at]

Emit(new) ==
    /\ events' = events \cup new
    /\ Cardinality(events') <= MaxPending

\* the answer to an event; Stripe may not hear it, and sends the event again
Answer(event) == events' \in {events, events \ {event}}

AnswerOf(r) ==
    IF request[r].op = "deleted" THEN Answer(Plain("deleted", request[r].sub))
                                 ELSE UNCHANGED events

\* What an event says is for the row of its subscription, whoever the user is.
FindsUser(sub) == row # NoRow
Finds(sub) == row.sub = sub

\* the first statement after the call to Stripe
UserFirst(op) == IF op = "create" THEN "user" ELSE "row"
FirstStatement(op) == IF op = "create" THEN "insert" ELSE "row"

\* whether the statement on the row is the last one
RowOnlyOnDeletion(op) == op \in {"cancelAtEnd", "deleted"}
RowOnly(op) == op = "cancelAtEnd"

(***************************************************************************)
(* createSubscription.  getPriceId knows no price for the free plan.  When *)
(* the row cannot be inserted, the subscription stays in Stripe.           *)
(***************************************************************************)
CreateInStripe(r, plan) ==
    LET sub == Len(stripe) + 1 IN
    /\ request[r] = NoRequest
    /\ Len(stripe) < MaxSubs
    /\ stripe' = Append(stripe, [status |-> "running", plan |-> plan, atEnd |-> FALSE])
    /\ Emit({Plain("payment", sub)})
    /\ Continue(r, [op |-> "create", at |-> FirstStatement("create"),
                   sub |-> sub, plan |-> plan])
    /\ UNCHANGED rowVars

\* a second row for the user violates UNIQUE(user_id) and throws
InsertRow(r) ==
    /\ request[r].at = "insert"
    /\ IF row = NoRow
       THEN /\ row' = [sub |-> request[r].sub, plan |-> request[r].plan,
                       status |-> "running", atEnd |-> FALSE]
            /\ Continue(r, Moved(r, "user"))
       ELSE /\ Continue(r, NoRequest)
            /\ UNCHANGED row
    /\ UNCHANGED <<stripe, events, userPlan, license>>

(***************************************************************************)
(* cancelSubscription and changePlan                                       *)
(***************************************************************************)
ReadRow(r, op, plan) ==
    /\ request[r] = NoRequest
    /\ row # NoRow
    /\ Continue(r, [op |-> op, at |-> "stripe", sub |-> row.sub, plan |-> plan])
    /\ UNCHANGED <<stripe, events, rowVars>>

\* Stripe does what r asks of it
CallStripe(r, op, after, type) ==
    LET sub == request[r].sub IN
    /\ request[r].op = op /\ request[r].at = "stripe"
    /\ stripe[sub].status # "canceled"
    /\ stripe' = [stripe EXCEPT ![sub] = after]
    /\ Emit({IF type = "deleted" THEN Plain("deleted", sub) ELSE Updated(sub)})
    /\ Continue(r, Moved(r, FirstStatement(op)))
    /\ UNCHANGED rowVars

Asked(r) == stripe[request[r].sub]

CancelInStripe(r) ==
    CallStripe(r, "cancel", [Asked(r) EXCEPT !.status = "canceled"], "deleted")

CancelAtEndInStripe(r) ==
    CallStripe(r, "cancelAtEnd", [Asked(r) EXCEPT !.atEnd = TRUE], "updated")

ChangeInStripe(r) ==
    CallStripe(r, "change", [Asked(r) EXCEPT !.plan = request[r].plan], "updated")

\* a subscription that has ended cannot be cancelled or changed: the call throws
StripeRefuses(r) ==
    /\ request[r].at = "stripe"
    /\ stripe[request[r].sub].status = "canceled"
    /\ Continue(r, NoRequest)
    /\ UNCHANGED <<stripe, events, rowVars>>

RowAfter(q) ==
    CASE q.op \in {"cancel", "deleted"} -> [row EXCEPT !.status = "canceled"]
      [] q.op = "cancelAtEnd"           -> [row EXCEPT !.atEnd = TRUE]
      [] q.op = "change"                -> [row EXCEPT !.plan = q.plan]

\* The row is updated.  The deleted handler finds it by its subscription, and looks up
\* the user in it; the last statement of a cancellation at the period's end is here.
UpdateRow(r) ==
    LET found == Finds(request[r].sub)
        last == ~found \/ RowOnly(request[r].op)
    IN
    /\ request[r].at = "row"
    /\ row' = IF found THEN RowAfter(request[r]) ELSE row
    /\ Continue(r, IF last THEN NoRequest ELSE Moved(r, "user"))
    /\ IF last THEN AnswerOf(r) ELSE UNCHANGED events
    /\ UNCHANGED <<stripe, userPlan, license>>

\* the last two statements of every request that sets the plan
UpdateUser(r) ==
    /\ request[r].at = "user"
    /\ userPlan' = request[r].plan
    /\ Continue(r, Moved(r, "license"))
    /\ UNCHANGED <<stripe, events, row, license>>

UpdateLicense(r) ==
    /\ request[r].at = "license"
    /\ license' = LicenseOf(request[r].plan)
    /\ AnswerOf(r)
    /\ Continue(r, NoRequest)
    /\ UNCHANGED <<stripe, row, userPlan>>

\* A call or a statement throws, or the server goes down.  Nothing is undone.
RequestFails(r) ==
    /\ request[r] # NoRequest
    /\ request' = [request EXCEPT ![r] = NoRequest]
    /\ disturbed' = (disturbed \/ (Upgrading(request[r]) /\ request[r].at # "insert"))
    /\ UNCHANGED <<stripe, events, rowVars>>

(***************************************************************************)
(* The webhooks.  All but one are a single statement, which finds the row  *)
(* by the subscription and sets its status whatever it was: a payment, a   *)
(* failed one and an update alike make a canceled row a running one.       *)
(***************************************************************************)
ReceiveEvent(event) ==
    /\ event.type # "deleted"
    /\ row' = IF Finds(event.sub)
              THEN [row EXCEPT !.status = "running",
                               !.atEnd = IF event.type = "updated" THEN event.atEnd ELSE @]
              ELSE row
    /\ Answer(event)
    /\ UNCHANGED <<stripe, userPlan, license, request, disturbed>>

\* handleSubscriptionDeleted takes as many statements as a cancellation
ReceiveDeleted(r, event) ==
    /\ request[r] = NoRequest
    /\ event.type = "deleted"
    /\ Continue(r, [op |-> "deleted", at |-> "row", sub |-> event.sub, plan |-> "free"])
    /\ UNCHANGED <<stripe, events, rowVars>>

(***************************************************************************)
(* What Stripe does by itself: it renews a subscription, with success or   *)
(* not, or ends it (its period is over, or no payment succeeded).  What it *)
(* does with a subscription no one here knows finds no row: it is left out.*)
(***************************************************************************)
Known(sub) == row.sub = sub \/ \E r \in Request : request[r].sub = sub

Renews(sub) ==
    /\ Known(sub) /\ stripe[sub].status = "running" /\ ~stripe[sub].atEnd
    /\ Emit({Plain("payment", sub)})
    /\ UNCHANGED <<stripe, rowVars, request, disturbed>>

Ends(sub) ==
    /\ Known(sub) /\ stripe[sub].status = "running"
    /\ stripe' = [stripe EXCEPT ![sub].status = "canceled"]
    /\ Emit({Plain("deleted", sub)})
    /\ UNCHANGED <<rowVars, request, disturbed>>

----------------------------------------------------------------------------
Next ==
    \/ \E r \in Request, plan \in PaidPlan : CreateInStripe(r, plan)
    \/ \E r \in Request : InsertRow(r)
    \/ \E r \in Request, op \in {"cancel", "cancelAtEnd"} : ReadRow(r, op, "free")
    \/ \E r \in Request, plan \in PaidPlan : ReadRow(r, "change", plan)
    \/ \E r \in Request : CancelInStripe(r)
    \/ \E r \in Request : CancelAtEndInStripe(r)
    \/ \E r \in Request : ChangeInStripe(r)
    \/ \E r \in Request : StripeRefuses(r)
    \/ \E r \in Request : UpdateRow(r)
    \/ \E r \in Request : UpdateUser(r)
    \/ \E r \in Request : UpdateLicense(r)
    \/ \E r \in Request : RequestFails(r)
    \/ \E event \in events : ReceiveEvent(event)
    \/ \E r \in Request, event \in events : ReceiveDeleted(r, event)
    \/ \E sub \in DOMAIN stripe : Renews(sub)
    \/ \E sub \in DOMAIN stripe : Ends(sub)

Spec == Init /\ [][Next]_vars

----------------------------------------------------------------------------
\* Whatever requests, failures, repeated or late events: no one has a paid plan or a
\* paid license without a recorded subscription.  A subscription that could not be
\* recorded gives nothing (though Stripe goes on charging for it).
PaidPlanIsRecorded ==
    userPlan # "free" \/ license.plan # "free" => row # NoRow

\* The row never says of a subscription that Stripe still runs that it is canceled, nor
\* that it ends with its period when Stripe will renew it: the user would be charged
\* for what the program says is over.
CancelIsReal ==
    /\ row.status = "canceled" => stripe[row.sub].status = "canceled"
    /\ row.atEnd => stripe[row.sub].atEnd

PlanInForce ==
    IF row = NoRow \/ stripe[row.sub].status = "canceled" THEN "free"
                                                          ELSE stripe[row.sub].plan

\* When no request runs and every deleted event has been answered, user, license, row
\* and Stripe agree on the plan, although a cancellation may stop after any statement
\* and events come twice, late and in any order: provided no upgrade was cut short
\* after it took effect in Stripe, or ran beside another change of plan.
RestIsConsistent ==
    /\ \A r \in Request : request[r] = NoRequest
    /\ Plain("deleted", row.sub) \notin events
    /\ ~disturbed
    => /\ userPlan = PlanInForce
       /\ license = LicenseOf(PlanInForce)
       /\ row # NoRow => row.plan = stripe[row.sub].plan
=============================================================================
