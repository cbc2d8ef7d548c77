------------------------- MODULE PriorityScheduler -------------------------
(***************************************************************************)
(* What a bounded, work-conserving priority scheduler promises: the        *)
(* abstract specification AgentOrchestrator implements.  A task is new,    *)
(* waits, is active in one of the Slots, and ends.  Every event            *)
(* that changes the schedule ends with a dispatch, which starts a          *)
(* heaviest part of the waiting tasks and leaves no slot free while a task *)
(* waits -- unless dispatches may be lost.                                 *)
(***************************************************************************)
EXTENDS Naturals, FiniteSets

CONSTANTS
    Task,     \* the tasks that may arrive
    Slots,    \* how many may be active at once, at least 1
    Weights,  \* their weights, natural numbers
    Lossy     \* may a dispatch be lost?

VARIABLES phase, weight

vars == <<phase, weight>>

InPhase(ph, s) == {t \in Task : ph[t] = s}

TypeOK ==
    /\ phase \in [Task -> {"new", "waiting", "active", "ended"}]
    /\ weight \in [Task -> Nat]

Init ==
    /\ phase = [t \in Task |-> "new"]
    /\ weight = [t \in Task |-> 1]

\* start the tasks in S; w is the weights at the time of the dispatch
Dispatch(ph, w) ==
    \E S \in SUBSET InPhase(ph, "waiting") :
        LET rest == InPhase(ph, "waiting") \ S
            busy == InPhase(ph, "active") \cup S
        IN
        /\ phase' = [t \in Task |-> IF t \in S THEN "active" ELSE ph[t]]
        /\ S # {} => Cardinality(busy) <= Slots
        /\ \A t \in S, u \in rest : w[u] <= w[t]
        /\ Lossy \/ rest = {} \/ Cardinality(busy) = Slots

Arrive(t, w) ==
    /\ phase[t] = "new"
    /\ weight' = [weight EXCEPT ![t] = w]
    /\ Dispatch([phase EXCEPT ![t] = "waiting"], [weight EXCEPT ![t] = w])

\* a task finishes, fails, or is withdrawn while it waits or is active
End(t) ==
    /\ phase[t] \in {"waiting", "active"}
    /\ Dispatch([phase EXCEPT ![t] = "ended"], weight)
    /\ UNCHANGED weight

\* a dispatch that no end and no arrival causes
Poke ==
    /\ Dispatch(phase, weight)
    /\ UNCHANGED weight

Next ==
    \/ \E t \in Task, w \in Weights : Arrive(t, w)
    \/ \E t \in Task : End(t)
    \/ Poke

Spec == Init /\ [][Next]_vars
=============================================================================
