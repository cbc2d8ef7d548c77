--------------------------- MODULE SchedulerProofs ---------------------------
(***************************************************************************)
(* For batches of any length, with any types, files and shared ids: each   *)
(* layer can run in parallel, no task is left out, and no plan is shorter.   *)
(***************************************************************************)
EXTENDS TaskScheduler, WellFoundedInduction, TLAPS

Planned == UNION {plan[k] : k \in 1 .. Len(plan)}

\* the nodes of the first k layers
PlannedBy(k) == UNION {plan[j] : j \in 1 .. k}

\* each layer took all that could follow on those before it
LayersAreReady == \A k \in 1 .. Len(plan) : plan[k] = Ready(PlannedBy(k - 1))

\* The loop's bookkeeping: the nodes done are those planned, and the next layer is all
\* that can follow on them.
SchedulerInv ==
    /\ TypeOK
    /\ completed = Planned
    /\ currentLayer = Ready(completed)
    /\ LayersRespectDependencies
    /\ LayersAreReady
    /\ LayersAreChainLengths

----------------------------------------------------------------------------
\* A set of positions that is not empty has a least one.
LEMMA LeastPosition ==
    ASSUME NEW S \in SUBSET Nat, S # {}
    PROVE  \E n \in S : \A m \in S : ~(m < n)
<1>1. IsWellFoundedOn(OpToRel(<, Nat), Nat)
    BY NatLessThanWellFounded
<1>2. \E n \in S : \A m \in S : ~(<<m, n>> \in OpToRel(<, Nat))
    BY <1>1, WFMin
<1> QED
    BY <1>2 DEF OpToRel

\* What the plan owes the batch it lays out stays the same while it is laid out.
LEMMA SameGraph ==
    ASSUME UNCHANGED tasks
    PROVE  /\ Nodes' = Nodes
           /\ \A n : Dependencies(n)' = Dependencies(n)
           /\ \A n, k : ChainsTo(n, k)' = ChainsTo(n, k)
<1>1. \A i : NodeOf(i)' = NodeOf(i)
    BY DEF NodeOf
<1>2. Nodes' = Nodes
    BY <1>1 DEF Nodes
<1>3. \A n : TaskOf(n)' = TaskOf(n)
    BY <1>1 DEF TaskOf
<1>4. \A n : NodesBefore(n)' = NodesBefore(n)
    BY <1>2 DEF NodesBefore
<1>5. \A n : Dependencies(n)' = Dependencies(n)
    BY <1>2, <1>3, <1>4 DEF Dependencies
<1>6. \A n, k : ChainsTo(n, k)' = ChainsTo(n, k)
    BY <1>2, <1>5 DEF ChainsTo
<1> QED
    BY <1>2, <1>5, <1>6

\* What a chain ends with is a chain.
LEMMA ChainSuffix ==
    ASSUME NEW n, NEW p \in Nat \ {0}, NEW q \in 1 .. p, NEW c \in ChainsTo(n, p)
    PROVE  ChainsTo(n, q) # {}
<1> DEFINE d == [i \in 1 .. q |-> c[i + (p - q)]]
<1>1. c \in [1 .. p -> Nodes] /\ c[p] = n
    BY DEF ChainsTo
<1>2. \A i \in 1 .. q : i + (p - q) \in 1 .. p
    OBVIOUS
<1>3. d \in [1 .. q -> Nodes]
    BY <1>1, <1>2
<1>4. d[q] = n
    BY <1>1
<1>5. ASSUME NEW i \in 1 .. (q - 1)
      PROVE  d[i] \in Dependencies(d[i + 1])
    <2>1. i + (p - q) \in 1 .. (p - 1) /\ (i + 1) + (p - q) = (i + (p - q)) + 1
        OBVIOUS
    <2>2. c[i + (p - q)] \in Dependencies(c[(i + (p - q)) + 1])
        BY <2>1 DEF ChainsTo
    <2>3. i \in 1 .. q /\ i + 1 \in 1 .. q
        OBVIOUS
    <2> QED
        BY <2>1, <2>2, <2>3
<1>6. d \in ChainsTo(n, q)
    BY <1>3, <1>4, <1>5 DEF ChainsTo
<1> QED
    BY <1>6

\* A chain without its last node is a chain.
LEMMA ChainPrefix ==
    ASSUME NEW n, NEW p \in Nat \ {0}, NEW c \in ChainsTo(n, p + 1)
    PROVE  \E m \in Dependencies(n) : ChainsTo(m, p) # {}
<1> DEFINE d == [i \in 1 .. p |-> c[i]]
<1>1. /\ c \in [1 .. (p + 1) -> Nodes] /\ c[p + 1] = n
      /\ \A i \in 1 .. p : c[i] \in Dependencies(c[i + 1])
    BY DEF ChainsTo
<1>2. c[p] \in Dependencies(n)
    BY <1>1
<1>3. d \in [1 .. p -> Nodes] /\ d[p] = c[p]
    BY <1>1
<1>4. \A i \in 1 .. (p - 1) : d[i] \in Dependencies(d[i + 1])
    BY <1>1
<1>5. d \in ChainsTo(c[p], p)
    BY <1>3, <1>4 DEF ChainsTo
<1> QED
    BY <1>2, <1>5

\* A chain can go on with a node that waits for its last one.
LEMMA ChainLonger ==
    ASSUME NEW n \in Nodes, NEW p \in Nat \ {0}, NEW m \in Dependencies(n), NEW c \in ChainsTo(m, p)
    PROVE  ChainsTo(n, p + 1) # {}
<1> DEFINE d == [i \in 1 .. (p + 1) |-> IF i = p + 1 THEN n ELSE c[i]]
<1>1. /\ c \in [1 .. p -> Nodes] /\ c[p] = m
      /\ \A i \in 1 .. (p - 1) : c[i] \in Dependencies(c[i + 1])
    BY DEF ChainsTo
<1>2. d \in [1 .. (p + 1) -> Nodes] /\ d[p + 1] = n
    BY <1>1
<1>3. ASSUME NEW i \in 1 .. p
      PROVE  d[i] \in Dependencies(d[i + 1])
    <2>1. CASE i = p
        BY <1>1, <2>1
    <2>2. CASE i \in 1 .. (p - 1)
        BY <1>1, <2>2
    <2> QED
        BY <2>1, <2>2
<1>4. d \in ChainsTo(n, p + 1)
    BY <1>2, <1>3 DEF ChainsTo
<1> QED
    BY <1>4

LEMMA ChainOfOne ==
    ASSUME NEW n \in Nodes
    PROVE  ChainsTo(n, 1) # {}
<1>1. [i \in 1 .. 1 |-> n] \in ChainsTo(n, 1)
    BY DEF ChainsTo
<1> QED
    BY <1>1

\* The longest chain to a node that can follow on all layers has one node from each, and
\* one of its own.
LEMMA LongestChain ==
    ASSUME SchedulerInv, NEW n \in Ready(completed)
    PROVE  ChainsTo(n, Len(plan) + 1) # {} /\ ChainsTo(n, Len(plan) + 2) = {}
<1> DEFINE L == Len(plan)
<1>1. /\ L \in Nat /\ completed = PlannedBy(L) /\ n \in Nodes \ completed
      /\ Dependencies(n) \subseteq completed
    BY DEF SchedulerInv, TypeOK, Planned, PlannedBy, Ready
<1>2. ChainsTo(n, L + 1) # {}
    <2>1. CASE L = 0
        <3>1. L + 1 = 1 /\ n \in Nodes
            BY <1>1, <2>1
        <3>2. ChainsTo(n, 1) # {}
            BY <3>1, ChainOfOne
        <3> QED
            BY <3>1, <3>2
    <2>2. CASE L # 0
        <3>1. L \in 1 .. L /\ plan[L] = Ready(PlannedBy(L - 1)) /\ L - 1 \in Nat
            BY <1>1, <2>2 DEF SchedulerInv, LayersAreReady
        <3>2. PlannedBy(L) = PlannedBy(L - 1) \cup plan[L]
            <4>1. 1 .. L = (1 .. (L - 1)) \cup {L}
                BY <3>1
            <4> QED
                BY <4>1 DEF PlannedBy
        <3>3. ~(Dependencies(n) \subseteq PlannedBy(L - 1))
            BY <1>1, <3>1, <3>2 DEF Ready
        <3>4. PICK m \in Dependencies(n) : m \in plan[L]
            BY <1>1, <3>2, <3>3
        <3>5. ChainsTo(m, L) # {}
            BY <3>1, <3>4 DEF SchedulerInv, LayersAreChainLengths
        <3>6. PICK c \in ChainsTo(m, L) : TRUE
            BY <3>5
        <3> QED
            BY <1>1, <2>2, <3>6, ChainLonger
    <2> QED
        BY <2>1, <2>2
<1>3. ASSUME ChainsTo(n, L + 2) # {}
      PROVE  FALSE
    <2>1. PICK c \in ChainsTo(n, (L + 1) + 1) : TRUE
        BY <1>1, <1>3
    <2>2. PICK m \in Dependencies(n) : ChainsTo(m, L + 1) # {}
        BY <1>1, <2>1, ChainPrefix
    <2>3. PICK k \in 1 .. L : m \in plan[k]
        BY <1>1, <2>2 DEF PlannedBy
    <2>4. ChainsTo(m, k + 1) = {}
        BY <2>3 DEF SchedulerInv, LayersAreChainLengths
    <2>5. PICK d \in ChainsTo(m, L + 1) : TRUE
        BY <2>2
    <2>6. L + 1 \in Nat \ {0} /\ k + 1 \in 1 .. (L + 1)
        BY <1>1, <2>3
    <2> QED
        BY <2>4, <2>5, <2>6, ChainSuffix
<1> QED
    BY <1>2, <1>3

LEMMA SchedulerInvInit == Init => SchedulerInv
<1> SUFFICES ASSUME Init PROVE SchedulerInv
    OBVIOUS
<1>1. PICK n \in 0 .. MaxBatch : tasks \in [1 .. n -> AgentTask]
    BY DEF Init
<1>2. tasks \in Seq(AgentTask)
    BY <1>1, BatchAssumption
<1>3. plan = <<>> /\ completed = {} /\ currentLayer = Roots
    BY DEF Init
<1>4. Len(plan) = 0 /\ plan \in Seq(SUBSET Nodes) /\ 1 .. 0 = {}
    BY <1>3
<1>5. Planned = {}
    BY <1>4 DEF Planned
<1>6. currentLayer = Ready(completed)
    BY <1>3 DEF Roots, Ready
<1>7. currentLayer \subseteq Nodes
    BY <1>6 DEF Ready
<1>8. LayersRespectDependencies
    BY <1>4 DEF LayersRespectDependencies
<1>9. LayersAreReady /\ LayersAreChainLengths
    BY <1>4 DEF LayersAreReady, LayersAreChainLengths
<1> QED
    BY <1>2, <1>3, <1>4, <1>5, <1>6, <1>7, <1>8, <1>9 DEF SchedulerInv, TypeOK

LEMMA SchedulerInvStep == SchedulerInv /\ [Next]_vars => SchedulerInv'
<1> SUFFICES ASSUME SchedulerInv, [Next]_vars PROVE SchedulerInv'
    OBVIOUS
<1>1. UNCHANGED tasks
    BY DEF Next, AddLayer, vars
<1>2. /\ Nodes' = Nodes
      /\ \A n : Dependencies(n)' = Dependencies(n)
      /\ \A n, k : ChainsTo(n, k)' = ChainsTo(n, k)
    BY <1>1, SameGraph
<1>3. CASE AddLayer
    <2>1. /\ plan' = Append(plan, currentLayer)
          /\ completed' = completed \cup currentLayer
          /\ currentLayer' = Ready(completed')
        BY <1>3 DEF AddLayer
    <2>2. /\ plan \in Seq(SUBSET Nodes) /\ currentLayer \in SUBSET Nodes
          /\ completed = Planned /\ completed \subseteq Nodes
          /\ currentLayer = Ready(completed) /\ Len(plan) \in Nat
        BY DEF SchedulerInv, TypeOK
    <2>3. /\ plan' \in Seq(SUBSET Nodes) /\ Len(plan') = Len(plan) + 1
          /\ plan'[Len(plan) + 1] = currentLayer
          /\ \A k \in 1 .. Len(plan) : plan'[k] = plan[k]
        BY <2>1, <2>2
    <2>4. Planned' = Planned \cup currentLayer
        <3>1. 1 .. Len(plan') = (1 .. Len(plan)) \cup {Len(plan) + 1}
            BY <2>2, <2>3
        <3> QED
            BY <2>3, <3>1 DEF Planned
    <2>5. Ready(completed') \subseteq Nodes /\ (Ready(completed))' = Ready(completed')
        BY <1>2 DEF Ready
    <2>6. LayersRespectDependencies'
        <3>1. ASSUME NEW k \in 1 .. Len(plan'), NEW n \in plan'[k]
              PROVE  Dependencies(n) \subseteq UNION {plan'[j] : j \in 1 .. (k - 1)}
            <4>1. CASE k \in 1 .. Len(plan)
                <5>1. n \in plan[k] /\ \A j \in 1 .. (k - 1) : plan'[j] = plan[j]
                    BY <2>2, <2>3, <3>1, <4>1
                <5>2. Dependencies(n) \subseteq UNION {plan[j] : j \in 1 .. (k - 1)}
                    BY <4>1, <5>1 DEF SchedulerInv, LayersRespectDependencies
                <5> QED
                    BY <5>1, <5>2
            <4>2. CASE k = Len(plan) + 1
                <5>1. n \in Ready(completed) /\ 1 .. (k - 1) = 1 .. Len(plan)
                    BY <2>2, <2>3, <4>2
                <5>2. Dependencies(n) \subseteq Planned
                    BY <2>2, <5>1 DEF Ready
                <5> QED
                    BY <2>3, <5>1, <5>2 DEF Planned
            <4> QED
                BY <2>2, <2>3, <4>1, <4>2
        <3> QED
            BY <1>2, <3>1 DEF LayersRespectDependencies
    <2>7. LayersAreReady'
        <3>1. ASSUME NEW k \in 1 .. Len(plan')
              PROVE  plan'[k] = Ready(UNION {plan'[j] : j \in 1 .. (k - 1)})
            <4>1. \A j \in 1 .. (k - 1) : plan'[j] = plan[j]
                BY <2>2, <2>3
            <4>2. UNION {plan'[j] : j \in 1 .. (k - 1)} = PlannedBy(k - 1)
                BY <4>1 DEF PlannedBy
            <4>3. CASE k \in 1 .. Len(plan)
                BY <2>3, <4>2, <4>3 DEF SchedulerInv, LayersAreReady
            <4>4. CASE k = Len(plan) + 1
                <5>1. k - 1 = Len(plan) /\ plan'[k] = Ready(completed)
                    BY <2>2, <2>3, <4>4
                <5>2. PlannedBy(k - 1) = completed
                    BY <2>2, <5>1 DEF Planned, PlannedBy
                <5> QED
                    BY <4>2, <5>1, <5>2
            <4> QED
                BY <2>2, <2>3, <4>3, <4>4
        <3> QED
            BY <1>2, <3>1 DEF LayersAreReady, PlannedBy, Ready
    <2>8. LayersAreChainLengths'
        <3>1. ASSUME NEW k \in 1 .. Len(plan')
              PROVE  /\ plan'[k] # {}
                     /\ \A n \in plan'[k] : ChainsTo(n, k) # {} /\ ChainsTo(n, k + 1) = {}
            <4>1. CASE k \in 1 .. Len(plan)
                BY <2>3, <4>1 DEF SchedulerInv, LayersAreChainLengths
            <4>2. CASE k = Len(plan) + 1
                <5>1. plan'[k] # {} /\ k + 1 = Len(plan) + 2
                    BY <1>3, <2>2, <2>3, <4>2 DEF AddLayer
                <5>2. plan'[k] = Ready(completed)
                    BY <2>2, <2>3, <4>2
                <5> QED
                    BY <4>2, <5>1, <5>2, LongestChain
            <4> QED
                BY <2>2, <2>3, <4>1, <4>2
        <3> QED
            BY <1>2, <3>1 DEF LayersAreChainLengths
    <2> QED
        BY <1>1, <1>2, <2>1, <2>2, <2>3, <2>4, <2>5, <2>6, <2>7, <2>8 DEF SchedulerInv, TypeOK
<1>4. CASE UNCHANGED vars
    <2>1. UNCHANGED <<tasks, plan, completed, currentLayer>>
        BY <1>4 DEF vars
    <2>2. (Ready(completed))' = Ready(completed)
        BY <1>2, <2>1 DEF Ready
    <2>3. Planned' = Planned
        BY <2>1 DEF Planned
    <2>4. LayersRespectDependencies'
        BY <1>2, <2>1 DEF SchedulerInv, LayersRespectDependencies
    <2>5. LayersAreReady'
        BY <1>2, <2>1 DEF SchedulerInv, LayersAreReady, PlannedBy, Ready
    <2>6. LayersAreChainLengths'
        BY <1>2, <2>1 DEF SchedulerInv, LayersAreChainLengths
    <2> QED
        BY <1>2, <2>1, <2>2, <2>3, <2>4, <2>5, <2>6 DEF SchedulerInv, TypeOK
<1> QED
    BY <1>3, <1>4 DEF Next

LEMMA SchedulerInvHolds == Spec => []SchedulerInv
BY SchedulerInvInit, SchedulerInvStep, PTL DEF Spec

\* The plan is made of nodes of the batch.
THEOREM TypeCorrect == Spec => []TypeOK
<1>1. SchedulerInv => TypeOK
    BY DEF SchedulerInv
<1> QED
    BY <1>1, SchedulerInvHolds, PTL

\* In every batch, all a task waits for lies in earlier layers.
THEOREM LayersAreIndependent == Spec => []LayersRespectDependencies
<1>1. SchedulerInv => LayersRespectDependencies
    BY DEF SchedulerInv
<1> QED
    BY <1>1, SchedulerInvHolds, PTL

\* In every batch, a task's layer is the length of the longest chain of tasks that ends in
\* it, each waiting for the one before: no plan has fewer layers.
THEOREM LayersAreAsFewAsCanBe == Spec => []LayersAreChainLengths
<1>1. SchedulerInv => LayersAreChainLengths
    BY DEF SchedulerInv
<1> QED
    BY <1>1, SchedulerInvHolds, PTL

\* In every batch, the loop ends only when each task has its layer: of the tasks left out,
\* the first in the batch depends on none of the others.
THEOREM PlansAreComplete == Spec => []PlanIsComplete
<1>1. SchedulerInv => PlanIsComplete
    <2> SUFFICES ASSUME SchedulerInv, Done, Planned # Nodes PROVE FALSE
        BY DEF PlanIsComplete, Planned
    <2>1. completed = Planned /\ completed \subseteq Nodes /\ Ready(completed) = {}
        BY DEF SchedulerInv, TypeOK, Done
    <2>2. Nodes \ completed \in SUBSET Nat /\ Nodes \ completed # {}
        <3>1. tasks \in Seq(AgentTask)
            BY DEF SchedulerInv, TypeOK
        <3>2. Len(tasks) \in Nat /\ Nodes \subseteq 1 .. Len(tasks)
            BY <3>1 DEF Nodes
        <3>3. \A i \in 1 .. Len(tasks) : i \in Nat
            BY <3>2
        <3>4. Nodes \ completed # {}
            BY <2>1
        <3> QED
            BY <3>2, <3>3, <3>4
    <2>3. PICK n \in Nodes \ completed : \A m \in Nodes \ completed : ~(m < n)
        BY <2>2, LeastPosition
    <2>4. Dependencies(n) \subseteq completed
        BY <2>3 DEF Dependencies, NodesBefore
    <2> QED
        BY <2>1, <2>3, <2>4 DEF Ready
<1> QED
    BY <1>1, SchedulerInvHolds, PTL
=============================================================================
