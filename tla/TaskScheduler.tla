---------------------------- MODULE TaskScheduler ----------------------------
(***************************************************************************)
(* The scheduler that turns a batch of tasks into layers of tasks that may *)
(* run in parallel (extensions/agent-orchestrator/src/TaskScheduler.ts).   *)
(*                                                                         *)
(* A batch is a sequence of tasks.  A node of the dependency graph is      *)
(* named by the position at which its id first appears, which is its place *)
(* in the Map the code keeps the nodes in.                                 *)
(***************************************************************************)
EXTENDS Naturals, Sequences, FiniteSets, SequencesExt, FiniteSetsExt

CONSTANTS
    TaskType,   \* the task types in use, of the names below
    File,       \* the files tasks may name as their active file
    NoFile,     \* activeFile: undefined
    Id,         \* the ids callers may give
    NoId,       \* id: undefined, replaced by a fresh one
    MaxBatch    \* bound: the tasks in a batch

ASSUME BatchAssumption == MaxBatch \in Nat

AgentTask == [id : Id \cup {NoId}, type : TaskType, activeFile : File \cup {NoFile}]

VARIABLES
    tasks,         \* the batch
    plan,          \* the layers so far
    completed,     \* the nodes in them
    currentLayer   \* the nodes of the layer that comes next

vars == <<tasks, plan, completed, currentLayer>>

----------------------------------------------------------------------------
(* The graph. *)

\* the position of the node that entry i of the batch ends up in
NodeOf(i) == Min({j \in 1..i : j = i \/ (tasks[j].id = tasks[i].id /\ tasks[i].id # NoId)})

Nodes == {i \in 1..Len(tasks) : NodeOf(i) = i}

\* of several tasks with one id the last one is kept
TaskOf(n) == tasks[Max({i \in 1..Len(tasks) : NodeOf(i) = n})]

ReadOnly == {"code_review", "documentation"}

SameFile(t, d) ==
    /\ t.activeFile # NoFile
    /\ t.activeFile = d.activeFile
    /\ ~ {t.type, d.type} \subseteq ReadOnly

\* must t wait for d, which comes before it?
HasDependency(t, d) ==
    \/ t.type \in {"test_generation", "documentation"} /\ d.type = "code_generation"
    \/ t.type = "code_review" /\ d.type = "code_refactoring"
    \/ SameFile(t, d)
    \/ t.type # "bug_fix" /\ d.type = "bug_fix"

\* analyzeDependencies: only nodes earlier in the batch are looked at
NodesBefore(n) == {m \in Nodes : m < n}
DependenciesAnywhere(n) == {m \in Nodes \ {n} : HasDependency(TaskOf(n), TaskOf(m))}
Dependencies(n) == {m \in NodesBefore(n) : HasDependency(TaskOf(n), TaskOf(m))}

RootsOfBatch ==
    {n \in 1..Len(tasks) : \A m \in NodesBefore(n) : ~HasDependency(tasks[n], tasks[m])}
Roots == {n \in Nodes : Dependencies(n) = {}}

----------------------------------------------------------------------------
(* The plan. *)

TypeOK ==
    /\ tasks \in Seq(AgentTask)
    /\ plan \in Seq(SUBSET Nodes)
    /\ completed \subseteq Nodes
    /\ currentLayer \subseteq Nodes

Init ==
    /\ \E n \in 0..MaxBatch : tasks \in [1..n -> AgentTask]
    /\ plan = <<>>
    /\ completed = {}
    /\ currentLayer = Roots

\* the nodes that can follow once those of done are complete
SomeReady(done) ==
    {n \in Nodes \ done : Dependencies(n) \cap done # {}}
Ready(done) == {n \in Nodes \ done : Dependencies(n) \subseteq done}

\* one round of the while loop
AddLayer ==
    /\ currentLayer # {}
    /\ plan' = Append(plan, currentLayer)
    /\ completed' = completed \cup currentLayer
    /\ currentLayer' = Ready(completed')
    /\ UNCHANGED tasks

Next == AddLayer

Spec == Init /\ [][Next]_vars

Done == currentLayer = {}

----------------------------------------------------------------------------
(* What must hold. *)

\* A layer is safe to run in parallel: all a task waits for lies in earlier
\* layers, so no two tasks of a layer depend on each other.
LayersRespectDependencies ==
    \A k \in 1..Len(plan) : \A n \in plan[k] :
        Dependencies(n) \subseteq UNION {plan[j] : j \in 1..(k-1)}

\* The loop never stops early: when it does, every task has its layer.  A
\* cycle among the dependencies would leave the tasks on it out in silence.
PlanIsComplete == Done => UNION {plan[k] : k \in 1..Len(plan)} = Nodes

\* the chains of k nodes, each waiting for the one before it, that end in n
ChainsTo(n, k) ==
    {c \in [1..k -> Nodes] : c[k] = n /\ \A i \in 1..(k-1) : c[i] \in Dependencies(c[i+1])}

\* The reference: a task's layer is the length of the longest chain of
\* dependencies that ends in it and no layer is empty, so no plan is shorter.
LayersAreChainLengths ==
    \A k \in 1..Len(plan) :
        /\ plan[k] # {}
        /\ \A n \in plan[k] : ChainsTo(n, k) # {} /\ ChainsTo(n, k + 1) = {}

=============================================================================
