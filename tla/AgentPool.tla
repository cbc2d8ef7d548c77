----------------------------- MODULE AgentPool -----------------------------
(***************************************************************************)
(* The agents the parallel executor hands tasks to                         *)
(* (extensions/agent-orchestrator/src/AgentPool.ts), as operators on a     *)
(* pool.  Agents are numbered in the order createAgent makes them, which   *)
(* is the order the Map is walked in; nothing in the repository calls      *)
(* cleanup or reset, so the order never changes.                           *)
(***************************************************************************)
EXTENDS Naturals, FiniteSets, Sequences

CONSTANTS
    MaxAgents,      \* maxAgents (5)
    InitialAgents,  \* the agents initializePool creates (3)
    NoTask          \* currentTask: undefined

ASSUME AgentsAssumption ==
    /\ MaxAgents \in Nat \ {0}
    /\ InitialAgents \in 1..MaxAgents

Agent == 1..MaxAgents

\* an agent that createAgent has not made yet is "absent"
InitialPool ==
    [a \in Agent |-> [status |-> IF a <= InitialAgents THEN "idle" ELSE "absent",
                      currentTask |-> NoTask,
                      tasksCompleted |-> 0]]

\* the agents getIdleAgent would return or create, one after the other
Available(pool) == {a \in Agent : pool[a].status \in {"idle", "absent"}}

TurnNewestFirst(pool, a) == Cardinality({b \in Available(pool) : b >= a})

Turn(pool, a) == Cardinality({b \in Available(pool) : b <= a})

AssignWithoutBusy(agent, t) == [agent EXCEPT !.currentTask = t]

AssignTask(agent, t) == [agent EXCEPT !.status = "busy", !.currentTask = t]

ReleaseKeepsTask(agent) ==
    [agent EXCEPT !.status = "idle", !.tasksCompleted = @ + 1]

ReleaseKeepsBusy(agent) == [agent EXCEPT !.currentTask = NoTask, !.tasksCompleted = @ + 1]

ReleaseAgent(agent) ==
    [agent EXCEPT !.status = "idle", !.currentTask = NoTask, !.tasksCompleted = @ + 1]

MarkAgentError(agent) == [agent EXCEPT !.status = "error", !.currentTask = NoTask]

\* getIdleAgent then assignTask for each of ts in turn: the first idle agent,
\* a new one when none is idle
AssignAll(pool, ts) ==
    [a \in Agent |->
        IF a \in Available(pool) /\ Turn(pool, a) <= Len(ts)
        THEN AssignTask(pool[a], ts[Turn(pool, a)])
        ELSE pool[a]]
=============================================================================
