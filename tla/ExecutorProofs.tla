---------------------------- MODULE ExecutorProofs ----------------------------
(***************************************************************************)
(* For any number of agents, tasks and steps, with cancels and failures:   *)
(* no waiting task is forgotten, agents execute the task they claim to,    *)
(* tasks start in order, the pool grows only when nobody is idle, and no   *)
(* task goes back or is left with nothing to wait for.                     *)
(***************************************************************************)
EXTENDS ParallelExecutor, FiniteSetTheorems, TLAPS

AgentRecord == [status : {"absent", "idle", "busy"}, currentTask : Task \cup {NoTask},
                tasksCompleted : Nat]

\* The fields between two synchronous stretches, as an action hands them to processQueue:
\* of the sub tasks submitted the last ones wait in the queue, in order; what has a step or
\* a slot has left the queue; and an agent's current task executes on it.
Consistent(pool, st, sp, ex, q, running, sub) ==
    /\ pool \in [Agent -> AgentRecord]
    /\ st \in [Task -> {"none", "pending", "running"} \cup Ended]
    /\ sp \in [Task -> 0 .. NumSteps]
    /\ ex \in [Task -> 0 .. MaxAgents]
    /\ q \in Seq(Task) /\ running \in SUBSET Task /\ sub \in 0 .. NumTasks
    /\ Len(q) <= sub
    /\ \A i \in 1 .. Len(q) : q[i] = (sub - Len(q)) + i
    /\ \A t \in Task :
         /\ st[t] = "none" <=> sub < t
         /\ st[t] = "pending" <=> sub - Len(q) < t /\ t <= sub
         /\ sp[t] > 0 \/ t \in running => t <= sub - Len(q)
         /\ t \in running => ex[t] # 0
         /\ ex[t] # 0 => pool[ex[t]].status # "absent"
    /\ \A a \in Agent : LET t == pool[a].currentTask IN
         t # NoTask => sp[t] > 0 /\ ex[t] = a /\ t \in running

\* But for those in x, agents and executions go together.
Exclusive(pool, sp, ex, x) ==
    \A a \in Agent \ x :
        /\ pool[a].status = "busy" <=> \E t \in Task : sp[t] > 0 /\ ex[t] = a
        /\ \A t \in Task : sp[t] > 0 /\ ex[t] = a => pool[a].currentTask = t

ExecInv ==
    /\ Consistent(agents, state, step, execAgent, taskQueue, runningTasks, submitted)
    /\ Exclusive(agents, step, execAgent, crossed)
    /\ crossed \in SUBSET Agent
    /\ sleepers \in Nat
    /\ WaitingTasksArePolled

\* An agent is created only when those before it are busy.
GrowsWhenBusy(before, after) ==
    \A a \in Agent : before[a].status = "absent" /\ after[a].status # "absent"
        => \A b \in 1 .. (a - 1) : after[b].status = "busy"

----------------------------------------------------------------------------
\* An agent that is released.
LEMMA ReleaseFrees ==
    ASSUME NEW agent \in [status : {"absent", "idle", "busy", "error"},
                          currentTask : Task \cup {NoTask}, tasksCompleted : Nat]
    PROVE  /\ ReleaseAgent(agent) \in AgentRecord
           /\ ReleaseAgent(agent).status = "idle"
           /\ ReleaseAgent(agent).currentTask = NoTask
<1>1. /\ agent = [status |-> agent.status, currentTask |-> agent.currentTask,
                  tasksCompleted |-> agent.tasksCompleted]
      /\ agent.tasksCompleted \in Nat
    OBVIOUS
<1>2. PICK st \in {"absent", "idle", "busy", "error"}, ct \in Task \cup {NoTask}, n \in Nat :
        agent = [status |-> st, currentTask |-> ct, tasksCompleted |-> n]
    BY <1>1
<1>3. ReleaseAgent(agent) = [status |-> "idle", currentTask |-> NoTask, tasksCompleted |-> n + 1]
    <2>1. ReleaseAgent(agent) = [agent EXCEPT !.status = "idle", !.currentTask = NoTask,
                                              !.tasksCompleted = agent.tasksCompleted + 1]
        BY DEF ReleaseAgent
    <2>2. agent.tasksCompleted = n
        BY <1>2
    <2> QED
        BY <1>2, <2>1, <2>2
<1>4. n + 1 \in Nat
    BY <1>2
<1> QED
    BY <1>3, <1>4 DEF AgentRecord

\* The turns of the available agents number them from one, in the order of the pool.
LEMMA TurnIsBijective ==
    ASSUME NEW pool
    PROVE  /\ Cardinality(Available(pool)) \in Nat
           /\ \A a \in Available(pool) : Turn(pool, a) \in 1 .. Cardinality(Available(pool))
           /\ \A a, b \in Available(pool) : a < b => Turn(pool, a) < Turn(pool, b)
           /\ \A a, b \in Available(pool) : Turn(pool, a) = Turn(pool, b) => a = b
           /\ \A k \in 1 .. Cardinality(Available(pool)) :
                \E a \in Available(pool) : Turn(pool, a) = k
<1> DEFINE V == Available(pool)
           B(a) == {b \in V : b <= a}
           N == Cardinality(V)
           r == [a \in V |-> Turn(pool, a)]
<1>1. V \subseteq Agent /\ \A a \in V : a \in Int
    BY AgentsAssumption DEF Available, Agent
<1>2. IsFiniteSet(V) /\ N \in Nat
    <2>1. IsFiniteSet(Agent)
        BY AgentsAssumption, FS_Interval DEF Agent
    <2> QED
        BY <1>1, <2>1, FS_Subset, FS_CardinalityType
<1>3. \A a \in V : Turn(pool, a) = Cardinality(B(a))
    BY DEF Turn
<1> HIDE DEF V
<1>4. ASSUME NEW a \in V
      PROVE  /\ IsFiniteSet(B(a)) /\ Cardinality(B(a)) \in Nat
             /\ Cardinality(B(a)) <= N /\ Cardinality(B(a)) # 0
    <2>1. B(a) \in SUBSET V /\ a \in B(a)
        BY <1>1
    <2>2. IsFiniteSet(B(a)) /\ Cardinality(B(a)) <= N
        BY <1>2, <2>1, FS_Subset
    <2>3. Cardinality(B(a)) # 0
        BY <2>1, <2>2, FS_EmptySet
    <2> QED
        BY <2>2, <2>3, FS_CardinalityType
<1>5. ASSUME NEW a \in V, NEW b \in V, a < b
      PROVE  Turn(pool, a) < Turn(pool, b)
    <2>1. B(a) \in SUBSET B(b) /\ B(a) # B(b)
        <3>1. b \in B(b) /\ b \notin B(a)
            BY <1>1, <1>5
        <3>2. \A c \in V : c <= a => c <= b
            BY <1>1, <1>5
        <3> QED
            BY <3>1, <3>2
    <2>2. Cardinality(B(a)) <= Cardinality(B(b)) /\ Cardinality(B(a)) # Cardinality(B(b))
        BY <1>4, <2>1, FS_Subset
    <2> QED
        <3> HIDE DEF B
        <3> QED
            BY <1>3, <1>4, <2>2
<1>6. \A a \in V : Turn(pool, a) \in 1 .. N
    <2> HIDE DEF B, N
    <2> QED
        BY <1>2, <1>3, <1>4
<1>7. ASSUME NEW a \in V, NEW b \in V, Turn(pool, a) = Turn(pool, b) PROVE a = b
    <2>1. a < b \/ b < a \/ a = b
        BY <1>1
    <2>2. Turn(pool, a) \in Int /\ Turn(pool, b) \in Int
        BY <1>6
    <2> QED
        BY <1>5, <1>7, <2>1, <2>2
<1>8. r \in Injection(V, 1 .. N)
    <2>1. r \in [V -> 1 .. N] /\ \A a, b \in V : r[a] = r[b] => a = b
        BY <1>6, <1>7
    <2> HIDE DEF r, N
    <2> QED
        BY <2>1 DEF Injection, IsInjective
<1>9. r \in Surjection(V, 1 .. N)
    <2>1. IsFiniteSet(1 .. N) /\ Cardinality(1 .. N) = N
        <3> HIDE DEF N
        <3>1. IsFiniteSet(1 .. N) /\ Cardinality(1 .. N) = IF 1 > N THEN 0 ELSE N - 1 + 1
            BY <1>2, FS_Interval
        <3> QED
            BY <1>2, <3>1
    <2> HIDE DEF r
    <2> QED
        BY <1>8, <2>1, FS_Injection
<1>10. \A k \in 1 .. N : \E a \in V : Turn(pool, a) = k
    BY <1>9 DEF Surjection
<1> QED
    BY <1>2, <1>5, <1>6, <1>7, <1>10 DEF V

\* What one stretch of processQueue does, in terms of the k tasks it starts.
StartsTasks(k, pool, st, sp, q, running, n, sub) ==
    LET base == sub - Len(q)
        S == {t \in Task : base < t /\ t <= base + k}
        A == {a \in Available(pool) : Turn(pool, a) <= k}
    IN
    /\ k <= Len(q)
    /\ taskQueue' \in Seq(Task) /\ Len(taskQueue') = Len(q) - k
    /\ \A i \in 1 .. Len(taskQueue') : taskQueue'[i] = base + k + i
    /\ runningTasks' = running \cup S
    /\ state' = [t \in Task |-> IF t \in S THEN "running" ELSE st[t]]
    /\ step' = [t \in Task |-> IF t \in S THEN 1 ELSE sp[t]]
    /\ execAgent' \in [Task -> 0 .. MaxAgents]
    /\ \A t \in Task \ S : execAgent'[t] = execAgent[t]
    /\ \A t \in S : /\ execAgent'[t] \in A
                    /\ agents'[execAgent'[t]].currentTask = t
    /\ DOMAIN agents' = Agent
    /\ \A a \in Agent \ A : agents'[a] = pool[a]
    /\ \A a \in A : /\ agents'[a].currentTask \in S
                    /\ agents'[a] = AssignTask(pool[a], agents'[a].currentTask)
                    /\ execAgent'[agents'[a].currentTask] = a
    /\ sleepers' = IF k < Len(q) THEN n + 1 ELSE n

LEMMA ProcessQueueSteps ==
    ASSUME NEW pool, NEW st, NEW sp, NEW q, NEW running, NEW n \in Nat, NEW sub,
           Consistent(pool, st, sp, execAgent, q, running, sub),
           ProcessQueue(pool, st, sp, q, running, n)
    PROVE  \E k \in Nat : StartsTasks(k, pool, st, sp, q, running, n, sub)
<1> DEFINE N == Cardinality(Available(pool))
           k == IF Len(q) <= N THEN Len(q) ELSE N
           started == SubSeq(q, 1, k)
           base == sub - Len(q)
           S == {t \in Task : base < t /\ t <= base + k}
           A == {a \in Available(pool) : Turn(pool, a) <= k}
<1>1. /\ agents' = AssignAll(pool, started)
      /\ taskQueue' = SubSeq(q, k + 1, Len(q))
      /\ runningTasks' = running \cup ToSet(started)
      /\ state' = [t \in Task |-> IF t \in ToSet(started) THEN "running" ELSE st[t]]
      /\ step' = [t \in Task |-> IF t \in ToSet(started) THEN 1 ELSE sp[t]]
      /\ execAgent' = [t \in Task |-> IF t \in ToSet(started)
                          THEN CHOOSE a \in Available(pool) :
                                 /\ Turn(pool, a) <= k
                                 /\ started[Turn(pool, a)] = t
                          ELSE execAgent[t]]
      /\ sleepers' = IF k < Len(q) THEN n + 1 ELSE n
    BY DEF ProcessQueue, PutBackFirst, SleepsIfAnyIsLeft
<1>2. /\ q \in Seq(Task) /\ Len(q) \in Nat /\ sub \in Nat /\ Len(q) <= sub /\ sub <= NumTasks
      /\ \A i \in 1 .. Len(q) : q[i] = base + i
      /\ pool \in [Agent -> AgentRecord] /\ execAgent \in [Task -> 0 .. MaxAgents]
      /\ NumTasks \in Nat /\ MaxAgents \in Nat
    BY AgentsAssumption, ExecutorAssumption DEF Consistent
<1>3. /\ N \in Nat
      /\ \A a \in Available(pool) : Turn(pool, a) \in 1 .. N
      /\ \A a, b \in Available(pool) : Turn(pool, a) = Turn(pool, b) => a = b
      /\ \A j \in 1 .. N : \E a \in Available(pool) : Turn(pool, a) = j
    BY TurnIsBijective
<1>4. Available(pool) \subseteq Agent /\ Agent = 1 .. MaxAgents
    BY DEF Available, Agent
<1> HIDE DEF N
<1>5. k \in Nat /\ k <= Len(q) /\ k <= N
    BY <1>2, <1>3
<1> HIDE DEF k
<1>a. base \in Nat /\ base + k <= NumTasks
    BY <1>2, <1>5
<1> HIDE DEF base
<1>6. /\ Len(started) = k /\ DOMAIN started = 1 .. k
      /\ \A i \in 1 .. k : started[i] = base + i
    BY <1>2, <1>5
<1>7. ToSet(started) = S
    <2>1. ASSUME NEW t \in ToSet(started) PROVE t \in S
        <3>1. PICK i \in 1 .. k : t = base + i
            BY <1>6 DEF ToSet
        <3>2. k \in Nat /\ NumTasks \in Nat
            BY <1>2, <1>5
        <3>3. base < t /\ t <= base + k /\ t \in 1 .. NumTasks
            BY <1>a, <3>1, <3>2
        <3> QED
            BY <3>3 DEF Task
    <2>2. ASSUME NEW t \in S PROVE t \in ToSet(started)
        <3>1. t \in Nat /\ base < t /\ t <= base + k /\ k \in Nat
            BY <1>5, ExecutorAssumption DEF Task
        <3>2. t - base \in 1 .. k /\ base + (t - base) = t
            BY <1>a, <3>1
        <3>3. started[t - base] = t
            BY <1>6, <3>2
        <3> QED
            BY <1>6, <3>2, <3>3 DEF ToSet
    <2> QED
        BY <2>1, <2>2
<1>8. /\ taskQueue' \in Seq(Task) /\ Len(taskQueue') = Len(q) - k
      /\ \A i \in 1 .. Len(taskQueue') : taskQueue'[i] = base + k + i
    <2>1. taskQueue' = SubSeq(q, k + 1, Len(q))
        BY <1>1
    <2>2. taskQueue' \in Seq(Task) /\ Len(taskQueue') = Len(q) - k
        BY <1>2, <1>5, <2>1
    <2>3. ASSUME NEW i \in 1 .. Len(taskQueue') PROVE taskQueue'[i] = base + k + i
        <3>1. taskQueue'[i] = q[k + i] /\ k + i \in 1 .. Len(q)
            BY <1>2, <1>5, <2>1, <2>2
        <3>2. q[k + i] = base + (k + i)
            BY <1>2, <3>1
        <3> QED
            BY <1>2, <1>5, <1>a, <2>2, <3>1, <3>2
    <2> QED
        BY <2>2, <2>3
<1>9. ASSUME NEW t \in S
      PROVE  /\ execAgent'[t] \in A /\ started[Turn(pool, execAgent'[t])] = t
             /\ \A a \in A : started[Turn(pool, a)] = t => execAgent'[t] = a
    <2>1. t \in ToSet(started) /\ t \in Task
        BY <1>7
    <2>2. PICK i \in 1 .. k : started[i] = t
        BY <1>6, <2>1 DEF ToSet
    <2>3. PICK a \in Available(pool) : Turn(pool, a) = i
        BY <1>3, <1>5, <2>2
    <2>4. execAgent'[t] = CHOOSE b \in Available(pool) :
                             Turn(pool, b) <= k /\ started[Turn(pool, b)] = t
        BY <1>1, <2>1
    <2>5. Turn(pool, a) <= k /\ started[Turn(pool, a)] = t
        BY <1>5, <2>2, <2>3
    <2>6. /\ execAgent'[t] \in Available(pool)
          /\ Turn(pool, execAgent'[t]) <= k /\ started[Turn(pool, execAgent'[t])] = t
        BY <2>3, <2>4, <2>5
    <2>7. ASSUME NEW b \in A, started[Turn(pool, b)] = t PROVE execAgent'[t] = b
        <3>1. /\ Turn(pool, b) \in 1 .. k /\ Turn(pool, execAgent'[t]) \in 1 .. k
            BY <1>3, <1>5, <2>6
        <3>2. Turn(pool, b) = Turn(pool, execAgent'[t])
            <4>1. /\ base + Turn(pool, b) = t
                  /\ base + Turn(pool, execAgent'[t]) = t
                BY <1>6, <2>6, <2>7, <3>1
            <4> QED
                BY <1>a, <3>1, <4>1
        <3> QED
            BY <1>3, <2>6, <3>2
    <2> QED
        BY <2>6, <2>7
<1>10. ASSUME NEW a \in A
       PROVE  /\ agents'[a] = AssignTask(pool[a], started[Turn(pool, a)])
              /\ agents'[a].currentTask = started[Turn(pool, a)]
              /\ started[Turn(pool, a)] \in S
    <2>1. a \in Agent /\ Turn(pool, a) \in 1 .. k
        BY <1>3, <1>4, <1>5
    <2>2. agents'[a] = AssignTask(pool[a], started[Turn(pool, a)])
        BY <1>1, <1>6, <2>1 DEF AssignAll
    <2>3. pool[a] \in AgentRecord
        BY <1>2, <2>1
    <2>4. agents'[a].currentTask = started[Turn(pool, a)]
        BY <2>2, <2>3 DEF AssignTask, AgentRecord
    <2>5. started[Turn(pool, a)] \in ToSet(started)
        BY <1>6, <2>1 DEF ToSet
    <2> QED
        BY <1>7, <2>2, <2>4, <2>5
<1>11. \A a \in Agent \ A : agents'[a] = pool[a]
    BY <1>1, <1>6 DEF AssignAll
<1>12. DOMAIN agents' = Agent
    BY <1>1 DEF AssignAll
<1>13. \A t \in Task \ S : execAgent'[t] = execAgent[t]
    BY <1>1, <1>7
<1>14. execAgent' \in [Task -> 0 .. MaxAgents]
    <2> DEFINE ex(t) == IF t \in ToSet(started)
                        THEN CHOOSE a \in Available(pool) :
                               Turn(pool, a) <= k /\ started[Turn(pool, a)] = t
                        ELSE execAgent[t]
    <2>1. \A t \in Task : execAgent'[t] \in 0 .. MaxAgents
        BY <1>2, <1>4, <1>9, <1>13
    <2>2. execAgent' = [t \in Task |-> ex(t)]
        BY <1>1
    <2> HIDE DEF ex
    <2> QED
        BY <2>1, <2>2
<1>15. /\ runningTasks' = running \cup S
       /\ state' = [t \in Task |-> IF t \in S THEN "running" ELSE st[t]]
       /\ step' = [t \in Task |-> IF t \in S THEN 1 ELSE sp[t]]
       /\ sleepers' = IF k < Len(q) THEN n + 1 ELSE n
    BY <1>1, <1>7
<1>16. \A t \in S : agents'[execAgent'[t]].currentTask = t
    BY <1>9, <1>10
<1>17. \A a \in A : /\ agents'[a].currentTask \in S
                    /\ agents'[a] = AssignTask(pool[a], agents'[a].currentTask)
                    /\ execAgent'[agents'[a].currentTask] = a
    BY <1>9, <1>10
<1> HIDE DEF started
<1> USE DEF base
<1>18. StartsTasks(k, pool, st, sp, q, running, n, sub)
    BY <1>5, <1>8, <1>9, <1>11, <1>12, <1>13, <1>14, <1>15, <1>16, <1>17 DEF StartsTasks
<1> QED
    BY <1>5, <1>18

\* A stretch of processQueue keeps the fields consistent, and leaves a loop asleep if it
\* leaves a task waiting.
LEMMA ProcessQueueKeeps ==
    ASSUME NEW pool, NEW st, NEW sp, NEW q, NEW running, NEW n \in Nat, NEW sub,
           NEW x \in SUBSET Agent,
           Consistent(pool, st, sp, execAgent, q, running, sub),
           Exclusive(pool, sp, execAgent, x),
           ProcessQueue(pool, st, sp, q, running, n), submitted' = sub, crossed' = x
    PROVE  ExecInv' /\ GrowsWhenBusy(pool, agents')
<1>1. PICK k \in Nat : StartsTasks(k, pool, st, sp, q, running, n, sub)
    BY ProcessQueueSteps
<1> DEFINE base == sub - Len(q)
           S == {t \in Task : base < t /\ t <= base + k}
           A == {a \in Available(pool) : Turn(pool, a) <= k}
<1>2. /\ k <= Len(q)
      /\ taskQueue' \in Seq(Task) /\ Len(taskQueue') = Len(q) - k
      /\ \A i \in 1 .. Len(taskQueue') : taskQueue'[i] = base + k + i
      /\ sleepers' = IF k < Len(q) THEN n + 1 ELSE n
    BY <1>1 DEF StartsTasks
<1>3. /\ runningTasks' = running \cup S
      /\ state' = [t \in Task |-> IF t \in S THEN "running" ELSE st[t]]
      /\ step' = [t \in Task |-> IF t \in S THEN 1 ELSE sp[t]]
    BY <1>1 DEF StartsTasks
<1>4. /\ execAgent' \in [Task -> 0 .. MaxAgents]
      /\ \A t \in Task \ S : execAgent'[t] = execAgent[t]
      /\ \A t \in S : execAgent'[t] \in A /\ agents'[execAgent'[t]].currentTask = t
    BY <1>1 DEF StartsTasks
<1>5. /\ DOMAIN agents' = Agent
      /\ \A a \in Agent \ A : agents'[a] = pool[a]
      /\ \A a \in A : /\ agents'[a].currentTask \in S
                      /\ agents'[a] = AssignTask(pool[a], agents'[a].currentTask)
                      /\ execAgent'[agents'[a].currentTask] = a
    BY <1>1 DEF StartsTasks
<1>6. /\ q \in Seq(Task) /\ Len(q) \in Nat /\ sub \in Nat /\ sub \in 0 .. NumTasks
      /\ base \in Nat /\ sub = base + Len(q) /\ base + k <= sub
      /\ pool \in [Agent -> AgentRecord] /\ execAgent \in [Task -> 0 .. MaxAgents]
      /\ st \in [Task -> {"none", "pending", "running"} \cup Ended]
      /\ sp \in [Task -> 0 .. NumSteps] /\ running \in SUBSET Task
      /\ \A t \in Task :
           /\ st[t] = "none" <=> sub < t
           /\ st[t] = "pending" <=> base < t /\ t <= sub
           /\ sp[t] > 0 \/ t \in running => t <= base
           /\ t \in running => execAgent[t] # 0
           /\ execAgent[t] # 0 => pool[execAgent[t]].status # "absent"
      /\ \A a \in Agent : LET t == pool[a].currentTask IN
           t # NoTask => sp[t] > 0 /\ execAgent[t] = a /\ t \in running
    <2>1. q \in Seq(Task) /\ sub \in 0 .. NumTasks /\ Len(q) <= sub
        BY DEF Consistent
    <2>2. Len(q) \in Nat /\ sub \in Nat /\ base \in Nat /\ sub = base + Len(q) /\ base + k <= sub
        BY <1>2, <2>1, ExecutorAssumption
    <2> QED
        BY <2>1, <2>2 DEF Consistent
<1>7. \A t \in Task : t \in Nat
    BY ExecutorAssumption DEF Task
<1>8. Agent = 1 .. MaxAgents /\ MaxAgents \in Nat /\ A \subseteq Agent /\ 0 \notin Agent
    BY AgentsAssumption DEF Agent, Available
<1>9. \A a \in A : pool[a].status \in {"idle", "absent"}
    BY DEF Available
<1>10. base - 0 = base /\ submitted' - Len(taskQueue') = base + k
    BY <1>2, <1>6
<1> HIDE DEF base, A
<1>11. \A t \in S : t \in Task /\ base < t /\ t <= base + k
    OBVIOUS
<1>b. /\ base \in Nat /\ \A t \in Task : t \in Nat
      /\ \A t \in Task : sp[t] > 0 \/ t \in running => t <= base
    BY <1>6, <1>7
<1>12. \A t \in Task \ S : t <= base \/ base + k < t
    <2> SUFFICES ASSUME NEW t \in Task, t \notin S PROVE t <= base \/ base + k < t
        OBVIOUS
    <2>1. ~(base < t /\ t <= base + k) /\ t \in Nat
        BY <1>b
    <2> QED
        BY <1>b, <2>1
<1>13. \A t \in Task : sp[t] > 0 \/ t \in running => t \notin S
    <2> SUFFICES ASSUME NEW t \in Task, sp[t] > 0 \/ t \in running PROVE t \notin S
        OBVIOUS
    <2>1. t \in Nat /\ t <= base
        BY <1>b
    <2> QED
        BY <1>b, <2>1
<1> HIDE DEF S
<1>14. \A a \in A : /\ agents'[a] \in AgentRecord /\ agents'[a].status = "busy"
                    /\ agents'[a].currentTask \in Task
    <2> SUFFICES ASSUME NEW a \in A
                 PROVE  /\ agents'[a] \in AgentRecord /\ agents'[a].status = "busy"
                        /\ agents'[a].currentTask \in Task
        OBVIOUS
    <2>1. PICK t \in Task : t = agents'[a].currentTask
        BY <1>5, <1>11
    <2>2. agents'[a] = AssignTask(pool[a], t) /\ pool[a] \in AgentRecord
        BY <1>5, <1>6, <1>8, <2>1
    <2> QED
        BY <2>1, <2>2 DEF AssignTask, AgentRecord
<1>15. agents' \in [Agent -> AgentRecord]
    <2>1. \A a \in Agent : agents'[a] \in AgentRecord
        BY <1>5, <1>6, <1>14
    <2>2. agents' = [a \in Agent |-> agents'[a]]
        BY DEF ProcessQueue, AssignAll
    <2> QED
        BY <2>1, <2>2
<1>16. /\ state' \in [Task -> {"none", "pending", "running"} \cup Ended]
       /\ step' \in [Task -> 0 .. NumSteps] /\ runningTasks' \in SUBSET Task
    <2>1. 1 \in 0 .. NumSteps
        BY ExecutorAssumption
    <2> QED
        BY <1>3, <1>6, <1>11, <2>1
<1>17. ASSUME NEW t \in Task
       PROVE  /\ state'[t] = "none" <=> sub < t
              /\ state'[t] = "pending" <=> base + k < t /\ t <= sub
              /\ step'[t] > 0 \/ t \in runningTasks' => t <= base + k
              /\ t \in runningTasks' => execAgent'[t] # 0
              /\ execAgent'[t] # 0 => agents'[execAgent'[t]].status # "absent"
    <2>1. CASE t \in S
        <3>1. /\ state'[t] = "running" /\ base < t /\ t <= base + k
              /\ execAgent'[t] \in A /\ execAgent'[t] # 0
            BY <1>3, <1>4, <1>8, <1>11, <2>1
        <3>2. agents'[execAgent'[t]].status # "absent"
            BY <1>14, <3>1
        <3>3. t \in Nat /\ k \in Nat /\ t <= sub
            BY <1>6, <1>7, <3>1
        <3> QED
            BY <1>6, <3>1, <3>2, <3>3
    <2>2. CASE t \notin S
        <3>1. /\ state'[t] = st[t] /\ step'[t] = sp[t] /\ execAgent'[t] = execAgent[t]
              /\ t \in runningTasks' <=> t \in running
            BY <1>3, <1>4, <2>2
        <3>2. (t <= base \/ base + k < t) /\ t \in Nat
            BY <1>7, <1>12, <2>2
        <3>3. ASSUME execAgent[t] # 0 PROVE agents'[execAgent[t]].status # "absent"
            <4>1. execAgent[t] \in Agent /\ pool[execAgent[t]].status # "absent"
                BY <1>6, <1>8, <3>3
            <4> QED
                BY <1>5, <1>14, <4>1
        <3> QED
            BY <1>6, <3>1, <3>2, <3>3
    <2> QED
        BY <2>1, <2>2
<1>18. ASSUME NEW a \in Agent, agents'[a].currentTask # NoTask
       PROVE  LET t == agents'[a].currentTask IN
              step'[t] > 0 /\ execAgent'[t] = a /\ t \in runningTasks'
    <2>1. PICK t : t = agents'[a].currentTask
        OBVIOUS
    <2>2. CASE a \in A
        <3>1. t \in S /\ t \in Task /\ execAgent'[t] = a
            BY <1>5, <1>11, <2>1, <2>2
        <3> QED
            BY <1>3, <2>1, <3>1
    <2>3. CASE a \notin A
        <3>1. t = pool[a].currentTask /\ t # NoTask /\ t \in Task
            BY <1>5, <1>6, <1>18, <2>1, <2>3 DEF AgentRecord
        <3>2. sp[t] > 0 /\ execAgent[t] = a /\ t \in running /\ t \notin S
            BY <1>6, <1>13, <3>1
        <3> QED
            BY <1>3, <1>4, <2>1, <3>1, <3>2
    <2> QED
        BY <2>2, <2>3
<1>19. Consistent(agents', state', step', execAgent', taskQueue', runningTasks', submitted')
    <2>1. Len(taskQueue') <= sub /\ sub - Len(taskQueue') = base + k /\ submitted' = sub
        BY <1>2, <1>6
    <2>2. /\ taskQueue' \in Seq(Task) /\ submitted' \in 0 .. NumTasks
          /\ execAgent' \in [Task -> 0 .. MaxAgents]
        BY <1>2, <1>4, <1>6, <2>1
    <2>3. \A i \in 1 .. Len(taskQueue') : taskQueue'[i] = (submitted' - Len(taskQueue')) + i
        BY <1>2, <2>1
    <2>4. \A t \in Task :
            /\ state'[t] = "none" <=> submitted' < t
            /\ state'[t] = "pending" <=> submitted' - Len(taskQueue') < t /\ t <= submitted'
            /\ step'[t] > 0 \/ t \in runningTasks' => t <= submitted' - Len(taskQueue')
            /\ t \in runningTasks' => execAgent'[t] # 0
            /\ execAgent'[t] # 0 => agents'[execAgent'[t]].status # "absent"
        BY <1>17, <2>1, Zenon
    <2>5. \A a \in Agent : LET t == agents'[a].currentTask IN
            t # NoTask => step'[t] > 0 /\ execAgent'[t] = a /\ t \in runningTasks'
        BY <1>18
    <2> QED
        BY <1>15, <1>16, <2>1, <2>2, <2>3, <2>4, <2>5, Zenon DEF Consistent
<1>20. Exclusive(agents', step', execAgent', crossed')
    <2> SUFFICES ASSUME NEW a \in Agent \ x
                 PROVE  /\ agents'[a].status = "busy"
                           <=> \E t \in Task : step'[t] > 0 /\ execAgent'[t] = a
                        /\ \A t \in Task : step'[t] > 0 /\ execAgent'[t] = a
                             => agents'[a].currentTask = t
        BY DEF Exclusive
    <2>2. /\ pool[a].status = "busy" <=> \E t \in Task : sp[t] > 0 /\ execAgent[t] = a
          /\ \A t \in Task : sp[t] > 0 /\ execAgent[t] = a => pool[a].currentTask = t
        BY DEF Exclusive
    <2>3. CASE a \in A
        <3>1. \A t \in Task : ~(sp[t] > 0 /\ execAgent[t] = a)
            BY <1>9, <2>2, <2>3
        <3>2. ASSUME NEW t \in Task, step'[t] > 0, execAgent'[t] = a
              PROVE  agents'[a].currentTask = t
            <4>1. t \in S
                BY <1>3, <1>4, <3>1, <3>2
            <4> QED
                BY <1>4, <3>2, <4>1
        <3>3. \E t \in Task : step'[t] > 0 /\ execAgent'[t] = a
            BY <1>5, <1>11, <1>3, <2>3
        <3> QED
            BY <1>14, <2>3, <3>2, <3>3
    <2>4. CASE a \notin A
        <3>1. \A t \in S : execAgent'[t] # a
            BY <1>4, <2>4
        <3>2. \A t \in Task \ S : step'[t] = sp[t] /\ execAgent'[t] = execAgent[t]
            BY <1>3, <1>4
        <3>3. \A t \in Task : step'[t] > 0 /\ execAgent'[t] = a
                              <=> sp[t] > 0 /\ execAgent[t] = a
            BY <1>13, <3>1, <3>2
        <3> QED
            BY <1>5, <2>2, <2>4, <3>3
    <2> QED
        BY <2>3, <2>4
<1>21. sleepers' \in Nat /\ WaitingTasksArePolled'
    <2>1. taskQueue' # <<>> => Len(taskQueue') # 0
        BY <1>2
    <2> QED
        BY <1>2, <1>6, <2>1 DEF WaitingTasksArePolled
<1>22. GrowsWhenBusy(pool, agents')
    <2> SUFFICES ASSUME NEW a \in Agent, pool[a].status = "absent",
                        agents'[a].status # "absent", NEW b \in 1 .. (a - 1)
                 PROVE  agents'[b].status = "busy"
        BY DEF GrowsWhenBusy
    <2>1. a \in A
        BY <1>5
    <2>2. b \in Agent /\ b < a
        BY <1>8
    <2>3. CASE b \in Available(pool)
        <3>1. Turn(pool, b) < Turn(pool, a) /\ Turn(pool, a) <= k
            BY <2>1, <2>2, <2>3, TurnIsBijective DEF A
        <3>2. Turn(pool, a) \in Int /\ Turn(pool, b) \in Int
            <4>1. a \in Available(pool) /\ Cardinality(Available(pool)) \in Nat
                BY <2>1, TurnIsBijective DEF A
            <4>2. \A c \in Available(pool) : Turn(pool, c) \in 1 .. Cardinality(Available(pool))
                BY TurnIsBijective
            <4> QED
                BY <2>3, <4>1, <4>2
        <3>3. b \in A
            BY <2>3, <3>1, <3>2 DEF A
        <3> QED
            BY <1>14, <3>3
    <2>4. CASE b \notin Available(pool)
        <3>1. pool[b].status = "busy"
            BY <1>6, <2>2, <2>4 DEF Available, AgentRecord
        <3>2. b \notin A
            BY <2>4 DEF A
        <3> QED
            BY <1>5, <2>2, <3>1, <3>2
    <2> QED
        BY <2>3, <2>4
<1> QED
    BY <1>19, <1>20, <1>21, <1>22 DEF ExecInv

----------------------------------------------------------------------------
\* The invariant of the executor, one lemma per action.

LEMMA ExecInvInit == Init => ExecInv
<1> SUFFICES ASSUME Init PROVE ExecInv
    OBVIOUS
<1>1. /\ NumTasks \in Nat /\ 0 \in 0 .. NumSteps /\ 0 \in 0 .. MaxAgents /\ 0 \in 0 .. NumTasks
      /\ \A t \in Task : t \in Nat /\ 0 < t
    BY ExecutorAssumption, AgentsAssumption DEF Task
<1>2. agents \in [Agent -> AgentRecord]
      /\ \A a \in Agent : agents[a].currentTask = NoTask /\ agents[a].status # "busy"
    BY DEF Init, InitialPool, AgentRecord
<1>3. taskQueue \in Seq(Task) /\ Len(taskQueue) = 0
    BY DEF Init
<1>4. Consistent(agents, state, step, execAgent, taskQueue, runningTasks, submitted)
    <2>1. \A t \in Task : state[t] = "none" /\ step[t] = 0 /\ t \notin runningTasks /\ execAgent[t] = 0
        BY DEF Init
    <2>2. /\ state \in [Task -> {"none", "pending", "running"} \cup Ended]
          /\ step \in [Task -> 0 .. NumSteps] /\ execAgent \in [Task -> 0 .. MaxAgents]
          /\ runningTasks \in SUBSET Task /\ submitted = 0
        BY <1>1 DEF Init
    <2> QED
        BY <1>1, <1>2, <1>3, <2>1, <2>2 DEF Consistent
<1>5. Exclusive(agents, step, execAgent, crossed)
    BY <1>2 DEF Init, Exclusive
<1> QED
    BY <1>4, <1>5 DEF Init, ExecInv, WaitingTasksArePolled

\* The tasks a batch of n brings, and the states with them waiting.
BatchOf(n) == [i \in 1 .. n |-> submitted + i]
WithWaiting(n) == [t \in Task |-> IF t \in ToSet(BatchOf(n)) THEN "pending" ELSE state[t]]

\* A batch that has joined the queue leaves it consistent.
LEMMA BatchIsConsistent ==
    ASSUME ExecInv, NEW n \in 1 .. MaxBatch, SubmitBatch(n)
    PROVE  /\ Consistent(agents, WithWaiting(n), step, execAgent, taskQueue \o BatchOf(n),
                         runningTasks, submitted + n)
           /\ Exclusive(agents, step, execAgent, crossed) /\ crossed \in SUBSET Agent
           /\ ProcessQueue(agents, WithWaiting(n), step, taskQueue \o BatchOf(n),
                           runningTasks, sleepers)
           /\ submitted' = submitted + n /\ crossed' = crossed /\ sleepers \in Nat
           /\ \A t \in Task : \/ WithWaiting(n)[t] = state[t]
                              \/ state[t] = "none" /\ WithWaiting(n)[t] = "pending"
<1> DEFINE batch == [i \in 1 .. n |-> submitted + i]
           st == [t \in Task |-> IF t \in ToSet(batch) THEN "pending" ELSE state[t]]
           q == taskQueue \o batch
           sub == submitted + n
<1>1. /\ sub <= NumTasks /\ submitted' = sub /\ crossed' = crossed
      /\ ProcessQueue(agents, st, step, q, runningTasks, sleepers)
    BY DEF SubmitBatch
<1>2. /\ Consistent(agents, state, step, execAgent, taskQueue, runningTasks, submitted)
      /\ Exclusive(agents, step, execAgent, crossed) /\ crossed \in SUBSET Agent
      /\ sleepers \in Nat
    BY DEF ExecInv
<1>3. /\ n \in Nat /\ 1 <= n /\ submitted \in Nat /\ NumTasks \in Nat
      /\ taskQueue \in Seq(Task) /\ Len(taskQueue) \in Nat /\ Len(taskQueue) <= submitted
      /\ \A i \in 1 .. Len(taskQueue) : taskQueue[i] = (submitted - Len(taskQueue)) + i
      /\ \A t \in Task : t \in Nat
    BY <1>2, ExecutorAssumption DEF Consistent, Task
<1>4. batch \in Seq(Task) /\ Len(batch) = n /\ \A i \in 1 .. n : batch[i] = submitted + i
    <2>1. \A i \in 1 .. n : submitted + i \in Task
        BY <1>1, <1>3 DEF Task
    <2> QED
        BY <1>3, <2>1
<1>5. \A t \in Task : t \in ToSet(batch) <=> submitted < t /\ t <= sub
    <2>1. ToSet(batch) = {batch[i] : i \in 1 .. n}
        BY <1>4 DEF ToSet
    <2>2. ASSUME NEW t \in Task, submitted < t, t <= sub PROVE t \in ToSet(batch)
        <3>1. t - submitted \in 1 .. n /\ batch[t - submitted] = t
            BY <1>3, <2>2
        <3> QED
            BY <2>1, <3>1
    <2>3. ASSUME NEW t \in ToSet(batch) PROVE submitted < t /\ t <= sub
        BY <1>3, <1>4, <2>1, <2>3
    <2> QED
        BY <2>2, <2>3
<1> HIDE DEF batch
<1>6. /\ q \in Seq(Task) /\ Len(q) = Len(taskQueue) + n
      /\ \A i \in 1 .. Len(q) : q[i] = (sub - Len(q)) + i
    <2>1. q \in Seq(Task) /\ Len(q) = Len(taskQueue) + n
        <3>1. \A s1, s2 \in Seq(Task) : s1 \o s2 \in Seq(Task) /\ Len(s1 \o s2) = Len(s1) + Len(s2)
            OBVIOUS
        <3> QED
            BY <1>3, <1>4, <3>1
    <2>2. ASSUME NEW i \in 1 .. Len(q) PROVE q[i] = (sub - Len(q)) + i
        <3>1. CASE i \in 1 .. Len(taskQueue)
            BY <1>3, <1>4, <2>1, <3>1
        <3>2. CASE i \notin 1 .. Len(taskQueue)
            <4>1. q[i] = batch[i - Len(taskQueue)] /\ i - Len(taskQueue) \in 1 .. n
                BY <1>3, <1>4, <2>1, <3>2
            <4> QED
                BY <1>3, <1>4, <2>1, <4>1
        <3> QED
            BY <3>1, <3>2
    <2> QED
        BY <2>1, <2>2
<1>7. /\ sub - Len(q) = submitted - Len(taskQueue) /\ sub \in 0 .. NumTasks /\ Len(q) <= sub
    BY <1>1, <1>3, <1>6
<1>8. /\ st \in [Task -> {"none", "pending", "running"} \cup Ended]
      /\ \A t \in Task : /\ st[t] = "none" <=> sub < t
                         /\ st[t] = "pending" <=> sub - Len(q) < t /\ t <= sub
    <2>1. ASSUME NEW t \in Task
          PROVE  /\ st[t] = "none" <=> sub < t
                 /\ st[t] = "pending" <=> sub - Len(q) < t /\ t <= sub
        <3>1. /\ state[t] = "none" <=> submitted < t
              /\ state[t] = "pending" <=> submitted - Len(taskQueue) < t /\ t <= submitted
            BY <1>2 DEF Consistent
        <3>2. CASE t \in ToSet(batch)
            <4>1. st[t] = "pending" /\ submitted < t /\ t <= sub
                BY <1>5, <3>2
            <4> QED
                BY <1>3, <1>7, <4>1
        <3>3. CASE t \notin ToSet(batch)
            <4>1. st[t] = state[t] /\ (t <= submitted \/ sub < t)
                BY <1>3, <1>5, <3>3
            <4> QED
                BY <1>3, <1>7, <3>1, <4>1
        <3> QED
            BY <3>2, <3>3
    <2> QED
        BY <1>2, <2>1 DEF Consistent
<1> HIDE DEF q, sub
<1>9. Consistent(agents, st, step, execAgent, q, runningTasks, sub)
    <2> HIDE DEF st
    <2>1. \A t \in Task : /\ step[t] > 0 \/ t \in runningTasks => t <= sub - Len(q)
                          /\ t \in runningTasks => execAgent[t] # 0
        BY <1>2, <1>7 DEF Consistent
    <2> QED
        BY <1>2, <1>6, <1>7, <1>8, <2>1 DEF Consistent
<1>11. \A t \in Task : st[t] = state[t] \/ (state[t] = "none" /\ st[t] = "pending")
    <2>1. \A t \in Task : submitted < t => state[t] = "none"
        BY <1>2 DEF Consistent
    <2> QED
        BY <1>5, <2>1
<1> QED
    BY <1>1, <1>2, <1>9, <1>11 DEF BatchOf, WithWaiting, batch, q, sub

LEMMA SubmitBatchKeeps ==
    ASSUME ExecInv, NEW n \in 1 .. MaxBatch, SubmitBatch(n)
    PROVE  ExecInv' /\ GrowsWhenBusy(agents, agents')
<1> DEFINE st == WithWaiting(n)
           q == taskQueue \o BatchOf(n)
           sub == submitted + n
<1> HIDE DEF st, q, sub
<1>1. /\ Consistent(agents, st, step, execAgent, q, runningTasks, sub)
      /\ Exclusive(agents, step, execAgent, crossed) /\ crossed \in SUBSET Agent
      /\ ProcessQueue(agents, st, step, q, runningTasks, sleepers)
      /\ submitted' = sub /\ crossed' = crossed /\ sleepers \in Nat
    BY BatchIsConsistent DEF st, q, sub
<1> QED
    BY <1>1, ProcessQueueKeeps

\* What handleTaskComplete hands to processQueue: the pool with the agent the execution ran
\* on released, the states and the timers with the task ended.
Freed(t, pool) == [pool EXCEPT ![execAgent[t]] = ReleaseAgent(@)]
WithEnded(t, end) == [state EXCEPT ![t] = end]
TimersWithout(t) == [step EXCEPT ![t] = 0]
CrossedWithout(t) == IF Beside(t) = {} THEN crossed \ {execAgent[t]} ELSE crossed

\* The end of an execution, whatever executeTask has done to the agent it ran on, leaves
\* the queue consistent and that agent idle.
LEMMA EndIsConsistent ==
    ASSUME ExecInv, NEW t \in Task, step[t] > 0, NEW end \in {"completed", "failed"},
           NEW pool, pool \in [Agent -> [status : {"absent", "idle", "busy", "error"},
                                         currentTask : Task \cup {NoTask},
                                         tasksCompleted : Nat]],
           \A a \in Agent \ {execAgent[t]} : pool[a] = agents[a],
           HandleTaskComplete(t, end, pool)
    PROVE  /\ Consistent(Freed(t, pool), WithEnded(t, end), TimersWithout(t),
                         execAgent, taskQueue, RunningWithout(t), submitted)
           /\ Exclusive(Freed(t, pool), TimersWithout(t), execAgent, CrossedWithout(t))
           /\ CrossedWithout(t) \in SUBSET Agent /\ crossed' = CrossedWithout(t)
           /\ ProcessQueue(Freed(t, pool), WithEnded(t, end), TimersWithout(t),
                           taskQueue, RunningWithout(t), sleepers)
           /\ submitted' = submitted /\ sleepers \in Nat
           /\ \A a \in Agent : \/ Freed(t, pool)[a] = agents[a] /\ a # execAgent[t]
                               \/ Freed(t, pool)[a].status = "idle" /\ a = execAgent[t]
           /\ \A a \in Agent : agents[a].status = "absent" => Freed(t, pool)[a].status = "absent"
<1> DEFINE free == [pool EXCEPT ![execAgent[t]] = ReleaseAgent(@)]
           st == [state EXCEPT ![t] = end]
           sp == [step EXCEPT ![t] = 0]
           running == runningTasks \ {t}
<1>1. /\ ProcessQueue(free, st, sp, taskQueue, running, sleepers) /\ submitted' = submitted
      /\ crossed' = CrossedWithout(t)
    BY DEF HandleTaskComplete, RunningWithout, CrossedWithout
<1>2. /\ Consistent(agents, state, step, execAgent, taskQueue, runningTasks, submitted)
      /\ Exclusive(agents, step, execAgent, crossed) /\ crossed \in SUBSET Agent
      /\ sleepers \in Nat
    BY DEF ExecInv
<1>3. /\ free \in [Agent -> AgentRecord]
      /\ \A a \in Agent \ {execAgent[t]} : free[a] = agents[a]
      /\ \A a \in Agent : a = execAgent[t] =>
           free[a].status = "idle" /\ free[a].currentTask = NoTask
    <2>1. \A a \in Agent \ {execAgent[t]} : free[a] = agents[a] /\ free[a] \in AgentRecord
        BY <1>2 DEF Consistent
    <2>2. ASSUME NEW a \in Agent, a = execAgent[t]
          PROVE  /\ free[a] \in AgentRecord
                 /\ free[a].status = "idle" /\ free[a].currentTask = NoTask
        <3>1. PICK agent \in [status : {"absent", "idle", "busy", "error"},
                             currentTask : Task \cup {NoTask}, tasksCompleted : Nat] :
                agent = pool[a]
            OBVIOUS
        <3>2. free[a] = ReleaseAgent(agent)
            BY <2>2, <3>1
        <3>3. /\ ReleaseAgent(agent) \in AgentRecord
              /\ ReleaseAgent(agent).status = "idle"
              /\ ReleaseAgent(agent).currentTask = NoTask
            BY ReleaseFrees
        <3> QED
            BY <3>2, <3>3
    <2>3. free = [a \in Agent |-> free[a]]
        OBVIOUS
    <2> HIDE DEF free
    <2> QED
        BY <2>1, <2>2, <2>3
<1>4. /\ st \in [Task -> {"none", "pending", "running"} \cup Ended]
      /\ sp \in [Task -> 0 .. NumSteps] /\ running \in SUBSET Task
      /\ st[t] = end /\ sp[t] = 0
      /\ \A u \in Task \ {t} : st[u] = state[u] /\ sp[u] = step[u]
    <2>1. 0 \in 0 .. NumSteps /\ end \in Ended
        BY ExecutorAssumption DEF Ended
    <2> QED
        BY <1>2, <2>1 DEF Consistent
<1> HIDE DEF free, st, sp
<1>5. /\ t \in Nat /\ Len(taskQueue) \in Nat /\ submitted \in Nat
      /\ t <= submitted - Len(taskQueue) /\ t <= submitted
    <2>1. /\ taskQueue \in Seq(Task) /\ submitted \in 0 .. NumTasks
          /\ t <= submitted - Len(taskQueue) /\ Len(taskQueue) <= submitted
        BY <1>2 DEF Consistent
    <2>2. Len(taskQueue) \in Nat /\ t \in Nat /\ submitted \in Nat
        BY <2>1, ExecutorAssumption DEF Task
    <2> QED
        BY <2>1, <2>2
<1>6. ASSUME NEW u \in Task
      PROVE  /\ st[u] = "none" <=> submitted < u
             /\ st[u] = "pending" <=> submitted - Len(taskQueue) < u /\ u <= submitted
             /\ sp[u] > 0 \/ u \in running => u <= submitted - Len(taskQueue)
             /\ u \in running => execAgent[u] # 0
             /\ execAgent[u] # 0 => free[execAgent[u]].status # "absent"
    <2>1. /\ st[u] = "none" <=> submitted < u
          /\ st[u] = "pending" <=> submitted - Len(taskQueue) < u /\ u <= submitted
          /\ sp[u] > 0 \/ u \in running => u <= submitted - Len(taskQueue)
          /\ u \in running => execAgent[u] # 0
        <3>1. CASE u = t
            <4>1. st[u] # "none" /\ st[u] # "pending"
                BY <1>4, <3>1
            <4> QED
                BY <1>5, <3>1, <4>1
        <3>2. CASE u # t
            BY <1>2, <1>4, <3>2 DEF Consistent
        <3> QED
            BY <3>1, <3>2
    <2>2. ASSUME execAgent[u] # 0 PROVE free[execAgent[u]].status # "absent"
        <3>1. execAgent[u] \in Agent /\ agents[execAgent[u]].status # "absent"
            BY <1>2, <2>2, AgentsAssumption DEF Consistent, Agent
        <3> QED
            BY <1>3, <3>1
    <2> QED
        BY <2>1, <2>2
<1>7. ASSUME NEW a \in Agent, free[a].currentTask # NoTask
      PROVE  LET u == free[a].currentTask IN sp[u] > 0 /\ execAgent[u] = a /\ u \in running
    <2>1. a # execAgent[t] /\ free[a] = agents[a]
        BY <1>3, <1>7
    <2>2. PICK u : u = agents[a].currentTask
        OBVIOUS
    <2>3. step[u] > 0 /\ execAgent[u] = a /\ u \in runningTasks /\ u \in Task
        BY <1>2, <1>7, <2>1, <2>2 DEF Consistent, AgentRecord
    <2> QED
        BY <1>4, <2>1, <2>2, <2>3
<1>8. Consistent(free, st, sp, execAgent, taskQueue, running, submitted)
    BY <1>2, <1>3, <1>4, <1>6, <1>7 DEF Consistent
<1>9. Exclusive(free, sp, execAgent, CrossedWithout(t))
    <2> SUFFICES ASSUME NEW a \in Agent, a \notin CrossedWithout(t)
                 PROVE  /\ free[a].status = "busy"
                           <=> \E u \in Task : sp[u] > 0 /\ execAgent[u] = a
                        /\ \A u \in Task : sp[u] > 0 /\ execAgent[u] = a
                             => free[a].currentTask = u
        BY DEF Exclusive
    <2>1. ASSUME a \notin crossed
          PROVE  /\ agents[a].status = "busy" <=> \E u \in Task : step[u] > 0 /\ execAgent[u] = a
                 /\ \A u \in Task : step[u] > 0 /\ execAgent[u] = a => agents[a].currentTask = u
        BY <1>2, <2>1 DEF Exclusive
    <2>2. CASE a = execAgent[t]
        <3>1. \A u \in Task : step[u] > 0 /\ execAgent[u] = a => u = t
            <4>1. CASE a \notin crossed
                BY <2>1, <2>2, <4>1
            <4>2. CASE a \in crossed
                BY <2>2, <4>2 DEF CrossedWithout, Beside, InFlight
            <4> QED
                BY <4>1, <4>2
        <3>2. \A u \in Task : ~(sp[u] > 0 /\ execAgent[u] = a)
            BY <1>4, <3>1
        <3> QED
            BY <1>3, <2>2, <3>2
    <2>3. CASE a # execAgent[t]
        <3>1. a \notin crossed
            BY <2>3 DEF CrossedWithout
        <3>2. \A u \in Task : sp[u] > 0 /\ execAgent[u] = a <=> step[u] > 0 /\ execAgent[u] = a
            BY <1>4, <2>3
        <3> QED
            BY <1>3, <2>1, <2>3, <3>1, <3>2
    <2> QED
        BY <2>2, <2>3
<1>b. CrossedWithout(t) \in SUBSET Agent
    BY <1>2 DEF CrossedWithout
<1>10. \A a \in Agent : agents[a].status = "absent" => free[a].status = "absent"
    <2>1. \A a \in Agent : a = execAgent[t] => agents[a].status # "absent"
        BY <1>2, AgentsAssumption DEF Consistent, Agent
    <2> QED
        BY <1>3, <2>1
<1> QED
    BY <1>1, <1>2, <1>3, <1>8, <1>9, <1>10, <1>b DEF Freed, WithEnded, TimersWithout, RunningWithout, free, st, sp

LEMMA EndKeeps ==
    ASSUME ExecInv, NEW t \in Task, step[t] > 0, NEW end \in {"completed", "failed"},
           NEW pool, pool \in [Agent -> [status : {"absent", "idle", "busy", "error"},
                                         currentTask : Task \cup {NoTask},
                                         tasksCompleted : Nat]],
           \A a \in Agent \ {execAgent[t]} : pool[a] = agents[a],
           HandleTaskComplete(t, end, pool)
    PROVE  ExecInv' /\ GrowsWhenBusy(agents, agents')
<1>1. /\ Consistent(Freed(t, pool), WithEnded(t, end), TimersWithout(t), execAgent,
                   taskQueue, RunningWithout(t), submitted)
      /\ Exclusive(Freed(t, pool), TimersWithout(t), execAgent, CrossedWithout(t))
      /\ CrossedWithout(t) \in SUBSET Agent /\ crossed' = CrossedWithout(t)
      /\ ProcessQueue(Freed(t, pool), WithEnded(t, end), TimersWithout(t), taskQueue,
                      RunningWithout(t), sleepers)
      /\ submitted' = submitted /\ sleepers \in Nat
      /\ \A a \in Agent : agents[a].status = "absent" => Freed(t, pool)[a].status = "absent"
    BY EndIsConsistent
<1>2. GrowsWhenBusy(Freed(t, pool), agents') /\ ExecInv'
    BY <1>1, ProcessQueueKeeps
<1> QED
    BY <1>1, <1>2 DEF GrowsWhenBusy

LEMMA CancelKeeps ==
    ASSUME ExecInv, NEW t \in Task, CancelTask(t)
    PROVE  ExecInv' /\ GrowsWhenBusy(agents, agents')
<1>1. /\ t \in runningTasks /\ t \in Cancels
      /\ state' = [state EXCEPT ![t] = "cancelled"]
      /\ agents' = IF Holders(t) = {} THEN agents
                   ELSE [agents EXCEPT ![Min(Holders(t))] = ReleaseAgent(@)]
      /\ runningTasks' = runningTasks \ {t}
      /\ crossed' = crossed \cup {execAgent[t]}
      /\ UNCHANGED <<taskQueue, execAgent, step, sleepers, submitted>>
    BY DEF CancelTask, RunningWithout
<1>2. Consistent(agents, state, step, execAgent, taskQueue, runningTasks, submitted)
    BY DEF ExecInv
<1>3. t # NoTask
    BY ExecutorAssumption DEF Task
<1>4. \A a \in Agent : agents[a].currentTask = t => a = execAgent[t]
    BY <1>2, <1>3 DEF Consistent
<1>a. /\ execAgent \in [Task -> 0 .. MaxAgents] /\ \A a \in Agent : a # 0
      /\ \A n \in 0 .. MaxAgents : n # 0 => n \in Agent
    BY <1>2, AgentsAssumption DEF Consistent, Agent
<1>5. /\ agents' \in [Agent -> AgentRecord]
      /\ \A a \in Agent : \/ agents'[a] = agents[a] /\ agents[a].currentTask # t
                          \/ /\ agents[a].currentTask = t
                             /\ agents'[a].currentTask = NoTask /\ agents'[a].status = "idle"
    <2>1. CASE Holders(t) = {}
        BY <1>1, <1>2, <2>1 DEF Holders, Consistent
    <2>2. CASE Holders(t) # {}
        <3>1. Holders(t) = {execAgent[t]} /\ execAgent[t] \in Agent
            BY <1>4, <2>2 DEF Holders
        <3>2. Min(Holders(t)) = execAgent[t]
            <4>1. execAgent[t] \in Int
                BY <3>1, AgentsAssumption DEF Agent
            <4> QED
                BY <3>1, <4>1 DEF Min
        <3>3. agents' = [agents EXCEPT ![execAgent[t]] = ReleaseAgent(@)]
            BY <1>1, <2>2, <3>2
        <3>4. PICK agent \in AgentRecord : agent = agents[execAgent[t]]
            BY <1>2, <3>1 DEF Consistent
        <3>5. /\ ReleaseAgent(agent) \in AgentRecord
              /\ ReleaseAgent(agent).status = "idle"
              /\ ReleaseAgent(agent).currentTask = NoTask
            BY ReleaseFrees DEF AgentRecord
        <3>6. /\ agents'[execAgent[t]] = ReleaseAgent(agent)
              /\ \A a \in Agent \ {execAgent[t]} : agents'[a] = agents[a]
              /\ agents' = [a \in Agent |-> agents'[a]]
            BY <1>2, <3>1, <3>3, <3>4 DEF Consistent
        <3>7. agents[execAgent[t]].currentTask = t
            BY <3>1 DEF Holders
        <3>8. ASSUME NEW a \in Agent PROVE agents'[a] \in AgentRecord
            <4>1. agents[a] \in AgentRecord
                BY <1>2 DEF Consistent
            <4>2. CASE a = execAgent[t]
                BY <3>5, <3>6, <4>2
            <4>3. CASE a # execAgent[t]
                BY <3>6, <4>1, <4>3
            <4> QED
                BY <4>2, <4>3
        <3> QED
            BY <1>4, <3>5, <3>6, <3>7, <3>8
    <2> QED
        BY <2>1, <2>2
<1>6. \A a \in Agent : agents'[a].status = "absent" <=> agents[a].status = "absent"
    <2>1. \A a \in Agent : agents[a].currentTask = t => agents[a].status # "absent"
        BY <1>2, <1>4, <1>a DEF Consistent
    <2> QED
        BY <1>5, <2>1
<1>7. ASSUME NEW u \in Task
      PROVE  /\ state'[u] = "none" <=> submitted < u
             /\ state'[u] = "pending" <=> submitted - Len(taskQueue) < u /\ u <= submitted
             /\ step[u] > 0 \/ u \in runningTasks' => u <= submitted - Len(taskQueue)
             /\ u \in runningTasks' => execAgent[u] # 0
             /\ execAgent[u] # 0 => agents'[execAgent[u]].status # "absent"
    <2>1. /\ state[u] = "none" <=> submitted < u
          /\ state[u] = "pending" <=> submitted - Len(taskQueue) < u /\ u <= submitted
          /\ step[u] > 0 \/ u \in runningTasks => u <= submitted - Len(taskQueue)
          /\ u \in runningTasks => execAgent[u] # 0
        BY <1>2 DEF Consistent
    <2>2. u = t => state[u] # "none" /\ state[u] # "pending"
        <3>1. /\ Len(taskQueue) \in Nat /\ submitted \in Nat /\ u \in Nat
            BY <1>2, ExecutorAssumption DEF Consistent, Task
        <3> QED
            BY <1>1, <2>1, <3>1
    <2>3. state' = [state EXCEPT ![t] = "cancelled"] /\ state \in [Task -> {"none", "pending", "running"} \cup Ended]
        BY <1>1, <1>2 DEF Consistent
    <2>4. execAgent[u] # 0 => agents'[execAgent[u]].status # "absent"
        BY <1>2, <1>6, <1>a DEF Consistent
    <2> QED
        BY <1>1, <2>1, <2>2, <2>3, <2>4
<1>8. ASSUME NEW a \in Agent, agents'[a].currentTask # NoTask
      PROVE  LET u == agents'[a].currentTask IN
             step[u] > 0 /\ execAgent[u] = a /\ u \in runningTasks'
    <2>1. agents'[a] = agents[a] /\ agents[a].currentTask # t
        BY <1>5, <1>8
    <2> QED
        BY <1>1, <1>2, <1>8, <2>1 DEF Consistent
<1>9. Consistent(agents', state', step', execAgent', taskQueue', runningTasks', submitted')
    <2>1. /\ state' \in [Task -> {"none", "pending", "running"} \cup Ended]
          /\ runningTasks' \in SUBSET Task
        BY <1>1, <1>2 DEF Consistent, Ended
    <2>2. UNCHANGED <<taskQueue, execAgent, step, submitted>>
        BY <1>1
    <2> QED
        BY <1>2, <1>5, <1>7, <1>8, <2>1, <2>2 DEF Consistent
<1>10. Exclusive(agents', step', execAgent', crossed') /\ crossed' \in SUBSET Agent
    <2>1. Exclusive(agents, step, execAgent, crossed) /\ crossed \in SUBSET Agent
        BY DEF ExecInv
    <2>2. execAgent[t] \in Agent
        BY <1>1, <1>2, <1>a DEF Consistent
    <2>3. \A a \in Agent \ crossed' : a \notin crossed /\ agents'[a] = agents[a]
        BY <1>1, <1>4, <1>5
    <2> QED
        BY <1>1, <2>1, <2>2, <2>3 DEF Exclusive
<1>11. GrowsWhenBusy(agents, agents')
    BY <1>6 DEF GrowsWhenBusy
<1> QED
    BY <1>1, <1>9, <1>10, <1>11 DEF ExecInv, WaitingTasksArePolled

LEMMA NextStepKeeps ==
    ASSUME ExecInv, NEW t \in Task, NextStep(t)
    PROVE  ExecInv' /\ GrowsWhenBusy(agents, agents')
<1>1. /\ step[t] \in 1 .. (NumSteps - 1) /\ step' = [step EXCEPT ![t] = @ + 1]
      /\ UNCHANGED <<agents, state, taskQueue, runningTasks, execAgent, sleepers, submitted, crossed>>
    BY DEF NextStep, MoreSteps
<1>2. /\ Consistent(agents, state, step, execAgent, taskQueue, runningTasks, submitted)
      /\ Exclusive(agents, step, execAgent, crossed) /\ crossed \in SUBSET Agent
    BY DEF ExecInv
<1>3. step[t] + 1 \in 0 .. NumSteps /\ step[t] + 1 > 0 /\ step[t] > 0
    BY <1>1, ExecutorAssumption
<1>4. step' \in [Task -> 0 .. NumSteps] /\ \A u \in Task : step'[u] > 0 <=> step[u] > 0
    <2>1. step \in [Task -> 0 .. NumSteps]
        BY <1>2 DEF Consistent
    <2> QED
        BY <1>1, <1>3, <2>1
<1>5. Consistent(agents', state', step', execAgent', taskQueue', runningTasks', submitted')
    <2>1. \A u \in Task : /\ step'[u] > 0 \/ u \in runningTasks => u <= submitted - Len(taskQueue)
                          /\ u \in runningTasks => execAgent[u] # 0
        BY <1>2, <1>4 DEF Consistent
    <2>2. \A a \in Agent : LET u == agents[a].currentTask IN
            u # NoTask => step'[u] > 0 /\ execAgent[u] = a /\ u \in runningTasks
        <3>1. \A a \in Agent : agents[a].currentTask \in Task \cup {NoTask}
            BY <1>2 DEF Consistent, AgentRecord
        <3> QED
            BY <1>2, <1>4, <3>1 DEF Consistent
    <2> QED
        BY <1>1, <1>2, <1>4, <2>1, <2>2 DEF Consistent
<1>6. Exclusive(agents', step', execAgent', crossed') /\ crossed' \in SUBSET Agent
    BY <1>1, <1>2, <1>4 DEF Exclusive
<1> QED
    BY <1>1, <1>5, <1>6 DEF ExecInv, WaitingTasksArePolled, GrowsWhenBusy

LEMMA ExecInvStep ==
    ExecInv /\ [Next]_vars => ExecInv' /\ GrowsWhenBusy(agents, agents')
<1> SUFFICES ASSUME ExecInv, [Next]_vars PROVE ExecInv' /\ GrowsWhenBusy(agents, agents')
    OBVIOUS
<1>1. ASSUME NEW n \in 1 .. MaxBatch, SubmitBatch(n)
      PROVE  ExecInv' /\ GrowsWhenBusy(agents, agents')
    BY <1>1, SubmitBatchKeeps
<1>2. CASE WakeUp
    <2>1. /\ sleepers - 1 \in Nat /\ submitted' = submitted /\ crossed' = crossed
          /\ ProcessQueue(agents, state, step, taskQueue, runningTasks, sleepers - 1)
        BY <1>2 DEF WakeUp, ExecInv
    <2> QED
        BY <2>1, ProcessQueueKeeps DEF ExecInv
<1>3. ASSUME NEW t \in Task, NextStep(t) PROVE ExecInv' /\ GrowsWhenBusy(agents, agents')
    BY <1>3, NextStepKeeps
<1>a. agents \in [Agent -> [status : {"absent", "idle", "busy", "error"},
                            currentTask : Task \cup {NoTask}, tasksCompleted : Nat]]
    BY DEF ExecInv, Consistent, AgentRecord
<1>4. ASSUME NEW t \in Task, CompleteTask(t) PROVE ExecInv' /\ GrowsWhenBusy(agents, agents')
    <2>1. step[t] > 0 /\ HandleTaskComplete(t, "completed", agents)
        BY <1>4, ExecutorAssumption DEF CompleteTask
    <2> QED
        BY <1>a, <2>1, EndKeeps
<1>5. ASSUME NEW t \in Task, FailTask(t) PROVE ExecInv' /\ GrowsWhenBusy(agents, agents')
    <2>1. PICK pool : pool = [agents EXCEPT ![execAgent[t]] = MarkAgentError(@)]
        OBVIOUS
    <2>2. step[t] > 0 /\ HandleTaskComplete(t, "failed", pool)
        BY <1>5, <2>1 DEF FailTask
    <2>3. pool \in [Agent -> [status : {"absent", "idle", "busy", "error"},
                              currentTask : Task \cup {NoTask}, tasksCompleted : Nat]]
        BY <1>a, <2>1 DEF MarkAgentError
    <2>4. \A a \in Agent \ {execAgent[t]} : pool[a] = agents[a]
        BY <1>a, <2>1
    <2> QED
        BY <2>2, <2>3, <2>4, EndKeeps
<1>6. ASSUME NEW t \in Task, CancelTask(t) PROVE ExecInv' /\ GrowsWhenBusy(agents, agents')
    BY <1>6, CancelKeeps
<1>7. CASE UNCHANGED vars
    BY <1>7 DEF vars, ExecInv, Consistent, Exclusive, WaitingTasksArePolled, GrowsWhenBusy
<1> QED
    BY <1>1, <1>2, <1>3, <1>4, <1>5, <1>6, <1>7 DEF Next

LEMMA ExecInvHolds == Spec => []ExecInv
<1>1. ExecInv /\ [Next]_vars => ExecInv'
    BY ExecInvStep
<1> QED
    BY <1>1, ExecInvInit, PTL DEF Spec

----------------------------------------------------------------------------
(* The results. *)

\* The executor's fields keep their types.
THEOREM TypeCorrect == Spec => []TypeOK
<1>1. ExecInv => TypeOK
    BY DEF ExecInv, Consistent, TypeOK, AgentRecord
<1> QED
    BY <1>1, ExecInvHolds, PTL

\* While a task waits, some loop sleeps that will look at the queue again, also when a
\* cancel frees an agent without a word to the queue.
THEOREM NoWakeupIsLost == Spec => []WaitingTasksArePolled
<1>1. ExecInv => WaitingTasksArePolled
    BY DEF ExecInv
<1> QED
    BY <1>1, ExecInvHolds, PTL

\* An agent's current task executes on it, also when cancels and late releases have crossed.
THEOREM AgentsExecuteTheirTask == Spec => []CurrentTaskExecutes
<1>1. ExecInv => CurrentTaskExecutes
    BY DEF ExecInv, Consistent, CurrentTaskExecutes
<1> QED
    BY <1>1, ExecInvHolds, PTL

\* An agent is busy exactly while one execution runs on it: all agents but those an
\* execution was cancelled on, until all on them have ended.
THEOREM BusyAgentsAgree == Spec => []BusyAgentsRunTheirTask
<1>1. ExecInv => BusyAgentsRunTheirTask
    BY DEF ExecInv, Exclusive, BusyAgentsRunTheirTask, InFlight
<1> QED
    BY <1>1, ExecInvHolds, PTL

\* Tasks start in the order in which they were submitted.
THEOREM TasksStartInOrder == Spec => []StartsInOrder
<1>1. ExecInv => StartsInOrder
    <2> SUFFICES ASSUME ExecInv, NEW t \in Task, NEW u \in Task, t < u,
                        state[u] \notin {"none", "pending"}
                 PROVE  state[t] \notin {"none", "pending"}
        BY DEF StartsInOrder
    <2>1. /\ t \in Nat /\ u \in Nat /\ submitted \in Nat /\ Len(taskQueue) \in Nat
        BY ExecutorAssumption DEF ExecInv, Consistent, Task
    <2>2. \A v \in Task : /\ state[v] = "none" <=> submitted < v
                          /\ state[v] = "pending"
                               <=> submitted - Len(taskQueue) < v /\ v <= submitted
        BY DEF ExecInv, Consistent
    <2> QED
        BY <2>1, <2>2
<1> QED
    BY <1>1, ExecInvHolds, PTL

\* An agent is only created when all those before it are busy.
THEOREM PoolGrowsWhenBusy == Spec => NoIdleAgentWhileWaiting
<1>1. GrowsWhenBusy(agents, agents')
        => \A a \in Agent : agents[a].status = "absent" /\ agents'[a].status # "absent"
             => \A b \in 1 .. (a - 1) : agents'[b].status = "busy"
    BY DEF GrowsWhenBusy
<1>2. ExecInv /\ [Next]_vars
        => [\A a \in Agent : agents[a].status = "absent" /\ agents'[a].status # "absent"
              => \A b \in 1 .. (a - 1) : agents'[b].status = "busy"]_vars
    BY <1>1, ExecInvStep
<1> QED
    BY <1>2, ExecInvHolds, PTL DEF Spec, NoIdleAgentWhileWaiting

----------------------------------------------------------------------------
(* Getting on: what liveness rests on. *)

\* How far a task is from its end: the stages before it starts, the timers its execution has
\* yet to wait for, and the slot a cancel can take from it once.
StepsLeft(st, sp, hasSlot) ==
    IF st = "none" THEN NumSteps + 3
    ELSE IF st = "pending" THEN NumSteps + 2
    ELSE (IF sp > 0 THEN NumSteps + 1 - sp ELSE 0) + (IF hasSlot THEN 1 ELSE 0)

\* A step that touches a task brings it nearer to its end.
GetsOn(t) ==
    \/ /\ state'[t] = state[t] /\ step'[t] = step[t]
       /\ t \in runningTasks' <=> t \in runningTasks
    \/ StepsLeft(state'[t], step'[t], t \in runningTasks')
         < StepsLeft(state[t], step[t], t \in runningTasks)

\* A running task has a timer, a busy agent a task.
RunningExecutes ==
    /\ \A t \in Task : state[t] = "running" => step[t] > 0
    /\ \A a \in Agent : agents[a].status = "busy" => agents[a].currentTask # NoTask

\* What a stretch of processQueue does to one task and to one agent.
LEMMA StretchStarts ==
    ASSUME NEW pool, NEW st, NEW sp, NEW q, NEW running, NEW n \in Nat, NEW sub,
           Consistent(pool, st, sp, execAgent, q, running, sub),
           ProcessQueue(pool, st, sp, q, running, n)
    PROVE  /\ \A t \in Task :
                \/ /\ state'[t] = st[t] /\ step'[t] = sp[t]
                   /\ t \in runningTasks' <=> t \in running
                \/ /\ st[t] = "pending"
                   /\ state'[t] = "running" /\ step'[t] = 1 /\ t \in runningTasks'
           /\ \A a \in Agent : agents'[a] = pool[a] \/ agents'[a].currentTask # NoTask
<1>1. PICK k \in Nat : StartsTasks(k, pool, st, sp, q, running, n, sub)
    BY ProcessQueueSteps
<1> DEFINE base == sub - Len(q)
           S == {t \in Task : base < t /\ t <= base + k}
<1>2. /\ k <= Len(q)
      /\ runningTasks' = running \cup S
      /\ state' = [t \in Task |-> IF t \in S THEN "running" ELSE st[t]]
      /\ step' = [t \in Task |-> IF t \in S THEN 1 ELSE sp[t]]
      /\ \A a \in Agent : agents'[a] = pool[a] \/ agents'[a].currentTask \in S
    BY <1>1 DEF StartsTasks
<1>3. \A t \in S : st[t] = "pending"
    <2>1. /\ q \in Seq(Task) /\ sub \in 0 .. NumTasks
          /\ \A t \in Task : st[t] = "pending" <=> base < t /\ t <= sub
        BY DEF Consistent
    <2>2. Len(q) \in Nat /\ sub \in Nat /\ \A t \in Task : t \in Nat
        BY <2>1, ExecutorAssumption DEF Task
    <2> QED
        BY <1>2, <2>1, <2>2
<1>4. \A t \in S : t # NoTask /\ t \in Task
    BY ExecutorAssumption DEF Task
<1> HIDE DEF S
<1> QED
    BY <1>2, <1>3, <1>4

\* The remaining steps before an action and after it, for a task that starts or that only
\* the action itself has touched.
LEMMA StartGetsOn ==
    ASSUME NEW t \in Task, state[t] \in {"none", "pending"},
           \/ state'[t] = "running" /\ step'[t] = 1
           \/ state'[t] = "pending" /\ state[t] = "none"
    PROVE  GetsOn(t)
<1>1. NumSteps \in Nat
    BY ExecutorAssumption
<1>2. StepsLeft(state[t], step[t], t \in runningTasks) \in {NumSteps + 2, NumSteps + 3}
    BY DEF StepsLeft
<1>3. CASE state'[t] = "running" /\ step'[t] = 1
    <2>1. StepsLeft(state'[t], step'[t], t \in runningTasks') \in {NumSteps, NumSteps + 1}
        BY <1>1, <1>3 DEF StepsLeft
    <2> QED
        BY <1>1, <1>2, <2>1 DEF GetsOn
<1>4. CASE state'[t] = "pending" /\ state[t] = "none"
    BY <1>1, <1>4 DEF GetsOn, StepsLeft
<1> QED
    BY <1>3, <1>4

\* What the invariant says of one task.
LEMMA OneTask ==
    ASSUME ExecInv, NEW t \in Task
    PROVE  /\ state[t] \in {"none", "pending", "running"} \cup Ended
           /\ step[t] \in 0 .. NumSteps /\ NumSteps \in Nat
           /\ step[t] > 0 \/ t \in runningTasks => state[t] \notin {"none", "pending"}
<1>1. /\ taskQueue \in Seq(Task) /\ submitted \in 0 .. NumTasks
      /\ Len(taskQueue) <= submitted
      /\ state[t] = "none" <=> submitted < t
      /\ state[t] = "pending" <=> submitted - Len(taskQueue) < t /\ t <= submitted
      /\ step[t] > 0 \/ t \in runningTasks => t <= submitted - Len(taskQueue)
      /\ state \in [Task -> {"none", "pending", "running"} \cup Ended]
      /\ step \in [Task -> 0 .. NumSteps]
    BY DEF ExecInv, Consistent
<1>2. Len(taskQueue) \in Nat /\ submitted \in Nat /\ t \in Nat /\ NumSteps \in Nat
    BY <1>1, ExecutorAssumption DEF Task
<1>3. step[t] > 0 \/ t \in runningTasks => state[t] \notin {"none", "pending"}
    BY <1>1, <1>2
<1> QED
    BY <1>1, <1>2, <1>3

LEMMA SubmitBatchGetsOn ==
    ASSUME ExecInv, RunningExecutes, NEW n \in 1 .. MaxBatch, SubmitBatch(n)
    PROVE  RunningExecutes' /\ \A t \in Task : GetsOn(t)
<1>1. /\ Consistent(agents, WithWaiting(n), step, execAgent, taskQueue \o BatchOf(n),
                    runningTasks, submitted + n)
      /\ ProcessQueue(agents, WithWaiting(n), step, taskQueue \o BatchOf(n), runningTasks,
                      sleepers)
      /\ sleepers \in Nat
      /\ \A t \in Task : \/ WithWaiting(n)[t] = state[t]
                         \/ state[t] = "none" /\ WithWaiting(n)[t] = "pending"
    BY BatchIsConsistent
<1>2. /\ \A t \in Task :
           \/ /\ state'[t] = WithWaiting(n)[t] /\ step'[t] = step[t]
              /\ t \in runningTasks' <=> t \in runningTasks
           \/ /\ WithWaiting(n)[t] = "pending"
              /\ state'[t] = "running" /\ step'[t] = 1 /\ t \in runningTasks'
      /\ \A a \in Agent : agents'[a] = agents[a] \/ agents'[a].currentTask # NoTask
    BY <1>1, StretchStarts
<1>3. ASSUME NEW t \in Task PROVE GetsOn(t) /\ (state'[t] = "running" => step'[t] > 0)
    <2>1. \/ WithWaiting(n)[t] = state[t]
          \/ state[t] = "none" /\ WithWaiting(n)[t] = "pending"
        BY <1>1
    <2>2. CASE /\ state'[t] = WithWaiting(n)[t] /\ step'[t] = step[t]
               /\ t \in runningTasks' <=> t \in runningTasks
        <3>1. CASE WithWaiting(n)[t] = state[t]
            BY <2>2, <3>1 DEF GetsOn, RunningExecutes
        <3>2. CASE state[t] = "none" /\ WithWaiting(n)[t] = "pending"
            BY <2>2, <3>2, StartGetsOn
        <3> QED
            BY <2>1, <3>1, <3>2
    <2>3. CASE WithWaiting(n)[t] = "pending" /\ state'[t] = "running" /\ step'[t] = 1
        <3>1. state[t] \in {"none", "pending"}
            BY <2>1, <2>3
        <3> QED
            BY <2>3, <3>1, StartGetsOn
    <2> QED
        BY <1>2, <2>2, <2>3
<1> QED
    BY <1>2, <1>3 DEF RunningExecutes

LEMMA WakeUpGetsOn ==
    ASSUME ExecInv, RunningExecutes, WakeUp
    PROVE  RunningExecutes' /\ \A t \in Task : GetsOn(t)
<1>1. /\ sleepers - 1 \in Nat
      /\ ProcessQueue(agents, state, step, taskQueue, runningTasks, sleepers - 1)
      /\ Consistent(agents, state, step, execAgent, taskQueue, runningTasks, submitted)
    BY DEF WakeUp, ExecInv
<1>2. /\ \A t \in Task :
           \/ /\ state'[t] = state[t] /\ step'[t] = step[t]
              /\ t \in runningTasks' <=> t \in runningTasks
           \/ /\ state[t] = "pending"
              /\ state'[t] = "running" /\ step'[t] = 1 /\ t \in runningTasks'
      /\ \A a \in Agent : agents'[a] = agents[a] \/ agents'[a].currentTask # NoTask
    BY <1>1, StretchStarts
<1>3. ASSUME NEW t \in Task PROVE GetsOn(t) /\ (state'[t] = "running" => step'[t] > 0)
    <2>1. CASE state[t] = "pending" /\ state'[t] = "running" /\ step'[t] = 1
        BY <2>1, StartGetsOn
    <2>2. CASE /\ state'[t] = state[t] /\ step'[t] = step[t]
               /\ t \in runningTasks' <=> t \in runningTasks
        BY <2>2 DEF GetsOn, RunningExecutes
    <2> QED
        BY <1>2, <2>1, <2>2
<1> QED
    BY <1>2, <1>3 DEF RunningExecutes

LEMMA EndGetsOn ==
    ASSUME ExecInv, RunningExecutes, NEW t \in Task, step[t] > 0,
           NEW end \in {"completed", "failed"},
           NEW pool, pool \in [Agent -> [status : {"absent", "idle", "busy", "error"},
                                         currentTask : Task \cup {NoTask},
                                         tasksCompleted : Nat]],
           \A a \in Agent \ {execAgent[t]} : pool[a] = agents[a],
           HandleTaskComplete(t, end, pool)
    PROVE  RunningExecutes' /\ \A u \in Task : GetsOn(u)
<1>1. /\ Consistent(Freed(t, pool), WithEnded(t, end), TimersWithout(t),
                    execAgent, taskQueue, RunningWithout(t), submitted)
      /\ ProcessQueue(Freed(t, pool), WithEnded(t, end), TimersWithout(t),
                      taskQueue, RunningWithout(t), sleepers)
      /\ sleepers \in Nat
      /\ \A a \in Agent : \/ Freed(t, pool)[a] = agents[a]
                          \/ Freed(t, pool)[a].status = "idle"
    BY EndIsConsistent
<1>2. /\ \A u \in Task :
           \/ /\ state'[u] = WithEnded(t, end)[u] /\ step'[u] = TimersWithout(t)[u]
              /\ u \in runningTasks' <=> u \in RunningWithout(t)
           \/ /\ WithEnded(t, end)[u] = "pending"
              /\ state'[u] = "running" /\ step'[u] = 1 /\ u \in runningTasks'
      /\ \A a \in Agent : agents'[a] = Freed(t, pool)[a] \/ agents'[a].currentTask # NoTask
    BY <1>1, StretchStarts
<1>3. /\ state \in [Task -> {"none", "pending", "running"} \cup Ended]
      /\ step \in [Task -> 0 .. NumSteps]
    BY DEF ExecInv, Consistent
<1>4. ASSUME NEW u \in Task PROVE GetsOn(u) /\ (state'[u] = "running" => step'[u] > 0)
    <2>1. CASE u = t
        <3>1. state'[u] = end /\ step'[u] = 0 /\ u \notin runningTasks'
            BY <1>2, <1>3, <2>1 DEF WithEnded, TimersWithout, RunningWithout
        <3>2. /\ step[u] \in 0 .. NumSteps /\ NumSteps \in Nat /\ step[u] > 0
              /\ state[u] \notin {"none", "pending"}
            BY <2>1, OneTask
        <3>3. StepsLeft(state'[u], step'[u], u \in runningTasks') = 0
            BY <3>1 DEF StepsLeft
        <3>4. StepsLeft(state[u], step[u], u \in runningTasks) > 0
            BY <3>2 DEF StepsLeft
        <3> QED
            BY <3>1, <3>3, <3>4 DEF GetsOn
    <2>2. CASE u # t
        <3>1. /\ WithEnded(t, end)[u] = state[u] /\ TimersWithout(t)[u] = step[u]
              /\ u \in RunningWithout(t) <=> u \in runningTasks
            BY <1>3, <2>2 DEF WithEnded, TimersWithout, RunningWithout
        <3>2. CASE state[u] = "pending" /\ state'[u] = "running" /\ step'[u] = 1
            BY <3>2, StartGetsOn
        <3>3. CASE /\ state'[u] = state[u] /\ step'[u] = step[u]
                   /\ u \in runningTasks' <=> u \in runningTasks
            BY <3>3 DEF GetsOn, RunningExecutes
        <3> QED
            BY <1>2, <3>1, <3>2, <3>3
    <2> QED
        BY <2>1, <2>2
<1> QED
    BY <1>1, <1>2, <1>4 DEF RunningExecutes

LEMMA NextStepGetsOn ==
    ASSUME ExecInv, RunningExecutes, NEW t \in Task, NextStep(t)
    PROVE  RunningExecutes' /\ \A u \in Task : GetsOn(u)
<1>1. /\ step[t] \in 1 .. (NumSteps - 1) /\ step' = [step EXCEPT ![t] = @ + 1]
      /\ UNCHANGED <<agents, state, runningTasks>>
    BY DEF NextStep, MoreSteps
<1>2. step \in [Task -> 0 .. NumSteps] /\ NumSteps \in Nat
    BY ExecutorAssumption DEF ExecInv, Consistent
<1>3. ASSUME NEW u \in Task PROVE GetsOn(u) /\ (state'[u] = "running" => step'[u] > 0)
    <2>1. CASE u = t
        <3>1. step'[u] = step[u] + 1 /\ step[u] > 0 /\ step[u] \in Nat /\ state'[u] = state[u]
            BY <1>1, <1>2, <2>1
        <3>2. state[u] \notin {"none", "pending"}
            BY <3>1, OneTask
        <3>3. u \in runningTasks' <=> u \in runningTasks
            BY <1>1
        <3> QED
            BY <1>2, <3>1, <3>2, <3>3 DEF GetsOn, StepsLeft
    <2>2. CASE u # t
        BY <1>1, <1>2, <2>2 DEF GetsOn, RunningExecutes
    <2> QED
        BY <2>1, <2>2
<1> QED
    BY <1>1, <1>3 DEF RunningExecutes

LEMMA CancelGetsOn ==
    ASSUME ExecInv, RunningExecutes, NEW t \in Task, CancelTask(t)
    PROVE  RunningExecutes' /\ \A u \in Task : GetsOn(u)
<1>1. /\ t \in runningTasks
      /\ state' = [state EXCEPT ![t] = "cancelled"]
      /\ agents' = IF Holders(t) = {} THEN agents
                   ELSE [agents EXCEPT ![Min(Holders(t))] = ReleaseAgent(@)]
      /\ runningTasks' = runningTasks \ {t} /\ step' = step
    BY DEF CancelTask, RunningWithout
<1>2. /\ state \in [Task -> {"none", "pending", "running"} \cup Ended]
      /\ agents \in [Agent -> AgentRecord]
    BY DEF ExecInv, Consistent
<1>3. ASSUME NEW u \in Task PROVE GetsOn(u) /\ (state'[u] = "running" => step'[u] > 0)
    <2>1. CASE u = t
        <3>1. state'[u] = "cancelled" /\ step'[u] = step[u] /\ u \notin runningTasks'
            BY <1>1, <1>2, <2>1
        <3>2. /\ state[u] \notin {"none", "pending"} /\ u \in runningTasks
              /\ step[u] \in 0 .. NumSteps /\ NumSteps \in Nat
            BY <1>1, <2>1, OneTask
        <3> QED
            BY <3>1, <3>2 DEF GetsOn, StepsLeft
    <2>2. CASE u # t
        BY <1>1, <1>2, <2>2 DEF GetsOn, RunningExecutes
    <2> QED
        BY <2>1, <2>2
<1>4. ASSUME NEW a \in Agent, agents'[a].status = "busy" PROVE agents'[a].currentTask # NoTask
    <2>1. agents'[a] = agents[a] \/ agents'[a].status = "idle"
        <3>1. PICK agent \in AgentRecord : agent = agents[a]
            BY <1>2
        <3>2. ReleaseAgent(agent).status = "idle"
            BY ReleaseFrees DEF AgentRecord
        <3>3. agents'[a] = agents[a] \/ agents'[a] = ReleaseAgent(agents[a])
            BY <1>1, <1>2
        <3> QED
            BY <3>1, <3>2, <3>3
    <2> QED
        BY <1>4, <2>1 DEF RunningExecutes
<1> QED
    BY <1>3, <1>4 DEF RunningExecutes

LEMMA TasksStep ==
    ExecInv /\ RunningExecutes /\ [Next]_vars
        => RunningExecutes' /\ [\A t \in Task : GetsOn(t)]_vars
<1> SUFFICES ASSUME ExecInv, RunningExecutes, [Next]_vars
             PROVE  RunningExecutes' /\ [\A t \in Task : GetsOn(t)]_vars
    OBVIOUS
<1>1. CASE \E n \in 1 .. MaxBatch : SubmitBatch(n)
    BY <1>1, SubmitBatchGetsOn
<1>2. CASE WakeUp
    BY <1>2, WakeUpGetsOn
<1>3. CASE \E t \in Task : NextStep(t)
    BY <1>3, NextStepGetsOn
<1>a. agents \in [Agent -> [status : {"absent", "idle", "busy", "error"},
                            currentTask : Task \cup {NoTask}, tasksCompleted : Nat]]
    BY DEF ExecInv, Consistent, AgentRecord
<1>4. ASSUME NEW t \in Task, CompleteTask(t)
      PROVE  RunningExecutes' /\ [\A u \in Task : GetsOn(u)]_vars
    <2>1. step[t] > 0 /\ HandleTaskComplete(t, "completed", agents)
        BY <1>4, ExecutorAssumption DEF CompleteTask
    <2> QED
        BY <1>a, <2>1, EndGetsOn
<1>5. ASSUME NEW t \in Task, FailTask(t)
      PROVE  RunningExecutes' /\ [\A u \in Task : GetsOn(u)]_vars
    <2>1. PICK pool : pool = [agents EXCEPT ![execAgent[t]] = MarkAgentError(@)]
        OBVIOUS
    <2>2. step[t] > 0 /\ HandleTaskComplete(t, "failed", pool)
        BY <1>5, <2>1 DEF FailTask
    <2>3. pool \in [Agent -> [status : {"absent", "idle", "busy", "error"},
                              currentTask : Task \cup {NoTask}, tasksCompleted : Nat]]
        BY <1>a, <2>1 DEF MarkAgentError
    <2>4. \A a \in Agent \ {execAgent[t]} : pool[a] = agents[a]
        BY <1>a, <2>1
    <2> QED
        BY <2>2, <2>3, <2>4, EndGetsOn
<1>6. CASE \E t \in Task : CancelTask(t)
    BY <1>6, CancelGetsOn
<1>7. CASE UNCHANGED vars
    BY <1>7 DEF vars, RunningExecutes
<1> QED
    BY <1>1, <1>2, <1>3, <1>4, <1>5, <1>6, <1>7 DEF Next

\* Whatever is submitted, cancelled or fails, a task never goes back: every step that touches
\* it, the late completion of a cancelled one included, takes it nearer to its end.
THEOREM TasksGetOn ==
    Spec => /\ [](\A t \in Task :
                    StepsLeft(state[t], step[t], t \in runningTasks) \in 0 .. (NumSteps + 3))
            /\ [][\A t \in Task : GetsOn(t)]_vars
<1>1. ExecInv => \A t \in Task :
                   StepsLeft(state[t], step[t], t \in runningTasks) \in 0 .. (NumSteps + 3)
    <2> SUFFICES ASSUME ExecInv, NEW t \in Task
                 PROVE  StepsLeft(state[t], step[t], t \in runningTasks) \in 0 .. (NumSteps + 3)
        OBVIOUS
    <2>1. step[t] \in 0 .. NumSteps /\ NumSteps \in Nat
        BY OneTask
    <2> QED
        BY <2>1 DEF StepsLeft
<1>2. Init => RunningExecutes
    BY DEF Init, InitialPool, RunningExecutes
<1>3. ExecInv /\ RunningExecutes /\ [Next]_vars
        => RunningExecutes' /\ [\A t \in Task : GetsOn(t)]_vars
    BY TasksStep
<1> QED
    BY <1>1, <1>2, <1>3, ExecInvHolds, PTL DEF Spec

\* A running task has a timer pending; while a task waits a loop sleeps that will look at the
\* queue, and if no execution is in flight that loop finds an agent.
NotStuck ==
    \A t \in Task :
      /\ state[t] = "running" => t \in InFlight
      /\ state[t] = "pending" => /\ sleepers > 0
                                 /\ InFlight # {} \/ Available(agents) = Agent

\* The executor never stands still with work left: no error, cancel or late release leaves a
\* task without a timer, a queue without a loop or the pool without an agent.
THEOREM NeverStuck == Spec => []NotStuck
<1>1. Init => RunningExecutes
    BY DEF Init, InitialPool, RunningExecutes
<1>2. ExecInv /\ RunningExecutes /\ [Next]_vars => RunningExecutes'
    BY TasksStep
<1>3. ExecInv /\ RunningExecutes => NotStuck
    <2> SUFFICES ASSUME ExecInv, RunningExecutes, NEW t \in Task
                 PROVE  /\ state[t] = "running" => t \in InFlight
                        /\ state[t] = "pending" => /\ sleepers > 0
                                                   /\ InFlight # {} \/ Available(agents) = Agent
        BY DEF NotStuck
    <2>1. state[t] = "running" => t \in InFlight
        BY DEF RunningExecutes, InFlight
    <2>2. ASSUME state[t] = "pending" PROVE sleepers > 0
        <3>1. /\ taskQueue \in Seq(Task) /\ submitted \in 0 .. NumTasks
              /\ submitted - Len(taskQueue) < t /\ t <= submitted
            BY <2>2 DEF ExecInv, Consistent
        <3>2. taskQueue # <<>>
            <4>1. Len(taskQueue) \in Nat /\ submitted \in Nat /\ t \in Nat
                BY <3>1, ExecutorAssumption DEF Task
            <4>2. Len(taskQueue) # 0
                BY <3>1, <4>1
            <4> QED
                BY <4>2
        <3> QED
            BY <3>2 DEF ExecInv, WaitingTasksArePolled
    <2>3. ASSUME InFlight = {} PROVE Available(agents) = Agent
        <3>1. ASSUME NEW a \in Agent PROVE agents[a].status \in {"idle", "absent"}
            <4>1. agents[a].currentTask = NoTask
                <5>1. agents[a].currentTask \in Task \cup {NoTask}
                    BY DEF ExecInv, Consistent, AgentRecord
                <5>2. PICK u : u = agents[a].currentTask
                    OBVIOUS
                <5>3. u # NoTask => u \in Task /\ step[u] > 0
                    BY <5>1, <5>2 DEF ExecInv, Consistent
                <5> QED
                    BY <2>3, <5>2, <5>3 DEF InFlight
            <4>2. agents[a].status # "busy"
                BY <4>1 DEF RunningExecutes
            <4>3. agents[a].status \in {"absent", "idle", "busy"}
                BY DEF ExecInv, Consistent, AgentRecord
            <4> QED
                BY <4>2, <4>3
        <3> QED
            BY <3>1 DEF Available
    <2> QED
        BY <2>1, <2>2, <2>3
<1> QED
    BY <1>1, <1>2, <1>3, ExecInvHolds, PTL DEF Spec
=============================================================================
