--------------------------- MODULE PipelineProofs ---------------------------
(***************************************************************************)
(* For any number of stages, retries and calls of execute and resume, with *)
(* pause and cancel at any moment: what a loop finds done when it starts a *)
(* stage, that the pipeline never hangs, and what holds while nobody       *)
(* interferes.                                                             *)
(***************************************************************************)
EXTENDS AutonomousPipeline, TLAPS

LoopRecord == [at : {"unused", "stage", "backoff", "over"}, stage : Stage,
               attempt : 0 .. Retries]

\* As long as nobody interferes, a loop is at the stage after the completed ones, and
\* only a running pipeline has a loop.
LoopFollows ==
    ~interrupted =>
        /\ status # "paused"
        /\ \A l \in Active : /\ loops[l].stage = Len(completedStages) + 1
                             /\ status = "running"

\* A backoff is only waited for when a retry is left.
RetriesLeft == \A l \in Loop : loops[l].at = "backoff" => loops[l].attempt < Retries

PipelineInv ==
    /\ TypeOK
    /\ RetriesLeft
    /\ PrerequisitesDone
    /\ RunningIsActive
    /\ LoopFollows
    /\ StagesCompleteInOrder

----------------------------------------------------------------------------
\* Numbers and sequences.

LEMMA RetriesNat == Retries \in Nat
    BY PipelineAssumption DEF Retries

\* One stage more is done.
LEMMA AppendStage ==
    ASSUME NEW done \in Seq(Stage), NEW s \in Stage
    PROVE  /\ Append(done, s) \in Seq(Stage)
           /\ Len(Append(done, s)) = Len(done) + 1
           /\ ToSet(Append(done, s)) = ToSet(done) \cup {s}
           /\ Append(done, s)[Len(done) + 1] = s
           /\ \A i \in 1 .. Len(done) : Append(done, s)[i] = done[i]
<1>1. /\ Append(done, s) \in Seq(Stage) /\ Len(done) \in Nat
      /\ Len(Append(done, s)) = Len(done) + 1
      /\ DOMAIN done = 1 .. Len(done) /\ DOMAIN Append(done, s) = 1 .. Len(done) + 1
      /\ Append(done, s)[Len(done) + 1] = s
      /\ \A i \in 1 .. Len(done) : Append(done, s)[i] = done[i]
    OBVIOUS
<1>2. ToSet(Append(done, s)) = ToSet(done) \cup {s}
    BY <1>1 DEF ToSet
<1> QED
    BY <1>1, <1>2

\* The stages done in order are the first ones.
LEMMA InOrder ==
    ASSUME NEW done \in Seq(Stage), done = [i \in 1 .. Len(done) |-> i]
    PROVE  ToSet(done) = 1 .. Len(done) /\ Len(done) \in 0 .. NumStages
<1>1. Len(done) \in Nat /\ DOMAIN done = 1 .. Len(done)
    OBVIOUS
<1>2. \A i \in 1 .. Len(done) : done[i] = i /\ done[i] \in Stage
    BY <1>1
<1>3. ToSet(done) = 1 .. Len(done)
    BY <1>1, <1>2 DEF ToSet
<1>4. Len(done) <= NumStages
    <2>1. CASE Len(done) = 0
        BY <2>1, PipelineAssumption
    <2>2. CASE Len(done) # 0
        <3>1. Len(done) \in 1 .. Len(done)
            BY <1>1, <2>2
        <3> QED
            BY <1>2, <3>1, PipelineAssumption DEF Stage
    <2> QED
        BY <2>1, <2>2
<1> QED
    BY <1>1, <1>3, <1>4

LEMMA PercentFacts ==
    /\ Percent(<<>>) = 0
    /\ \A done \in Seq(Stage) : Percent(done) \in Nat
    /\ \A done \in Seq(Stage) : Len(done) = NumStages => Percent(done) = 100
<1>1. NumStages \in Nat /\ 0 < NumStages
    BY PipelineAssumption
<1>2. Percent(<<>>) = 0
    BY <1>1 DEF Percent
<1>3. ASSUME NEW done \in Seq(Stage) PROVE Percent(done) \in Nat
    <2>1. PICK n \in Nat : n = Len(done) * 100
        OBVIOUS
    <2>2. n \div NumStages \in Nat
        BY <1>1
    <2> QED
        BY <2>1, <2>2 DEF Percent
<1>4. (NumStages * 100) \div NumStages = 100
    BY <1>1, Z3
<1> QED
    BY <1>2, <1>3, <1>4 DEF Percent

----------------------------------------------------------------------------
\* A loop at stage i goes on: what it needs is done, and what it may write keeps its type.
LEMMA ContinueStep ==
    ASSUME TypeOK, NEW l \in Loop, NEW i \in 1 .. NumStages + 1,
           NEW st \in {"pending", "running", "paused", "completed", "failed"},
           NEW done \in Seq(Stage), NEW percent \in Nat,
           1 .. (i - 1) \subseteq ToSet(done),
           ToSet(completedStages) \subseteq ToSet(done), PrerequisitesDone, RetriesLeft,
           Continue(l, i, st, done, percent), completedStages' = done
    PROVE  /\ status' \in {"pending", "running", "paused", "completed", "failed"}
           /\ currentStage' \in Stage /\ progress' \in Nat
           /\ loops' \in [Loop -> LoopRecord]
           /\ RetriesLeft'
           /\ PrerequisitesDone'
           /\ RunningIsActive'
<1>a. loops \in [Loop -> LoopRecord] /\ currentStage \in Stage /\ NumStages \in Nat
    BY PipelineAssumption DEF TypeOK, LoopRecord
<1>b. \A m \in Active : 1 .. (loops[m].stage - 1) \subseteq ToSet(done)
    BY DEF PrerequisitesDone
<1>1. CASE st = "paused" \/ Left(i, done) = {}
    <2>1. /\ status' = "completed" /\ progress' = 100 /\ currentStage' = currentStage
          /\ loops' = [loops EXCEPT ![l].at = "over"]
        BY <1>1 DEF Continue
    <2>2. loops' \in [Loop -> LoopRecord]
        BY <1>a, <2>1 DEF LoopRecord
    <2>3. \A m \in Active' : m \in Active /\ loops'[m] = loops[m]
        BY <1>a, <2>1 DEF Active, LoopRecord
    <2>4. PrerequisitesDone'
        BY <1>b, <2>3 DEF PrerequisitesDone
    <2>5. RetriesLeft'
        BY <1>a, <2>1, <2>2 DEF RetriesLeft, LoopRecord
    <2> QED
        BY <1>a, <2>1, <2>2, <2>4, <2>5 DEF RunningIsActive
<1>2. CASE ~(st = "paused" \/ Left(i, done) = {})
    <2>1. PICK s \in Left(i, done) :
            /\ \A j \in Left(i, done) : s <= j
            /\ status' = st /\ progress' = percent /\ currentStage' = s
            /\ loops' = [loops EXCEPT ![l] = [at |-> "stage", stage |-> s, attempt |-> 0]]
        BY <1>2 DEF Continue
    <2>2. s \in Left(i, done) /\ \A j \in Left(i, done) : s <= j
        BY <2>1
    <2>3. s \in Stage
        BY <1>a, <2>2 DEF Left, Stage
    <2>4. 1 .. (s - 1) \subseteq ToSet(done)
        <3>1. ASSUME NEW j \in 1 .. (s - 1) PROVE j \in ToSet(done)
            <4>1. j \in 1 .. (i - 1) \/ j \in i .. NumStages
                BY <1>a, <2>3 DEF Stage
            <4>2. j \notin Left(i, done)
                BY <1>a, <2>2, <2>3 DEF Stage
            <4> QED
                BY <4>1, <4>2 DEF Left
        <3> QED
            BY <3>1
    <2>5. [at |-> "stage", stage |-> s, attempt |-> 0] \in LoopRecord
        BY <2>3, RetriesNat DEF LoopRecord
    <2>6. loops' \in [Loop -> LoopRecord] /\ loops'[l].at = "stage" /\ loops'[l].stage = s
        BY <1>a, <2>1, <2>5
    <2>7. PrerequisitesDone'
        BY <1>a, <1>b, <2>1, <2>4, <2>6 DEF PrerequisitesDone, Active
    <2>8. RunningIsActive'
        BY <2>6 DEF RunningIsActive, Active
    <2>9. RetriesLeft'
        BY <1>a, <2>1, <2>6 DEF RetriesLeft
    <2> QED
        BY <2>1, <2>3, <2>6, <2>7, <2>8, <2>9
<1> QED
    BY <1>1, <1>2

LEMMA PipelineInvInit == Init => PipelineInv
<1> SUFFICES ASSUME Init PROVE PipelineInv
    OBVIOUS
<1>1. NumStages \in Nat /\ 0 < NumStages /\ 1 \in Stage
    BY PipelineAssumption DEF Stage
<1>2. [at |-> "unused", stage |-> 1, attempt |-> 0] \in LoopRecord
    BY <1>1, RetriesNat DEF LoopRecord
<1>3. TypeOK /\ RetriesLeft
    <2>1. loops \in [Loop -> LoopRecord] /\ \A l \in Loop : loops[l].at = "unused"
        BY <1>2 DEF Init
    <2>2. /\ status \in {"pending", "running", "paused", "completed", "failed"}
          /\ currentStage \in Stage /\ progress \in Nat /\ interrupted \in BOOLEAN
        BY <1>1 DEF Init
    <2>3. completedStages \in Seq(Stage) /\ stageResults \in Seq([stage : Stage, success : BOOLEAN])
        BY DEF Init
    <2> QED
        BY <2>1, <2>2, <2>3 DEF TypeOK, LoopRecord, RetriesLeft
<1>4. Active = {}
    BY DEF Init, Active
<1>5. completedStages = [i \in 1 .. Len(completedStages) |-> i] /\ progress = Percent(completedStages)
    BY PercentFacts DEF Init
<1> QED
    BY <1>3, <1>4, <1>5
       DEF Init, PipelineInv, PrerequisitesDone, RunningIsActive, LoopFollows,
           StagesCompleteInOrder

\* What a loop that goes on keeps of the order, when nobody has interfered: no other loop
\* is active, and the stages done are the first n.
LEMMA ContinueInOrder ==
    ASSUME TypeOK, NEW l \in Loop, NEW i \in 1 .. NumStages + 1, NEW done \in Seq(Stage),
           Continue(l, i, "running", done, Percent(done)),
           completedStages' = done, done = [j \in 1 .. Len(done) |-> j], i <= Len(done) + 1,
           \A m \in Active : m = l
    PROVE  /\ status' # "paused"
           /\ \A m \in Active' : /\ m = l /\ loops'[m].stage = Len(done) + 1
                                 /\ status' = "running"
           /\ status' = "completed" => Len(done) = NumStages
           /\ progress' = Percent(done)
<1>a. loops \in [Loop -> LoopRecord] /\ NumStages \in Nat /\ Len(done) \in Nat
    BY PipelineAssumption DEF TypeOK, LoopRecord
<1>b. ToSet(done) = 1 .. Len(done) /\ Len(done) <= NumStages
    BY <1>a, InOrder
<1>c. Left(i, done) = (Len(done) + 1) .. NumStages
    BY <1>a, <1>b DEF Left
<1>1. CASE Left(i, done) = {}
    <2>1. Len(done) = NumStages
        <3>1. SUFFICES ASSUME Len(done) # NumStages PROVE FALSE
            OBVIOUS
        <3>2. Len(done) + 1 <= NumStages
            <4>1. \A a, b \in Nat : a <= b /\ a # b => a + 1 <= b
                OBVIOUS
            <4> QED
                BY <1>a, <1>b, <3>1, <4>1
        <3>3. NumStages \in (Len(done) + 1) .. NumStages
            BY <1>a, <3>2
        <3> QED
            BY <1>1, <1>c, <3>3
    <2>2. /\ status' = "completed" /\ progress' = 100
          /\ loops' = [loops EXCEPT ![l].at = "over"]
        BY <1>1 DEF Continue
    <2>3. Active' = {}
        BY <1>a, <2>2 DEF Active, LoopRecord
    <2> QED
        BY <2>1, <2>2, <2>3, PercentFacts
<1>2. CASE Left(i, done) # {}
    <2>1. PICK s \in Left(i, done) :
            /\ \A j \in Left(i, done) : s <= j
            /\ status' = "running" /\ progress' = Percent(done)
            /\ loops' = [loops EXCEPT ![l] = [at |-> "stage", stage |-> s, attempt |-> 0]]
        BY <1>2 DEF Continue
    <2>2. s = Len(done) + 1
        <3>1. Len(done) + 1 \in Left(i, done)
            BY <1>a, <1>c, <2>1
        <3> QED
            BY <1>a, <1>c, <2>1, <3>1
    <2>3. \A m \in Active' : m = l
        BY <1>a, <2>1 DEF Active
    <2> QED
        BY <1>a, <2>1, <2>2, <2>3
<1> QED
    BY <1>1, <1>2

\* A step of loop l that leaves the pipeline's fields alone and stays active.
LEMMA RetryStep ==
    ASSUME PipelineInv, NEW l \in Active, NEW k \in LoopRecord, k.at \in {"stage", "backoff"},
           k.at = "backoff" => k.attempt < Retries, k.stage = loops[l].stage, loops' = [loops EXCEPT ![l] = k],
           UNCHANGED <<status, currentStage, completedStages, stageResults, progress, interrupted>>
    PROVE  PipelineInv'
<1>a. loops \in [Loop -> LoopRecord] /\ l \in Loop
    BY DEF PipelineInv, TypeOK, LoopRecord, Active
<1>1. Active' = Active /\ \A m \in Active : loops'[m].stage = loops[m].stage
    BY <1>a DEF Active
<1>2. loops' \in [Loop -> LoopRecord]
    BY <1>a
<1>3. TypeOK' /\ RetriesLeft'
    BY <1>a, <1>2 DEF PipelineInv, TypeOK, LoopRecord, RetriesLeft
<1> QED
    BY <1>1, <1>3
       DEF PipelineInv, PrerequisitesDone, RunningIsActive, LoopFollows,
           StagesCompleteInOrder, Percent

LEMMA ExecuteStep ==
    ASSUME PipelineInv, NEW l \in Loop, Execute(l)
    PROVE  PipelineInv'
<1>1. /\ NotRunning /\ loops[l].at = "unused"
      /\ Continue(l, 1, "running", completedStages, progress)
      /\ completedStages' = completedStages
      /\ UNCHANGED <<stageResults, interrupted>>
    BY DEF Execute
<1>2. /\ TypeOK /\ RetriesLeft /\ PrerequisitesDone /\ completedStages \in Seq(Stage) /\ progress \in Nat
      /\ 1 \in 1 .. NumStages + 1 /\ 1 .. (1 - 1) \subseteq ToSet(completedStages)
    BY PipelineAssumption DEF PipelineInv, TypeOK
<1>3. /\ status' \in {"pending", "running", "paused", "completed", "failed"}
      /\ currentStage' \in Stage /\ progress' \in Nat /\ loops' \in [Loop -> LoopRecord]
      /\ RetriesLeft' /\ PrerequisitesDone' /\ RunningIsActive'
    BY <1>1, <1>2, ContinueStep
<1>4. TypeOK'
    BY <1>1, <1>2, <1>3 DEF TypeOK, LoopRecord
<1>5. CASE interrupted
    BY <1>1, <1>3, <1>4, <1>5 DEF PipelineInv, LoopFollows, StagesCompleteInOrder
<1>6. CASE ~interrupted
    <2>1. Active = {}
        BY <1>1, <1>6 DEF PipelineInv, LoopFollows, NotRunning
    <2>2. /\ completedStages = [j \in 1 .. Len(completedStages) |-> j]
          /\ progress = Percent(completedStages)
        BY <1>6 DEF PipelineInv, StagesCompleteInOrder
    <2>3. Continue(l, 1, "running", completedStages, Percent(completedStages))
        BY <1>1, <2>2
    <2>4. 1 <= Len(completedStages) + 1
        BY <1>2
    <2>5. /\ status' # "paused"
          /\ \A m \in Active' : /\ m = l /\ loops'[m].stage = Len(completedStages) + 1
                                /\ status' = "running"
          /\ status' = "completed" => Len(completedStages) = NumStages
          /\ progress' = Percent(completedStages)
        BY <1>1, <1>2, <2>1, <2>2, <2>3, <2>4, ContinueInOrder
    <2> QED
        BY <1>1, <1>3, <1>4, <1>6, <2>2, <2>5
           DEF PipelineInv, LoopFollows, StagesCompleteInOrder, Percent
<1> QED
    BY <1>5, <1>6

LEMMA StageSucceedsStep ==
    ASSUME PipelineInv, NEW l \in Loop, StageSucceeds(l)
    PROVE  PipelineInv'
<1>0. PICK s, done : s = loops[l].stage /\ done = Append(completedStages, s)
    OBVIOUS
<1>1. /\ loops[l].at = "stage" /\ completedStages' = done
      /\ stageResults' = Append(stageResults, Result(s, TRUE))
      /\ Continue(l, s + 1, status, done, Percent(done))
      /\ UNCHANGED interrupted
    BY <1>0 DEF StageSucceeds
<1>2. /\ TypeOK /\ RetriesLeft /\ PrerequisitesDone /\ completedStages \in Seq(Stage)
      /\ status \in {"pending", "running", "paused", "completed", "failed"}
      /\ stageResults \in Seq([stage : Stage, success : BOOLEAN])
      /\ loops \in [Loop -> LoopRecord] /\ NumStages \in Nat
    BY PipelineAssumption DEF PipelineInv, TypeOK, LoopRecord
<1>3. s \in Stage /\ s \in Nat /\ s + 1 \in 1 .. NumStages + 1 /\ l \in Active
    BY <1>0, <1>1, <1>2 DEF LoopRecord, Stage, Active
<1>4. /\ done \in Seq(Stage) /\ Len(done) = Len(completedStages) + 1
      /\ ToSet(done) = ToSet(completedStages) \cup {s} /\ done[Len(completedStages) + 1] = s
      /\ \A j \in 1 .. Len(completedStages) : done[j] = completedStages[j]
    BY <1>0, <1>2, <1>3, AppendStage
<1>5. 1 .. ((s + 1) - 1) \subseteq ToSet(done)
    <2>1. 1 .. (s - 1) \subseteq ToSet(completedStages)
        BY <1>0, <1>2, <1>3 DEF PrerequisitesDone
    <2>2. 1 .. ((s + 1) - 1) = (1 .. (s - 1)) \cup {s}
        BY <1>3 DEF Stage
    <2> QED
        BY <1>4, <2>1, <2>2
<1>6. Percent(done) \in Nat
    BY <1>4, PercentFacts
<1>7. /\ status' \in {"pending", "running", "paused", "completed", "failed"}
      /\ currentStage' \in Stage /\ progress' \in Nat /\ loops' \in [Loop -> LoopRecord]
      /\ RetriesLeft' /\ PrerequisitesDone' /\ RunningIsActive'
    BY <1>1, <1>2, <1>3, <1>4, <1>5, <1>6, ContinueStep
<1>8. TypeOK'
    <2>0. PICK result : result = Result(s, TRUE)
        OBVIOUS
    <2>1. result \in [stage : Stage, success : BOOLEAN]
        BY <1>3, <2>0 DEF Result
    <2>2. stageResults' \in Seq([stage : Stage, success : BOOLEAN])
        <3>1. stageResults' = Append(stageResults, result)
            BY <1>1, <2>0
        <3>2. stageResults \in Seq([stage : Stage, success : BOOLEAN])
            BY <1>2
        <3> QED
            BY <2>1, <3>1, <3>2
    <2> QED
        BY <1>1, <1>2, <1>4, <1>7, <2>2 DEF TypeOK, LoopRecord
<1>9. CASE interrupted
    BY <1>1, <1>7, <1>8, <1>9 DEF PipelineInv, LoopFollows, StagesCompleteInOrder
<1>10. CASE ~interrupted
    <2>1. /\ s = Len(completedStages) + 1 /\ status = "running" /\ \A m \in Active : m = l
          /\ completedStages = [j \in 1 .. Len(completedStages) |-> j]
        BY <1>0, <1>3, <1>10 DEF PipelineInv, LoopFollows, StagesCompleteInOrder
    <2>2. done = [j \in 1 .. Len(done) |-> j]
        <3>1. DOMAIN done = 1 .. Len(done) /\ Len(completedStages) \in Nat
            BY <1>2, <1>4
        <3>2. \A j \in 1 .. Len(done) : done[j] = j
            BY <1>4, <2>1, <3>1
        <3> QED
            BY <1>4, <3>1, <3>2
    <2>3. Continue(l, s + 1, "running", done, Percent(done)) /\ s + 1 <= Len(done) + 1
        BY <1>1, <1>2, <1>4, <2>1
    <2>4. /\ status' # "paused"
          /\ \A m \in Active' : /\ m = l /\ loops'[m].stage = Len(done) + 1
                                /\ status' = "running"
          /\ status' = "completed" => Len(done) = NumStages
          /\ progress' = Percent(done)
        <3>1. /\ TypeOK /\ done \in Seq(Stage) /\ completedStages' = done
              /\ s + 1 \in 1 .. NumStages + 1 /\ \A m \in Active : m = l
            BY <1>1, <1>2, <1>3, <1>4, <2>1
        <3> QED
            BY <2>2, <2>3, <3>1, ContinueInOrder
    <2> QED
        BY <1>1, <1>7, <1>8, <1>10, <2>2, <2>4
           DEF PipelineInv, LoopFollows, StagesCompleteInOrder, Percent
<1> QED
    BY <1>9, <1>10

LEMMA StageFailsStep ==
    ASSUME PipelineInv, NEW l \in Loop, StageFails(l)
    PROVE  PipelineInv'
<1>0. PICK result : result = Result(loops[l].stage, FALSE)
    OBVIOUS
<1>1. /\ status' = "failed" /\ stageResults' = Append(stageResults, result)
      /\ loops' = [loops EXCEPT ![l].at = "over"]
      /\ UNCHANGED <<currentStage, completedStages, progress, interrupted>>
    BY <1>0 DEF StageFails, Failed
<1>2. TypeOK /\ loops \in [Loop -> LoopRecord]
    BY DEF PipelineInv, TypeOK, LoopRecord
<1>3. loops' \in [Loop -> LoopRecord] /\ \A m \in Active' : m \in Active /\ loops'[m] = loops[m]
                                                             /\ m # l
    BY <1>1, <1>2 DEF LoopRecord, Active
<1>4. result \in [stage : Stage, success : BOOLEAN]
    BY <1>0, <1>2 DEF Result, LoopRecord
<1>5. TypeOK'
    <2>1. stageResults' \in Seq([stage : Stage, success : BOOLEAN])
        BY <1>1, <1>2, <1>4 DEF TypeOK
    <2> QED
        BY <1>1, <1>2, <1>3, <2>1 DEF TypeOK, LoopRecord
<1>6. PrerequisitesDone' /\ RunningIsActive'
    BY <1>1, <1>3 DEF PipelineInv, PrerequisitesDone, RunningIsActive
<1>9. RetriesLeft'
    BY <1>1, <1>2 DEF PipelineInv, RetriesLeft, LoopRecord
<1>7. l \in Active
    BY DEF StageFails, Active
<1>8. LoopFollows' /\ StagesCompleteInOrder'
    BY <1>1, <1>3, <1>7 DEF PipelineInv, LoopFollows, StagesCompleteInOrder, Percent
<1> QED
    BY <1>5, <1>6, <1>8, <1>9 DEF PipelineInv

LEMMA PipelineInvStep == PipelineInv /\ [Next]_vars => PipelineInv'
<1> SUFFICES ASSUME PipelineInv, [Next]_vars PROVE PipelineInv'
    OBVIOUS
<1>a. loops \in [Loop -> LoopRecord]
    BY DEF PipelineInv, TypeOK, LoopRecord
<1>1. CASE Pause \/ Cancel
    <2>1. /\ UNCHANGED <<currentStage, completedStages, stageResults, progress, loops>>
          /\ interrupted' = TRUE /\ status' \in {"paused", "failed"}
          /\ status' = "paused" => status = "running"
        BY <1>1 DEF Pause, Cancel
    <2>2. Active' = Active
        BY <2>1 DEF Active
    <2>3. TypeOK' /\ RetriesLeft'
        BY <2>1 DEF PipelineInv, TypeOK, RetriesLeft
    <2> QED
        BY <2>1, <2>2, <2>3
           DEF PipelineInv, PrerequisitesDone, RunningIsActive, LoopFollows,
               StagesCompleteInOrder
<1>2. ASSUME NEW l \in Loop, Execute(l) \/ Resume(l) PROVE PipelineInv'
    BY <1>2, ExecuteStep DEF Resume
<1>3. ASSUME NEW l \in Loop, StageSucceeds(l) PROVE PipelineInv'
    BY <1>3, StageSucceedsStep
<1>4. ASSUME NEW l \in Loop, AttemptFails(l) PROVE PipelineInv'
    <2>0. PICK k : k = [loops[l] EXCEPT !.at = "backoff"]
        OBVIOUS
    <2>1. l \in Active /\ k \in LoopRecord /\ k.at = "backoff" /\ k.stage = loops[l].stage
          /\ k.attempt < Retries
        BY <1>4, <1>a, <2>0 DEF AttemptFails, Active, LoopRecord, MoreAttempts
    <2>2. loops' = [loops EXCEPT ![l] = k]
        BY <1>4, <2>0 DEF AttemptFails
    <2> QED
        BY <1>4, <2>1, <2>2, RetryStep DEF AttemptFails
<1>5. ASSUME NEW l \in Loop, BackoffOver(l) PROVE PipelineInv'
    <2>0. PICK k : k = [loops[l] EXCEPT !.at = "stage", !.attempt = NextAttempt(l)]
        OBVIOUS
    <2>1. l \in Active
        BY <1>5 DEF BackoffOver, Active
    <2>2. k \in LoopRecord /\ k.at = "stage" /\ k.stage = loops[l].stage
        BY <1>5, <1>a, <2>0, RetriesNat
           DEF PipelineInv, RetriesLeft, BackoffOver, LoopRecord, NextAttempt
    <2>3. loops' = [loops EXCEPT ![l] = k]
        BY <1>5, <1>a, <2>0 DEF BackoffOver
    <2> QED
        BY <1>5, <2>1, <2>2, <2>3, RetryStep DEF BackoffOver
<1>6. ASSUME NEW l \in Loop, StageFails(l) PROVE PipelineInv'
    BY <1>6, StageFailsStep
<1>7. CASE UNCHANGED vars
    BY <1>7 DEF vars, PipelineInv, TypeOK, RetriesLeft, PrerequisitesDone, RunningIsActive, LoopFollows,
                StagesCompleteInOrder, Active, Percent
<1> QED
    BY <1>1, <1>2, <1>3, <1>4, <1>5, <1>6, <1>7 DEF Next

LEMMA PipelineInvHolds == Spec => []PipelineInv
BY PipelineInvInit, PipelineInvStep, PTL DEF Spec

\* The fields of a pipeline keep their types, and no stage is tried more often than the
\* configuration allows.
THEOREM TypeCorrect == Spec => []TypeOK
<1>1. PipelineInv => TypeOK
    BY DEF PipelineInv
<1> QED
    BY <1>1, PipelineInvHolds, PTL

\* However often it is paused, cancelled, resumed and executed again, a loop starts a stage
\* with the artifacts of all earlier ones.
THEOREM PrerequisitesHold == Spec => []PrerequisitesDone
<1>1. PipelineInv => PrerequisitesDone
    BY DEF PipelineInv
<1> QED
    BY <1>1, PipelineInvHolds, PTL

\* No pipeline is left running or paused without a loop that will end it.
THEOREM NeverHangs == Spec => []RunningIsActive
<1>1. PipelineInv => RunningIsActive
    BY DEF PipelineInv
<1> QED
    BY <1>1, PipelineInvHolds, PTL

\* As long as nobody pauses or cancels, stages complete once each and in order, also when
\* the pipeline is executed again after a failure.
THEOREM StagesInOrder == Spec => []StagesCompleteInOrder
<1>1. PipelineInv => StagesCompleteInOrder
    BY DEF PipelineInv
<1> QED
    BY <1>1, PipelineInvHolds, PTL

----------------------------------------------------------------------------
(* No call of execute goes on for ever. *)

\* k is nearer to the end than q: over, at a later stage, at a later attempt of its stage,
\* or in the backoff after this attempt.  Stages and attempts are bounded, so there is no
\* endless chain of such steps.
Nearer(k, q) ==
    \/ k.at = "over"
    \/ /\ k.at \in {"stage", "backoff"}
       /\ \/ k.stage > q.stage
          \/ k.stage = q.stage /\ k.attempt > q.attempt
          \/ k.stage = q.stage /\ k.attempt = q.attempt /\ k.at = "backoff" /\ q.at = "stage"

\* what any step may do to a loop under way, and to one that is over
GetsOn(l) ==
    /\ l \in Active => loops'[l] = loops[l] \/ Nearer(loops'[l], loops[l])
    /\ loops[l].at = "over" => loops'[l] = loops[l]

\* A loop goes on to a later stage, or ends.
LEMMA ContinueGetsOn ==
    ASSUME TypeOK, NEW l \in Loop, NEW i \in Nat, NEW st, NEW done, NEW percent,
           Continue(l, i, st, done, percent), l \in Active => loops[l].stage < i, loops[l].at # "over"
    PROVE  \A m \in Loop : GetsOn(m)
<1>a. loops \in [Loop -> LoopRecord] /\ NumStages \in Nat
    BY PipelineAssumption DEF TypeOK, LoopRecord
<1>1. CASE st = "paused" \/ Left(i, done) = {}
    <2>1. loops' = [loops EXCEPT ![l].at = "over"]
        BY <1>1 DEF Continue
    <2>2. loops'[l].at = "over" /\ \A m \in Loop : m # l => loops'[m] = loops[m]
        BY <1>a, <2>1 DEF LoopRecord
    <2> QED
        BY <2>2 DEF GetsOn, Nearer
<1>2. CASE ~(st = "paused" \/ Left(i, done) = {})
    <2>1. PICK s \in Left(i, done) :
            loops' = [loops EXCEPT ![l] = [at |-> "stage", stage |-> s, attempt |-> 0]]
        BY <1>2 DEF Continue
    <2>2. s \in Nat /\ i <= s
        BY <1>a, <2>1 DEF Left
    <2>3. /\ loops'[l].at = "stage" /\ loops'[l].stage = s
          /\ \A m \in Loop : m # l => loops'[m] = loops[m]
        BY <1>a, <2>1
    <2>4. l \in Active => loops'[l].stage > loops[l].stage
        BY <1>a, <2>2, <2>3 DEF LoopRecord, Stage
    <2> QED
        BY <2>3, <2>4 DEF GetsOn, Nearer
<1> QED
    BY <1>1, <1>2

LEMMA StepsGetOn ==
    ASSUME PipelineInv, [Next]_vars
    PROVE  \A m \in Loop : GetsOn(m)
<1>a. TypeOK /\ loops \in [Loop -> LoopRecord]
    BY DEF PipelineInv, TypeOK, LoopRecord
<1>1. CASE Pause \/ Cancel \/ UNCHANGED vars
    BY <1>1 DEF Pause, Cancel, vars, GetsOn
<1>2. ASSUME NEW l \in Loop, Execute(l) \/ Resume(l) PROVE \A m \in Loop : GetsOn(m)
    <2>1. loops[l].at = "unused" /\ Continue(l, 1, "running", completedStages, progress)
        BY <1>2 DEF Execute, Resume
    <2> QED
        BY <1>a, <2>1, ContinueGetsOn DEF Active
<1>3. ASSUME NEW l \in Loop, StageSucceeds(l) PROVE \A m \in Loop : GetsOn(m)
    <2>1. PICK s, done : s = loops[l].stage /\ done = Append(completedStages, s)
        OBVIOUS
    <2>2. loops[l].at = "stage" /\ Continue(l, s + 1, status, done, Percent(done))
        BY <1>3, <2>1 DEF StageSucceeds
    <2>3. s + 1 \in Nat /\ loops[l].stage < s + 1
        BY <1>a, <2>1 DEF LoopRecord, Stage
    <2> QED
        BY <1>a, <2>2, <2>3, ContinueGetsOn
<1>4. ASSUME NEW l \in Loop, AttemptFails(l) PROVE \A m \in Loop : GetsOn(m)
    <2>1. loops[l].at = "stage" /\ loops' = [loops EXCEPT ![l].at = "backoff"]
        BY <1>4 DEF AttemptFails
    <2> QED
        BY <1>a, <2>1 DEF GetsOn, Nearer, LoopRecord
<1>5. ASSUME NEW l \in Loop, BackoffOver(l) PROVE \A m \in Loop : GetsOn(m)
    <2>1. /\ loops[l].at = "backoff" /\ loops[l].attempt \in Nat
          /\ loops' = [loops EXCEPT ![l].at = "stage", ![l].attempt = loops[l].attempt + 1]
        BY <1>5, <1>a, RetriesNat DEF BackoffOver, NextAttempt, LoopRecord
    <2>2. /\ loops'[l].at = "stage" /\ loops'[l].attempt = loops[l].attempt + 1
          /\ loops'[l].stage = loops[l].stage
          /\ \A m \in Loop : m # l => loops'[m] = loops[m]
        BY <1>a, <2>1 DEF LoopRecord
    <2>3. loops'[l].attempt > loops[l].attempt
        BY <2>1, <2>2
    <2> QED
        BY <2>1, <2>2, <2>3 DEF GetsOn, Nearer
<1>6. ASSUME NEW l \in Loop, StageFails(l) PROVE \A m \in Loop : GetsOn(m)
    <2>1. loops[l].at = "stage" /\ loops' = [loops EXCEPT ![l].at = "over"]
        BY <1>6 DEF StageFails
    <2> QED
        BY <1>a, <2>1 DEF GetsOn, Nearer, LoopRecord
<1> QED
    BY <1>1, <1>2, <1>3, <1>4, <1>5, <1>6 DEF Next

\* Every step of a loop brings it nearer to its end, through retries and stages that are
\* bounded, and nothing another loop, a pause, a cancel or a resume does sets it back or
\* starts it again: the part of ExecutionsEnd that does not rest on fairness.
THEOREM ExecutionsGetOn == Spec => [][\A l \in Loop : GetsOn(l)]_vars
<1>1. PipelineInv /\ [Next]_vars => [\A l \in Loop : GetsOn(l)]_vars
    BY StepsGetOn
<1> QED
    BY <1>1, PipelineInvHolds, PTL DEF Spec

----------------------------------------------------------------------------
(* What a completed pipeline has done. *)

\* a pipeline that becomes completed in this step, other than from paused, has done all stages
CompletesWithAll ==
    status # "paused" /\ status # "completed" /\ status' = "completed"
        => ToSet(completedStages') = Stage

LEMMA ContinueCompletes ==
    ASSUME NEW l \in Loop, NEW i \in 1 .. NumStages + 1, NEW st, NEW done \in Seq(Stage), NEW percent,
           1 .. (i - 1) \subseteq ToSet(done), st \notin {"paused", "completed"},
           Continue(l, i, st, done, percent), status' = "completed"
    PROVE  ToSet(done) = Stage
<1>1. NumStages \in Nat
    BY PipelineAssumption
<1>2. Left(i, done) = {}
    BY DEF Continue
<1>3. i .. NumStages \subseteq ToSet(done)
    BY <1>2 DEF Left
<1>4. Stage = (1 .. (i - 1)) \cup (i .. NumStages)
    BY <1>1 DEF Stage
<1>5. ToSet(done) \subseteq Stage
    BY DEF ToSet
<1> QED
    BY <1>3, <1>4, <1>5

\* The pause is the only way to a completed pipeline with stages missing: whatever fails, is
\* cancelled or is executed beside another call, a pipeline that is not paused becomes
\* completed only with all its stages done.
THEOREM OnlyPausesSkipStages == Spec => [][CompletesWithAll]_vars
<1>1. ASSUME PipelineInv, [Next]_vars, status \notin {"paused", "completed"}, status' = "completed"
      PROVE  ToSet(completedStages') = Stage
    <2>a. /\ completedStages \in Seq(Stage) /\ loops \in [Loop -> LoopRecord] /\ NumStages \in Nat
          /\ PrerequisitesDone
        BY <1>1, PipelineAssumption DEF PipelineInv, TypeOK, LoopRecord
    <2>1. ASSUME NEW l \in Loop, Execute(l) \/ Resume(l)
          PROVE  ToSet(completedStages') = Stage
        <3>1. /\ Continue(l, 1, "running", completedStages, progress)
              /\ completedStages' = completedStages
            BY <2>1 DEF Execute, Resume
        <3>2. 1 \in 1 .. NumStages + 1 /\ 1 .. (1 - 1) \subseteq ToSet(completedStages)
            BY <2>a
        <3> QED
            BY <1>1, <2>a, <3>1, <3>2, ContinueCompletes
    <2>2. ASSUME NEW l \in Loop, StageSucceeds(l)
          PROVE  ToSet(completedStages') = Stage
        <3>0. PICK s, done : s = loops[l].stage /\ done = Append(completedStages, s)
            OBVIOUS
        <3>1. /\ loops[l].at = "stage" /\ completedStages' = done
              /\ Continue(l, s + 1, status, done, Percent(done))
            BY <2>2, <3>0 DEF StageSucceeds
        <3>2. s \in Stage /\ s \in Nat /\ s + 1 \in 1 .. NumStages + 1 /\ l \in Active
            BY <2>a, <3>0, <3>1 DEF LoopRecord, Stage, Active
        <3>3. done \in Seq(Stage) /\ ToSet(done) = ToSet(completedStages) \cup {s}
            BY <2>a, <3>0, <3>2, AppendStage
        <3>4. 1 .. ((s + 1) - 1) \subseteq ToSet(done)
            <4>1. 1 .. (s - 1) \subseteq ToSet(completedStages)
                BY <2>a, <3>0, <3>2 DEF PrerequisitesDone
            <4>2. 1 .. ((s + 1) - 1) = (1 .. (s - 1)) \cup {s}
                BY <3>2 DEF Stage
            <4> QED
                BY <3>3, <4>1, <4>2
        <3> QED
            BY <1>1, <3>1, <3>2, <3>3, <3>4, ContinueCompletes
    <2>3. ~ \E l \in Loop : AttemptFails(l) \/ BackoffOver(l) \/ StageFails(l)
        BY <1>1 DEF AttemptFails, BackoffOver, StageFails, Failed
    <2>4. ~(Pause \/ Cancel \/ UNCHANGED vars)
        BY <1>1 DEF Pause, Cancel, vars
    <2> QED
        BY <1>1, <2>1, <2>2, <2>3, <2>4 DEF Next
<1>2. PipelineInv /\ [Next]_vars => [CompletesWithAll]_vars
    BY <1>1 DEF CompletesWithAll
<1> QED
    BY <1>2, PipelineInvHolds, PTL DEF Spec
=============================================================================
