-------------------------- MODULE RepeatAfterProofs --------------------------
(***************************************************************************)
(* Proofs about RepeatAfter, for every number of rounds, tasks and parents. *)
(***************************************************************************)
EXTENDS RepeatAfter, FiniteSetTheorems, TLAPS

Types ==
  /\ width \in Nat \ {0}
  /\ timers \in [Task -> Nat]
  /\ notifying \in [Task -> Nat]
  /\ done \in [Task -> BOOLEAN]
  /\ parent_scheduled \in BOOLEAN
  /\ queued \in Nat
  /\ pc \in [Parents -> {"idle", "test", "add", "store", "next", "finish", "out"}]
  /\ local \in [Parents -> Nat]
  /\ current_task \in Nat /\ round_sum \in Nat
  /\ current_round \in Nat /\ completed_rounds \in Nat /\ total_sum \in Nat
  /\ status \in {"running", "ok"}
  /\ overlapped \in BOOLEAN

\* The last round ends the run.
RoundsCounted ==
  /\ completed_rounds = current_round
  /\ IF running THEN current_round < rounds ELSE current_round = rounds

\* Twice the sum of the numbers below n.
Triangle(n) == n * (n - 1)

\* What a parent that runs alone knows: the tasks it has walked past have
\* finished, and the sum is of those.
Alone ==
  /\ \A p, q \in Parents : pc[p] # "idle" /\ pc[q] # "idle" => p = q
  /\ \A i \in Task : timers[i] <= 1
  /\ \A i \in Task : done[i] \/ i < current_task => timers[i] = 0
  /\ current_task <= tasks
  /\ \A p \in Parents :
       /\ pc[p] = "finish" => current_task = tasks
       /\ pc[p] \in {"add", "store", "next"} =>
            current_task < tasks /\ timers[current_task] = 0
       /\ pc[p] = "store" => local[p] = round_sum + current_task
       /\ pc[p] = "next" =>
            /\ local[p] = current_task
            /\ 2 * round_sum = Triangle(current_task) + 2 * current_task
  /\ (\A p \in Parents : pc[p] # "next") =>
       2 * round_sum = Triangle(current_task)

\* What the rounds completed so far have added up to.
Exact == total_sum = completed_rounds * expected_round_sum

IInv ==
  /\ Types
  /\ RoundsCounted
  /\ FlagMeansEnqueued
  /\ NoCompletionStranded
  /\ width = 1 => ~overlapped
  /\ ~overlapped => Alone /\ Exact

-----------------------------------------------------------------------------
LEMMA TriangleFacts ==
  /\ Triangle(0) = 0
  /\ \A n \in Nat : /\ Triangle(n) \in Int
                    /\ Triangle(n + 1) = Triangle(n) + 2 * n
BY DEF Triangle

\* Twice the expected sum of a round.
LEMMA ExpectedSum ==
  ASSUME NEW s \in Nat, 2 * s = Triangle(tasks)
  PROVE  s = expected_round_sum
<1>1. \A x \in Int : 2 * s = x => s = x \div 2
  OBVIOUS
<1>2. tasks * (tasks - 1) \in Int
  BY RoundsAssumption
<1> QED
  BY <1>1, <1>2 DEF Triangle, expected_round_sum

\* No parent runs beside one that starts when the queue is one wide.
LEMMA StartsAlone ==
  ASSUME Cardinality(BusyParents) < 1
  PROVE  BusyParents = {}
<1>1. IsFiniteSet(BusyParents)
  BY ParentsAssumption, FS_Subset DEF BusyParents
<1> QED
  BY <1>1, FS_EmptySet, FS_CardinalityType

-----------------------------------------------------------------------------
LEMMA InvariantInit == Init => IInv
<1> SUFFICES ASSUME Init PROVE IInv
  OBVIOUS
<1>1. Types
  <2>1. Cardinality(Parents) \in Nat
    BY ParentsAssumption, FS_CardinalityType
  <2>2. width \in Nat \ {0}
    BY <2>1 DEF Init
  <2> QED
    BY <2>2 DEF Init, Types
<1>2. RoundsCounted
  BY RoundsAssumption DEF Init, RoundsCounted, running
<1>3. FlagMeansEnqueued /\ NoCompletionStranded
  BY RoundsAssumption DEF Init, FlagMeansEnqueued, NoCompletionStranded, Task
<1>4. Alone /\ ~overlapped
  BY RoundsAssumption, TriangleFacts DEF Init, Alone, Task
<1>5. Exact
  <2>1. expected_round_sum \in Int
    BY RoundsAssumption DEF expected_round_sum
  <2> QED
    BY <2>1 DEF Init, Exact
<1> QED
  BY <1>1, <1>2, <1>3, <1>4, <1>5 DEF IInv

LEMMA TypesStep ==
  ASSUME Types, [Next]_vars
  PROVE  Types'
<1>1. ASSUME NEW i \in Task, ChildDone(i)
      PROVE  Types'
  <2>1. timers[i] - 1 \in Nat /\ notifying[i] + 1 \in Nat
    BY <1>1 DEF Types, ChildDone
  <2> QED
    BY <1>1, <2>1 DEF Types, ChildDone
<1>2. ASSUME NEW i \in Task, ChildSchedules(i)
      PROVE  Types'
  <2>1. notifying[i] - 1 \in Nat
    BY <1>2 DEF Types, ChildSchedules
  <2> QED
    BY <1>2, <2>1 DEF Types, ChildSchedules, schedule_repeat_parent
<1>3. ASSUME NEW p \in Parents, ParentStarts(p)
      PROVE  Types'
  <2>1. /\ queued > 0 /\ queued' = queued - 1
        /\ parent_scheduled' = FALSE
        /\ pc' = [pc EXCEPT ![p] = "test"]
        /\ overlapped' = (overlapped \/ BusyParents # {})
        /\ UNCHANGED <<width, timers, notifying, done, local, current_task,
                       round_sum, current_round, completed_rounds, total_sum,
                       status>>
    BY <1>3 DEF ParentStarts
  <2>2. queued' \in Nat
    BY <2>1 DEF Types
  <2>3. pc' \in [Parents -> {"idle", "test", "add", "store", "next", "finish",
                            "out"}]
    BY <2>1 DEF Types
  <2> QED
    BY <2>1, <2>2, <2>3 DEF Types
<1>4. ASSUME NEW p \in Parents, ParentTests(p)
      PROVE  Types'
  <2> DEFINE next == IF current_task >= tasks THEN "finish"
                     ELSE IF done[current_task] THEN "add" ELSE "out"
  <2>1. next \in {"finish", "add", "out"}
    OBVIOUS
  <2>2. pc' = [pc EXCEPT ![p] = next]
    BY <1>4 DEF ParentTests
  <2> HIDE DEF next
  <2> QED
    BY <1>4, <2>1, <2>2 DEF Types, ParentTests
<1>5. ASSUME NEW p \in Parents, ParentLoadsSum(p)
      PROVE  Types'
  BY <1>5 DEF Types, ParentLoadsSum
<1>6. ASSUME NEW p \in Parents, ParentStoresSum(p)
      PROVE  Types'
  BY <1>6 DEF Types, ParentStoresSum
<1>7. ASSUME NEW p \in Parents, ParentStepsTask(p)
      PROVE  Types'
  BY <1>7 DEF Types, ParentStepsTask
<1>8. ASSUME NEW p \in Parents, ParentFinishesRound(p)
      PROVE  Types'
  <2>1. timers' \in [Task -> Nat] /\ done' \in [Task -> BOOLEAN]
    <3>1. \/ UNCHANGED <<timers, done>>
          \/ /\ timers' = [i \in Task |-> timers[i] + 1]
             /\ done' = [i \in Task |-> FALSE]
      BY <1>8 DEF ParentFinishesRound, start_repeat_round
    <3>2. CASE UNCHANGED <<timers, done>>
      BY <3>2 DEF Types
    <3>3. CASE /\ timers' = [i \in Task |-> timers[i] + 1]
               /\ done' = [i \in Task |-> FALSE]
      BY <3>3 DEF Types
    <3> QED
      BY <3>1, <3>2, <3>3
  <2>2. /\ pc' = [pc EXCEPT ![p] = "test"]
        /\ current_task' = 0 \/ UNCHANGED current_task
        /\ round_sum' = 0 \/ UNCHANGED round_sum
        /\ status' = "ok" \/ UNCHANGED status
        /\ current_round' = current_round + 1
        /\ completed_rounds' = completed_rounds + 1
        /\ total_sum' = total_sum + round_sum
        /\ UNCHANGED <<width, notifying, parent_scheduled, queued, local,
                       overlapped>>
    BY <1>8 DEF ParentFinishesRound, start_repeat_round
  <2>3. pc' \in [Parents -> {"idle", "test", "add", "store", "next", "finish",
                            "out"}]
    BY <2>2 DEF Types
  <2>4. /\ current_task' \in Nat /\ round_sum' \in Nat
        /\ current_round' \in Nat /\ completed_rounds' \in Nat
        /\ total_sum' \in Nat /\ status' \in {"running", "ok"}
    BY <2>2 DEF Types
  <2>5. /\ width' \in Nat \ {0} /\ notifying' \in [Task -> Nat]
        /\ parent_scheduled' \in BOOLEAN /\ queued' \in Nat
        /\ local' \in [Parents -> Nat] /\ overlapped' \in BOOLEAN
    BY <2>2 DEF Types
  <2> QED
    BY <2>1, <2>3, <2>4, <2>5 DEF Types
<1>9. ASSUME NEW p \in Parents, ParentLeaves(p)
      PROVE  Types'
  <2>1. parent_scheduled' \in BOOLEAN /\ queued' \in Nat
    <3>1. \/ parent_scheduled' = TRUE /\ (queued' = queued \/ queued' = queued + 1)
          \/ UNCHANGED <<parent_scheduled, queued>>
      BY <1>9 DEF ParentLeaves, schedule_repeat_parent
    <3>2. parent_scheduled' \in BOOLEAN
      BY <3>1 DEF Types
    <3>3. queued' \in Nat
      BY <3>1 DEF Types
    <3> QED
      BY <3>2, <3>3
  <2>2. pc' = [pc EXCEPT ![p] = "idle"]
    BY <1>9 DEF ParentLeaves
  <2> QED
    BY <1>9, <2>1, <2>2 DEF Types, ParentLeaves
<1>10. CASE Exited \/ UNCHANGED vars
  BY <1>10 DEF Types, Exited, vars
<1> QED
  BY <1>1, <1>2, <1>3, <1>4, <1>5, <1>6, <1>7, <1>8, <1>9, <1>10 DEF Next

LEMMA RoundsStep ==
  ASSUME Types, RoundsCounted, [Next]_vars
  PROVE  RoundsCounted'
<1>1. ASSUME NEW p \in Parents, ParentFinishesRound(p)
      PROVE  RoundsCounted'
  <2>1. /\ status = "running" /\ current_round' = current_round + 1
        /\ completed_rounds' = completed_rounds + 1
        /\ \/ current_round' >= rounds /\ status' = "ok"
           \/ current_round' < rounds /\ status' = status
    BY <1>1 DEF ParentFinishesRound, running
  <2>2. /\ current_round \in Nat /\ completed_rounds = current_round
        /\ current_round < rounds
    BY <2>1 DEF Types, RoundsCounted, running
  <2> QED
    BY <2>1, <2>2, RoundsAssumption DEF RoundsCounted, running
<1>2. CASE UNCHANGED <<completed_rounds, current_round, status>>
  BY <1>2 DEF RoundsCounted, running
<1> QED
  BY <1>1, <1>2 DEF Next, ChildDone, ChildSchedules, ParentStarts, ParentTests,
     ParentLoadsSum, ParentStoresSum, ParentStepsTask, ParentLeaves, Exited, vars

\* The flag is set and the queue filled together, and emptied together.
LEMMA FlagStep ==
  ASSUME Types, FlagMeansEnqueued, [Next]_vars
  PROVE  FlagMeansEnqueued'
<1>1. CASE schedule_repeat_parent
  BY <1>1 DEF Types, FlagMeansEnqueued, schedule_repeat_parent
<1>2. ASSUME NEW p \in Parents, ParentStarts(p)
      PROVE  FlagMeansEnqueued'
  BY <1>2 DEF Types, FlagMeansEnqueued, ParentStarts
<1>3. CASE UNCHANGED <<parent_scheduled, queued>>
  BY <1>3 DEF FlagMeansEnqueued
<1> QED
  BY <1>1, <1>2, <1>3 DEF Next, ChildDone, ChildSchedules, ParentTests,
     ParentLoadsSum, ParentStoresSum, ParentStepsTask, ParentFinishesRound,
     ParentLeaves, Exited, vars

\* Whoever takes the last reason to come back gives another.
LEMMA StrandedStep ==
  ASSUME Types, RoundsCounted, FlagMeansEnqueued, NoCompletionStranded,
         [Next]_vars
  PROVE  NoCompletionStranded'
<1>1. ASSUME schedule_repeat_parent
      PROVE  queued' > 0
  BY <1>1 DEF Types, FlagMeansEnqueued, schedule_repeat_parent
<1>2. ASSUME NEW i \in Task, ChildDone(i)
      PROVE  NoCompletionStranded'
  <2>1. notifying'[i] > 0
    BY <1>2 DEF Types, ChildDone
  <2> QED
    BY <2>1 DEF NoCompletionStranded
<1>3. ASSUME NEW i \in Task, ChildSchedules(i)
      PROVE  NoCompletionStranded'
  BY <1>1, <1>3 DEF ChildSchedules, NoCompletionStranded
<1>4. ASSUME NEW p \in Parents, pc'[p] # "idle"
      PROVE  NoCompletionStranded'
  BY <1>4 DEF NoCompletionStranded, BusyParents
<1>5. ASSUME NEW p \in Parents, ParentLeaves(p)
      PROVE  NoCompletionStranded'
  <2>1. CASE current_round < rounds /\ current_task < tasks /\ done[current_task]
    <3>1. schedule_repeat_parent
      BY <1>5, <2>1 DEF ParentLeaves
    <3> QED
      BY <1>1, <3>1 DEF NoCompletionStranded
  <2>2. CASE ~(current_round < rounds /\ current_task < tasks
                 /\ done[current_task])
    BY <1>5, <2>2
       DEF ParentLeaves, RoundsCounted, NoCompletionStranded, running
  <2> QED
    BY <2>1, <2>2
<1>6. CASE Exited \/ UNCHANGED vars
  BY <1>6 DEF Exited, vars, NoCompletionStranded, BusyParents, running
<1>7. ASSUME NEW p \in Parents,
             \/ ParentStarts(p) \/ ParentTests(p) \/ ParentLoadsSum(p)
             \/ ParentStoresSum(p) \/ ParentStepsTask(p) \/ ParentFinishesRound(p)
      PROVE  pc'[p] # "idle"
  BY <1>7 DEF Types, ParentStarts, ParentTests, ParentLoadsSum, ParentStoresSum,
     ParentStepsTask, ParentFinishesRound
<1> QED
  BY <1>2, <1>3, <1>4, <1>5, <1>6, <1>7 DEF Next

\* What the one parent knows stays true while children finish beside it.
LEMMA AloneStep ==
  ASSUME Types, ~overlapped', Alone, [Next]_vars
  PROVE  Alone'
<1> USE DEF Types
<1>1. ASSUME NEW i \in Task, ChildDone(i)
      PROVE  Alone'
  BY <1>1 DEF Alone, ChildDone
<1>2. ASSUME NEW i \in Task, ChildSchedules(i)
      PROVE  Alone'
  BY <1>2 DEF Alone, ChildSchedules
<1>3. ASSUME NEW p \in Parents, ParentStarts(p)
      PROVE  Alone'
  <2>1. \A q \in Parents : pc[q] = "idle"
    BY <1>3 DEF ParentStarts, BusyParents
  <2> QED
    BY <1>3, <2>1 DEF Alone, ParentStarts
<1>4. ASSUME NEW p \in Parents, ParentTests(p)
      PROVE  Alone'
  <2>1. /\ pc[p] = "test" /\ pc'[p] \in {"finish", "add", "out"}
        /\ \A q \in Parents : q # p => pc'[q] = pc[q]
        /\ pc'[p] = "finish" => current_task >= tasks
        /\ pc'[p] = "add" => current_task < tasks /\ done[current_task]
        /\ UNCHANGED <<timers, done, local, current_task, round_sum>>
    <3> DEFINE next == IF current_task >= tasks THEN "finish"
                       ELSE IF done[current_task] THEN "add" ELSE "out"
    <3>1. /\ next \in {"finish", "add", "out"}
          /\ next = "finish" => current_task >= tasks
          /\ next = "add" => ~(current_task >= tasks) /\ done[current_task]
      OBVIOUS
    <3>2. /\ pc[p] = "test" /\ pc' = [pc EXCEPT ![p] = next]
          /\ UNCHANGED <<timers, done, local, current_task, round_sum>>
      BY <1>4 DEF ParentTests
    <3>3. ~(current_task >= tasks) => current_task < tasks
      BY RoundsAssumption
    <3> HIDE DEF next
    <3> QED
      BY <3>1, <3>2, <3>3
  <2>2. \A q \in Parents : q # p => pc[q] = "idle"
    BY <2>1 DEF Alone
  <2>3. pc'[p] = "finish" => current_task = tasks
    BY <2>1, RoundsAssumption DEF Alone
  <2>4. pc'[p] = "add" => current_task < tasks /\ timers[current_task] = 0
    BY <2>1, RoundsAssumption DEF Alone, Task
  <2> QED
    BY <2>1, <2>2, <2>3, <2>4 DEF Alone
<1>5. ASSUME NEW p \in Parents, ParentLoadsSum(p)
      PROVE  Alone'
  BY <1>5 DEF Alone, ParentLoadsSum
<1>6. ASSUME NEW p \in Parents, ParentStoresSum(p)
      PROVE  Alone'
  <2>1. 2 * round_sum' = Triangle(current_task) + 2 * current_task
    <3>1. round_sum' = round_sum + current_task
      BY <1>6 DEF Alone, ParentStoresSum
    <3>2. 2 * round_sum = Triangle(current_task)
      BY <1>6 DEF Alone, ParentStoresSum
    <3> QED
      BY <3>1, <3>2, TriangleFacts
  <2> QED
    BY <1>6, <2>1 DEF Alone, ParentStoresSum
<1>7. ASSUME NEW p \in Parents, ParentStepsTask(p)
      PROVE  Alone'
  <2>1. current_task' = current_task + 1 /\ current_task < tasks
    BY <1>7 DEF Alone, ParentStepsTask
  <2>2. 2 * round_sum' = Triangle(current_task')
    BY <1>7, <2>1, TriangleFacts DEF Alone, ParentStepsTask
  <2>3. \A i \in Task : i < current_task' => timers'[i] = 0
    BY <1>7, <2>1, RoundsAssumption DEF Alone, ParentStepsTask, Task
  <2> QED
    BY <1>7, <2>1, <2>2, <2>3, RoundsAssumption DEF Alone, ParentStepsTask
<1>8. ASSUME NEW p \in Parents, ParentFinishesRound(p)
      PROVE  Alone'
  <2>1. current_task = tasks /\ \A i \in Task : timers[i] = 0
    BY <1>8, RoundsAssumption DEF Alone, ParentFinishesRound, Task
  <2>2. /\ pc[p] = "finish" /\ pc'[p] = "test"
        /\ \A q \in Parents : q # p => pc[q] = "idle" /\ pc'[q] = "idle"
    BY <1>8 DEF Alone, ParentFinishesRound
  <2>3. CASE UNCHANGED <<current_task, round_sum, timers, done>>
    BY <1>8, <2>2, <2>3 DEF Alone, ParentFinishesRound
  <2>4. CASE start_repeat_round
    <3>1. Triangle(current_task') = 2 * round_sum'
      BY <2>4, TriangleFacts DEF start_repeat_round
    <3> QED
      BY <2>1, <2>2, <2>4, <3>1, RoundsAssumption
         DEF Alone, start_repeat_round, Task
  <2> QED
    BY <1>8, <2>3, <2>4 DEF ParentFinishesRound
<1>9. ASSUME NEW p \in Parents, ParentLeaves(p)
      PROVE  Alone'
  BY <1>9 DEF Alone, ParentLeaves
<1>10. CASE Exited \/ UNCHANGED vars
  BY <1>10 DEF Alone, Exited, vars
<1> QED
  BY <1>1, <1>2, <1>3, <1>4, <1>5, <1>6, <1>7, <1>8, <1>9, <1>10 DEF Next

\* A parent that is not the first to run at once is one too many for a queue
\* one wide.
LEMMA OverlapStep ==
  ASSUME [Next]_vars
  PROVE  /\ width' = width
         /\ overlapped => overlapped'
         /\ width = 1 /\ ~overlapped => ~overlapped'
<1>1. ASSUME NEW p \in Parents, ParentStarts(p), width = 1
      PROVE  BusyParents = {}
  BY <1>1, StartsAlone DEF ParentStarts
<1>2. ASSUME NEW p \in Parents, ParentStarts(p)
      PROVE  width' = width /\ overlapped' = (overlapped \/ BusyParents # {})
  BY <1>2 DEF ParentStarts
<1>3. CASE UNCHANGED <<width, overlapped>>
  BY <1>3
<1> QED
  BY <1>1, <1>2, <1>3 DEF Next, ChildDone, ChildSchedules, ParentTests,
     ParentLoadsSum, ParentStoresSum, ParentStepsTask, ParentFinishesRound,
     ParentLeaves, Exited, vars

\* The sum of a round that a parent completes alone is the expected one.
LEMMA CompletedSum ==
  ASSUME Types, Alone, NEW p \in Parents, ParentFinishesRound(p)
  PROVE  round_sum = expected_round_sum
<1>1. pc[p] = "finish"
  BY DEF ParentFinishesRound
<1>2. \A q \in Parents : pc[q] # "next"
  BY <1>1 DEF Alone
<1>3. 2 * round_sum = Triangle(tasks)
  BY <1>1, <1>2 DEF Alone
<1> QED
  BY <1>3, ExpectedSum DEF Types

LEMMA ExactStep ==
  ASSUME Types, Alone, Exact, [Next]_vars
  PROVE  Exact'
<1>1. ASSUME NEW p \in Parents, ParentFinishesRound(p)
      PROVE  Exact'
  <2>1. /\ total_sum' = total_sum + expected_round_sum
        /\ completed_rounds' = completed_rounds + 1
    BY <1>1, CompletedSum DEF ParentFinishesRound
  <2>2. completed_rounds \in Nat /\ expected_round_sum \in Int
    BY RoundsAssumption DEF Types, expected_round_sum
  <2>3. (completed_rounds + 1) * expected_round_sum =
          completed_rounds * expected_round_sum + expected_round_sum
    BY <2>2
  <2> QED
    BY <2>1, <2>3 DEF Exact, expected_round_sum
<1>2. CASE UNCHANGED <<completed_rounds, total_sum>>
  BY <1>2 DEF Exact, expected_round_sum
<1> QED
  BY <1>1, <1>2 DEF Next, ChildDone, ChildSchedules, ParentStarts, ParentTests,
     ParentLoadsSum, ParentStoresSum, ParentStepsTask, ParentLeaves, Exited, vars

LEMMA InvariantStep == IInv /\ [Next]_vars => IInv'
<1> SUFFICES ASSUME IInv, [Next]_vars PROVE IInv'
  OBVIOUS
<1>1. (width = 1 => ~overlapped)'
  BY OverlapStep DEF IInv
<1>2. ASSUME ~overlapped'
      PROVE  Alone' /\ Exact'
  <2>1. ~overlapped
    BY <1>2, OverlapStep
  <2>2. Types /\ Alone /\ Exact
    BY <2>1 DEF IInv
  <2> QED
    BY <1>2, <2>2, AloneStep, ExactStep
<1> QED
  BY <1>1, <1>2, TypesStep, RoundsStep, FlagStep, StrandedStep DEF IInv

LEMMA Invariant == Spec => []IInv
BY InvariantInit, InvariantStep, PTL DEF Spec

-----------------------------------------------------------------------------
\* The flag of schedule_repeat_parent is set exactly while one parent worker is
\* enqueued, however many run: no two are ever queued.
THEOREM FlagCorrect == Spec => []FlagMeansEnqueued
<1>1. IInv => FlagMeansEnqueued
  BY DEF IInv
<1> QED
  BY <1>1, Invariant, PTL

\* A finished task the parents have not walked past always has someone on the
\* way to it, for every number of tasks and of parents at once: the recheck at
\* the end of repeat_parent_worker suffices.
THEOREM StrandedCorrect == Spec => []NoCompletionStranded
<1>1. IInv => NoCompletionStranded
  BY DEF IInv
<1> QED
  BY <1>1, Invariant, PTL

\* On a queue of any width, no round is completed before the timers of all of
\* its tasks have fired, until a parent starts beside a running one.
THEOREM AwaitsTimers == Spec => RoundAwaitsTimers
<1> DEFINE Awaits ==
      ~overlapped /\ completed_rounds' # completed_rounds =>
        \A i \in Task : timers[i] = 0
<1>1. ASSUME IInv, [Next]_vars, ~overlapped,
             completed_rounds' # completed_rounds
      PROVE  \A i \in Task : timers[i] = 0
  <2>1. PICK p \in Parents : ParentFinishesRound(p)
    BY <1>1 DEF Next, ChildDone, ChildSchedules, ParentStarts, ParentTests,
       ParentLoadsSum, ParentStoresSum, ParentStepsTask, ParentLeaves, Exited,
       vars
  <2> QED
    BY <1>1, <2>1, RoundsAssumption DEF IInv, Alone, ParentFinishesRound, Task
<1>2. IInv /\ [Next]_vars => [Awaits]_vars
  BY <1>1
<1> QED
  BY <1>2, Invariant, PTL DEF Spec, RoundAwaitsTimers

\* An "ok" record is exact, on a queue of any width and for every number of
\* rounds and tasks, unless a parent has started beside a running one.
THEOREM ExactCorrect == Spec => []ExactUnlessOverlapped
<1>1. IInv => ExactUnlessOverlapped
  BY DEF IInv, RoundsCounted, Exact, ExactUnlessOverlapped, OkRecordIsExact,
     running
<1> QED
  BY <1>1, Invariant, PTL

-----------------------------------------------------------------------------
LEMMA RoundsInit == Init => Rounds!Init
BY DEF Init, Rounds!Init, Serial

\* A round that one parent ends is a round completed; every other step, and
\* every step of a wider queue, stutters.
LEMMA RoundsImplemented ==
  IInv /\ [Next]_vars =>
    [Rounds!Next]_<<Serial(completed_rounds, 0), Serial(total_sum, 0),
                    Serial(status, "running")>>
<1> DEFINE view == <<Serial(completed_rounds, 0), Serial(total_sum, 0),
                     Serial(status, "running")>>
<1> SUFFICES ASSUME IInv, [Next]_vars
             PROVE  Rounds!Next \/ UNCHANGED view
  OBVIOUS
<1>1. width' = width
  BY DEF Next, ChildDone, ChildSchedules, ParentStarts, ParentTests,
     ParentLoadsSum, ParentStoresSum, ParentStepsTask, ParentFinishesRound,
     ParentLeaves, Exited, vars
<1>2. CASE width # 1
  BY <1>1, <1>2 DEF Serial
<1>3. ASSUME width = 1, NEW p \in Parents, ParentFinishesRound(p)
      PROVE  Rounds!Next
  <2>1. /\ running /\ completed_rounds = current_round
        /\ current_round \in Nat /\ current_round < rounds
    BY <1>3 DEF IInv, Types, RoundsCounted, ParentFinishesRound
  <2>2. total_sum' = total_sum + expected_round_sum
    BY <1>3, CompletedSum DEF IInv, ParentFinishesRound
  <2>3. /\ completed_rounds' = completed_rounds + 1
        /\ \/ current_round + 1 >= rounds /\ status' = "ok"
           \/ current_round + 1 < rounds /\ status' = status
    BY <1>3 DEF ParentFinishesRound
  <2>4. status' = IF completed_rounds' = rounds THEN "ok" ELSE "running"
    BY <2>1, <2>3, RoundsAssumption DEF running
  <2>5. /\ Serial(completed_rounds, 0) = completed_rounds
        /\ Serial(total_sum, 0) = total_sum
        /\ Serial(status, "running") = status
        /\ Serial(completed_rounds, 0)' = completed_rounds'
        /\ Serial(total_sum, 0)' = total_sum'
        /\ Serial(status, "running")' = status'
    BY <1>1, <1>3 DEF Serial
  <2>6. Rounds!expected_round_sum = expected_round_sum
    BY DEF Rounds!expected_round_sum, expected_round_sum
  <2> QED
    BY <2>1, <2>2, <2>3, <2>4, <2>5, <2>6
       DEF Rounds!Next, Rounds!CompleteRound, running
<1>4. CASE UNCHANGED <<completed_rounds, total_sum, status>>
  BY <1>1, <1>4 DEF Serial
<1> QED
  BY <1>2, <1>3, <1>4 DEF Next, ChildDone, ChildSchedules, ParentStarts,
     ParentTests, ParentLoadsSum, ParentStoresSum, ParentStepsTask,
     ParentLeaves, Exited, vars

\* One parent at a time carries out the rounds of the abstract specification,
\* each with the expected sum, for every number of rounds and tasks.
THEOREM Implements == Spec => ImplementsRounds
BY Invariant, RoundsInit, RoundsImplemented, PTL
   DEF Spec, ImplementsRounds, Rounds!Spec
=============================================================================
