----------------------------- MODULE RepeatAfter -----------------------------
(***************************************************************************)
(* Mode main-executor-after-repeat of twq_dispatch_probe.c. A round arms    *)
(* one timer per task; a child worker marks its task done and schedules the *)
(* parent worker on the executor queue, unless it is scheduled already; the *)
(* parent walks the tasks in order as far as they are done and, past the    *)
(* last, completes the round and starts the next.                           *)
(*                                                                          *)
(* The executor queue is as wide as the machine has logical CPUs: width      *)
(* parent workers run at once, and the fields of the probe they share are   *)
(* plain, unsynchronised ones.                                              *)
(* Each parent step below reads or writes shared fields once; what a data   *)
(* race could do beyond that is not modelled.                               *)
(***************************************************************************)
EXTENDS Integers, FiniteSets

CONSTANTS rounds, tasks, Parents

ASSUME RoundsAssumption == rounds \in Nat \ {0} /\ tasks \in Nat \ {0}
ASSUME ParentsAssumption == IsFiniteSet(Parents) /\ Parents # {}

VARIABLES
  width,            \* how many callbacks the executor queue runs at once
  timers,           \* timers[i]: children armed for task i and not yet run
  notifying,        \* notifying[i]: children that set done and have not yet
                    \* called schedule_repeat_parent
  done,             \* children[i].done
  parent_scheduled,
  queued,           \* parent workers enqueued and not yet started
  pc,               \* pc[p]: where the p-th running parent worker is
  local,            \* local[p]: the value it has read
  current_task, round_sum, current_round, completed_rounds, total_sum,
  status,
  overlapped        \* history, not in the code: a parent has started while
                    \* another ran

vars == <<width, timers, notifying, done, parent_scheduled, queued, pc, local,
          current_task, round_sum, current_round, completed_rounds, total_sum,
          status, overlapped>>

Task == 0..(tasks - 1)

expected_round_sum == (tasks * (tasks - 1)) \div 2

running == status = "running"

BusyParents == {p \in Parents : pc[p] # "idle"}

-----------------------------------------------------------------------------
(* Mutated forms, each a plausible bug; Spec does not use them.             *)

\* A parent that clears parent_scheduled only when it has nothing left to do.
ParentStarts_flag_kept(p) ==
  /\ running
  /\ pc[p] = "idle"
  /\ Cardinality(BusyParents) < width
  /\ queued > 0
  /\ queued' = queued - 1
  /\ pc' = [pc EXCEPT ![p] = "test"]
  /\ overlapped' = (overlapped \/ BusyParents # {})
  /\ UNCHANGED <<width, timers, notifying, done, parent_scheduled, local,
                 current_task, round_sum, current_round, completed_rounds,
                 total_sum, status>>

\* A round that does not clear the done flags.
start_repeat_round_keeps_done ==
  /\ current_task' = 0
  /\ round_sum' = 0
  /\ timers' = [i \in Task |-> timers[i] + 1]
  /\ UNCHANGED done

\* A round that does not clear its sum.
start_repeat_round_keeps_sum ==
  /\ current_task' = 0
  /\ timers' = [i \in Task |-> timers[i] + 1]
  /\ done' = [i \in Task |-> FALSE]
  /\ UNCHANGED round_sum

-----------------------------------------------------------------------------
\* start_repeat_round.
start_repeat_round ==
  /\ current_task' = 0
  /\ round_sum' = 0
  /\ timers' = [i \in Task |-> timers[i] + 1]
  /\ done' = [i \in Task |-> FALSE]

\* The root worker on the main queue has started round 0.
Init ==
  /\ width \in 1..Cardinality(Parents)
  /\ timers = [i \in Task |-> 1]
  /\ notifying = [i \in Task |-> 0]
  /\ done = [i \in Task |-> FALSE]
  /\ parent_scheduled = FALSE
  /\ queued = 0
  /\ pc = [p \in Parents |-> "idle"]
  /\ local = [p \in Parents |-> 0]
  /\ current_task = 0
  /\ round_sum = 0
  /\ current_round = 0
  /\ completed_rounds = 0
  /\ total_sum = 0
  /\ status = "running"
  /\ overlapped = FALSE

\* schedule_repeat_parent: the atomic exchange and the enqueue.
schedule_repeat_parent ==
  /\ parent_scheduled' = TRUE
  /\ queued' = IF parent_scheduled THEN queued ELSE queued + 1

\* repeat_child_worker up to its store of done, on any thread ...
ChildDone(i) ==
  /\ running
  /\ timers[i] > 0
  /\ timers' = [timers EXCEPT ![i] = @ - 1]
  /\ done' = [done EXCEPT ![i] = TRUE]
  /\ notifying' = [notifying EXCEPT ![i] = @ + 1]
  /\ UNCHANGED <<width, parent_scheduled, queued, pc, local, current_task,
                 round_sum, current_round, completed_rounds, total_sum, status,
                 overlapped>>

\* ... and its call of schedule_repeat_parent.
ChildSchedules(i) ==
  /\ running
  /\ notifying[i] > 0
  /\ notifying' = [notifying EXCEPT ![i] = @ - 1]
  /\ schedule_repeat_parent
  /\ UNCHANGED <<width, timers, done, pc, local, current_task, round_sum,
                 current_round, completed_rounds, total_sum, status,
                 overlapped>>

-----------------------------------------------------------------------------
(* repeat_parent_worker.                                                    *)

ParentStarts(p) ==
  /\ running
  /\ pc[p] = "idle"
  /\ Cardinality(BusyParents) < width
  /\ queued > 0
  /\ queued' = queued - 1
  /\ parent_scheduled' = FALSE
  /\ pc' = [pc EXCEPT ![p] = "test"]
  /\ overlapped' = (overlapped \/ BusyParents # {})
  /\ UNCHANGED <<width, timers, notifying, done, local, current_task, round_sum,
                 current_round, completed_rounds, total_sum, status>>

\* The test of the inner loop and of the child's done flag.
ParentTests(p) ==
  /\ running
  /\ pc[p] = "test"
  /\ pc' = [pc EXCEPT ![p] = IF current_task >= tasks THEN "finish"
                             ELSE IF done[current_task] THEN "add" ELSE "out"]
  /\ UNCHANGED <<width, timers, notifying, done, parent_scheduled, queued,
                 local, current_task, round_sum, current_round, completed_rounds,
                 total_sum, status, overlapped>>

\* round_sum += current_task: the loads, then the store.
ParentLoadsSum(p) ==
  /\ running
  /\ pc[p] = "add"
  /\ local' = [local EXCEPT ![p] = round_sum + current_task]
  /\ pc' = [pc EXCEPT ![p] = "store"]
  /\ UNCHANGED <<width, timers, notifying, done, parent_scheduled, queued,
                 current_task, round_sum, current_round, completed_rounds,
                 total_sum, status, overlapped>>

ParentStoresSum(p) ==
  /\ running
  /\ pc[p] = "store"
  /\ round_sum' = local[p]
  /\ local' = [local EXCEPT ![p] = current_task]
  /\ pc' = [pc EXCEPT ![p] = "next"]
  /\ UNCHANGED <<width, timers, notifying, done, parent_scheduled, queued,
                 current_task, current_round, completed_rounds, total_sum,
                 status, overlapped>>

\* current_task++.
ParentStepsTask(p) ==
  /\ running
  /\ pc[p] = "next"
  /\ current_task' = local[p] + 1
  /\ pc' = [pc EXCEPT ![p] = "test"]
  /\ UNCHANGED <<width, timers, notifying, done, parent_scheduled, queued, local,
                 round_sum, current_round, completed_rounds, total_sum, status,
                 overlapped>>

\* The end of a round: the probe exits with "ok" or starts another round.
ParentFinishesRound(p) ==
  /\ running
  /\ pc[p] = "finish"
  /\ completed_rounds' = completed_rounds + 1
  /\ total_sum' = total_sum + round_sum
  /\ current_round' = current_round + 1
  /\ pc' = [pc EXCEPT ![p] = "test"]
  /\ \/ /\ current_round' >= rounds
        /\ status' = "ok"
        /\ UNCHANGED <<current_task, round_sum, timers, done>>
     \/ /\ current_round' < rounds
        /\ start_repeat_round
        /\ UNCHANGED status
  /\ UNCHANGED <<width, notifying, parent_scheduled, queued, local, overlapped>>

\* The recheck at out: a child that came in since is not left behind.
ParentLeaves(p) ==
  /\ running
  /\ pc[p] = "out"
  /\ pc' = [pc EXCEPT ![p] = "idle"]
  /\ IF current_round < rounds /\ current_task < tasks /\ done[current_task]
     THEN schedule_repeat_parent
     ELSE UNCHANGED <<parent_scheduled, queued>>
  /\ UNCHANGED <<width, timers, notifying, done, local, current_task, round_sum,
                 current_round, completed_rounds, total_sum, status,
                 overlapped>>

\* The process has exited.
Exited == ~running /\ UNCHANGED vars

Next ==
  \/ \E i \in Task : ChildDone(i) \/ ChildSchedules(i)
  \/ \E p \in Parents :
       \/ ParentStarts(p) \/ ParentTests(p)
       \/ ParentLoadsSum(p) \/ ParentStoresSum(p) \/ ParentStepsTask(p)
       \/ ParentFinishesRound(p) \/ ParentLeaves(p)
  \/ Exited

\* Timers fire, child workers and parent workers that run make progress, and
\* the executor queue starts an enqueued parent when it has a free thread.
Fairness ==
  /\ \A i \in Task : WF_vars(ChildDone(i)) /\ WF_vars(ChildSchedules(i))
  /\ \A p \in Parents :
       /\ WF_vars(ParentStarts(p)) /\ WF_vars(ParentTests(p))
       /\ WF_vars(ParentLoadsSum(p)) /\ WF_vars(ParentStoresSum(p))
       /\ WF_vars(ParentStepsTask(p)) /\ WF_vars(ParentFinishesRound(p))
       /\ WF_vars(ParentLeaves(p))

Spec == Init /\ [][Next]_vars /\ Fairness

-----------------------------------------------------------------------------
\* On a queue of any width, a round is completed only when the timer of each
\* of its tasks has fired, for as long as no parent was started beside a running
\* one: a done flag left over from the round before is never taken for this
\* round's.
RoundAwaitsTimers ==
  [][~overlapped /\ completed_rounds' # completed_rounds =>
       \A i \in Task : timers[i] = 0]_vars

\* The exchange in schedule_repeat_parent admits one parent to the queue at a
\* time: the flag is set exactly while one is enqueued and not yet started.
FlagMeansEnqueued ==
  queued = (IF parent_scheduled THEN 1 ELSE 0)

\* No wake-up is lost between the parent's last look at a done flag and its
\* return: a finished task the parent has not walked past is always followed
\* by a parent that runs or is enqueued, or by a child about to schedule one.
NoCompletionStranded ==
  running /\ current_task < tasks /\ done[current_task] =>
    \/ queued > 0
    \/ BusyParents # {}
    \/ \E i \in Task : notifying[i] > 0

\* An "ok" result reports as many rounds and as large a sum as it was asked
\* for: emit_repeat_result prints total_sum beside expected_total_sum.
OkRecordIsExact ==
  status = "ok" => /\ completed_rounds = rounds
                   /\ total_sum = rounds * expected_round_sum

\* Only a parent started beside a running one makes such a result wrong: on a
\* queue of any width, a run in which that never happened is exact.
ExactUnlessOverlapped ==
  ~overlapped => OkRecordIsExact

\* What parents that run one at a time are held to; a wider queue is not, and
\* its rounds are seen as not begun.
Serial(value, initial) == IF width = 1 THEN value ELSE initial

Rounds == INSTANCE RepeatRounds WITH
  rounds <- rounds,
  tasks <- tasks,
  completed_rounds <- Serial(completed_rounds, 0),
  total_sum <- Serial(total_sum, 0),
  status <- Serial(status, "running")

\* One parent at a time carries out the rounds, in order and each exactly.
ImplementsRounds == Rounds!Spec

\* The chain of children and parents never stops short of the last round,
\* however many parents run at once.
EndsOk == <>(status = "ok")
=============================================================================
