---------------------------- MODULE RepeatResume ----------------------------
(***************************************************************************)
(* Mode main-executor-resume-repeat of twq_dispatch_probe.c. A round starts *)
(* one timer per task; a timer enqueues a resume worker on the concurrent   *)
(* executor queue; a resume worker adds its task's index to round_sum and   *)
(* leaves the round's dispatch group; the group's notification completes    *)
(* the round and starts the next.                                           *)
(*                                                                          *)
(* Timers may fire while the starting thread is still creating others (the  *)
(* delay may be 0), and resume workers run in parallel. libdispatch is      *)
(* taken at its word: a group notifies once its count is zero.              *)
(***************************************************************************)
EXTENDS Integers, FiniteSets

CONSTANTS rounds, tasks

ASSUME RoundsAssumption == rounds \in Nat \ {0} /\ tasks \in Nat \ {0}

VARIABLES
  starter,          \* the child resume_repeat_start_round creates next, tasks
                    \* when only the notification is left, tasks + 1 at the end
  child,            \* child[i]: where the i-th child of the round is
  group,            \* the count of the round's dispatch group
  notify,           \* "none", "registered" or "delivered" (enqueued)
  round_sum, total_sum, current_round, completed_rounds,
  completed,        \* state->completed: resume workers that have counted
  status            \* "running", then what the emitted result says

vars == <<starter, child, group, notify, round_sum, total_sum, current_round,
          completed_rounds, completed, status>>

Task == 0..(tasks - 1)

expected_round_sum == (tasks * (tasks - 1)) \div 2

running == status = "running"

-----------------------------------------------------------------------------
(* Mutated forms, each a plausible bug; Spec does not use them.             *)

\* A child created without entering the group.
CreateChild_not_entered ==
  /\ running
  /\ starter \in Task
  /\ child' = [child EXCEPT ![starter] = "timer"]
  /\ starter' = starter + 1
  /\ UNCHANGED <<group, notify, round_sum, total_sum, current_round,
                 completed_rounds, completed, status>>

\* The notification registered before the loop: an early child empties the
\* group while later ones have not entered it.
start_round_notifies_first ==
  /\ starter' = 0
  /\ child' = [i \in Task |-> "none"]
  /\ group' = 0
  /\ notify' = "registered"
  /\ round_sum' = 0

\* A sum carried over from the round before.
start_round_keeps_sum ==
  /\ starter' = 0
  /\ child' = [i \in Task |-> "none"]
  /\ group' = 0
  /\ notify' = "none"
  /\ UNCHANGED round_sum

\* A timer worker that loses its child.
FireTimer_drops(i) ==
  /\ running
  /\ child[i] = "timer"
  /\ child' = [child EXCEPT ![i] = "left"]
  /\ UNCHANGED <<starter, group, notify, round_sum, total_sum, current_round,
                 completed_rounds, completed, status>>

\* A worker that is not counted as completed.
CountCompleted_skipped(i) ==
  /\ running
  /\ child[i] = "added"
  /\ child' = [child EXCEPT ![i] = "counted"]
  /\ UNCHANGED <<starter, group, notify, round_sum, total_sum, current_round,
                 completed_rounds, completed, status>>

-----------------------------------------------------------------------------
\* resume_repeat_start_round up to its loop: a fresh group, a cleared sum.
start_round ==
  /\ starter' = 0
  /\ child' = [i \in Task |-> "none"]
  /\ group' = 0
  /\ notify' = "none"
  /\ round_sum' = 0

\* The root worker on the main queue has started round 0.
Init ==
  /\ starter = 0
  /\ child = [i \in Task |-> "none"]
  /\ group = 0
  /\ notify = "none"
  /\ round_sum = 0
  /\ total_sum = 0
  /\ current_round = 0
  /\ completed_rounds = 0
  /\ completed = 0
  /\ status = "running"

\* One iteration of the loop: enter the group, arm the timer.
CreateChild ==
  /\ running
  /\ starter \in Task
  /\ child' = [child EXCEPT ![starter] = "timer"]
  /\ group' = group + 1
  /\ starter' = starter + 1
  /\ UNCHANGED <<notify, round_sum, total_sum, current_round,
                 completed_rounds, completed, status>>

\* dispatch_group_notify_f after the loop.
RegisterNotify ==
  /\ running
  /\ starter = tasks
  /\ starter' = tasks + 1
  /\ notify' = "registered"
  /\ UNCHANGED <<child, group, round_sum, total_sum, current_round,
                 completed_rounds, completed, status>>

\* resume_repeat_timer_worker.
FireTimer(i) ==
  /\ running
  /\ child[i] = "timer"
  /\ child' = [child EXCEPT ![i] = "queued"]
  /\ UNCHANGED <<starter, group, notify, round_sum, total_sum, current_round,
                 completed_rounds, completed, status>>

\* resume_repeat_resume_worker: the atomic addition ...
AddToSum(i) ==
  /\ running
  /\ child[i] = "queued"
  /\ child' = [child EXCEPT ![i] = "added"]
  /\ round_sum' = round_sum + i
  /\ UNCHANGED <<starter, group, notify, total_sum, current_round,
                 completed_rounds, completed, status>>

\* ... the count of completed workers ...
CountCompleted(i) ==
  /\ running
  /\ child[i] = "added"
  /\ child' = [child EXCEPT ![i] = "counted"]
  /\ completed' = completed + 1
  /\ UNCHANGED <<starter, group, notify, round_sum, total_sum, current_round,
                 completed_rounds, status>>

\* ... and dispatch_group_leave.
LeaveGroup(i) ==
  /\ running
  /\ child[i] = "counted"
  /\ child' = [child EXCEPT ![i] = "left"]
  /\ group' = group - 1
  /\ UNCHANGED <<starter, notify, round_sum, total_sum, current_round,
                 completed_rounds, completed, status>>

\* libdispatch: the notification is enqueued once, when the count is zero.
DeliverNotify ==
  /\ running
  /\ notify = "registered"
  /\ group = 0
  /\ notify' = "delivered"
  /\ UNCHANGED <<starter, child, group, round_sum, total_sum, current_round,
                 completed_rounds, completed, status>>

\* resume_repeat_round_complete_worker.
RoundComplete ==
  /\ running
  /\ notify = "delivered"
  /\ completed_rounds' = completed_rounds + 1
  /\ total_sum' = total_sum + round_sum
  /\ \/ /\ round_sum # expected_round_sum
        /\ status' = "error"
        /\ UNCHANGED <<starter, child, group, notify, round_sum, current_round>>
     \/ /\ round_sum = expected_round_sum
        /\ current_round' = current_round + 1
        /\ current_round' >= rounds
        /\ status' = "ok"
        /\ UNCHANGED <<starter, child, group, notify, round_sum>>
     \/ /\ round_sum = expected_round_sum
        /\ current_round' = current_round + 1
        /\ current_round' < rounds
        /\ start_round
        /\ UNCHANGED status
  /\ UNCHANGED completed

\* The process has exited.
Exited == ~running /\ UNCHANGED vars

Next ==
  \/ CreateChild
  \/ RegisterNotify
  \/ \E i \in Task :
       FireTimer(i) \/ AddToSum(i) \/ CountCompleted(i) \/ LeaveGroup(i)
  \/ DeliverNotify
  \/ RoundComplete
  \/ Exited

\* The threads that run make progress, timers fire, and libdispatch runs what
\* was enqueued.
Fairness ==
  /\ WF_vars(CreateChild) /\ WF_vars(RegisterNotify)
  /\ \A i \in Task : /\ WF_vars(FireTimer(i)) /\ WF_vars(AddToSum(i))
                     /\ WF_vars(CountCompleted(i)) /\ WF_vars(LeaveGroup(i))
  /\ WF_vars(DeliverNotify) /\ WF_vars(RoundComplete)

Spec == Init /\ [][Next]_vars /\ Fairness

-----------------------------------------------------------------------------
TypeOK ==
  /\ starter \in 0..(tasks + 1)
  /\ child \in [Task -> {"none", "timer", "queued", "added", "counted", "left"}]
  /\ group \in 0..tasks
  /\ notify \in {"none", "registered", "delivered"}
  /\ {round_sum, total_sum, current_round, completed_rounds, completed}
       \subseteq Nat
  /\ status \in {"running", "ok", "error"}

\* The round-complete worker finds a finished round whatever the order of
\* timers, resume workers and the starting thread: no child is outstanding and
\* round_sum has each index once. So its EPROTO branch is never taken.
NotifiedRoundIsComplete ==
  /\ notify = "delivered" /\ running =>
       /\ \A i \in Task : child[i] = "left"
       /\ round_sum = expected_round_sum
  /\ status # "error"

\* The record the harness checks (vm.ex, "dispatch resume-repeat expected
\* total"): an "ok" result has its expected sum, and every worker of every
\* round is in the count of completed workers it reports.
OkRecordIsExact ==
  status = "ok" => /\ completed_rounds = rounds
                   /\ total_sum = rounds * expected_round_sum
                   /\ completed = rounds * tasks

\* The children array is reused for the next round only when no timer and no
\* worker of this round can still read it.
ChildrenReusedWhenLeft ==
  [][\A i \in Task : child'[i] = "none" => child[i] \in {"none", "left"}]_vars

Rounds == INSTANCE RepeatRounds WITH
  rounds <- rounds,
  tasks <- tasks,
  completed_rounds <- completed_rounds,
  total_sum <- total_sum,
  status <- status

\* The callbacks carry out the rounds, in order and each exactly.
ImplementsRounds == Rounds!Spec

\* The chain of timers, resumes and notifications never stops short.
EndsOk == Rounds!Ends
=============================================================================
