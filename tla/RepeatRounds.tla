---------------------------- MODULE RepeatRounds ----------------------------
(***************************************************************************)
(* What the repeat modes of twq_dispatch_probe.c promise, whatever queues   *)
(* and callbacks carry them out: round after round, each round adding the   *)
(* indices of its tasks once, and a result "ok" when all rounds are done.   *)
(***************************************************************************)
EXTENDS Naturals

CONSTANTS rounds, tasks

VARIABLES completed_rounds, total_sum, status

expected_round_sum == (tasks * (tasks - 1)) \div 2

Init == completed_rounds = 0 /\ total_sum = 0 /\ status = "running"

\* The last round and the result come together.
CompleteRound ==
  /\ status = "running"
  /\ completed_rounds' = completed_rounds + 1
  /\ total_sum' = total_sum + expected_round_sum
  /\ status' = IF completed_rounds' = rounds THEN "ok" ELSE "running"

Next == CompleteRound

Spec == Init /\ [][Next]_<<completed_rounds, total_sum, status>>

\* The probe ends, and with a result that says "ok".
Ends == <>(status = "ok")
=============================================================================
