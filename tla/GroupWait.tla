----------------------------- MODULE GroupWait -----------------------------
(***************************************************************************)
(* The modes of twq_dispatch_probe.c that submit callbacks to a dispatch    *)
(* group and wait for it until a deadline: basic, executor, after and the   *)
(* executor-after modes.                                                    *)
(*                                                                          *)
(* In mode basic libdispatch leaves the group for the worker; in the others *)
(* the worker leaves through the field state->group, which the waiter       *)
(* clears when it is done with the group.                                   *)
(***************************************************************************)
EXTENDS ProbeWorkers

CONSTANT LeavesThroughState   \* FALSE in mode basic

ASSUME ModeAssumption == LeavesThroughState \in BOOLEAN

VARIABLES
  pending,      \* entries of the group not yet left
  group,        \* state->group # NULL
  main,         \* what the waiting thread does next
  record,       \* the result record: counters read, verdict
  status        \* of the process: "running", "exited", "crashed", or what
                \* only NestedWait knows, "crashed_late"

waiterVars == <<pending, group, main, record, status>>

vars == <<workerVars, waiterVars>>

running == status = "running"

Init ==
  /\ WorkersInit
  /\ pending = 0
  /\ group = LeavesThroughState
  /\ main = "submit"
  /\ record = NoRecord
  /\ status = "running"

-----------------------------------------------------------------------------
(* Mutated forms, each a plausible bug; no specification uses them.         *)

\* A worker that leaves the group before it has counted itself completed.
GroupWorkerStep_leaves_first(w) ==
  \/ \E t \in FreeThreads : Begin(w, t)
  \/ EnterFlight(w) \/ LoadMax(w) \/ SwapMax(w) \/ Record(w, "leave")
  \/ LeaveFlight(w) \/ Complete(w, "done")

\* A loop that submits without entering the group.
Submit_not_entered(w) ==
  /\ running
  /\ main = "submit"
  /\ at[w] = "unsubmitted"
  /\ Goto(w, "queued")
  /\ UNCHANGED <<callbackVars, counterVars, tableVars, pending, group, main,
                 record, status>>

\* A waiter that clears the group before it waits for it.
StartWait_clears_group ==
  /\ running
  /\ main = "submit"
  /\ \A w \in Worker : at[w] # "unsubmitted"
  /\ main' = "wait"
  /\ group' = FALSE
  /\ UNCHANGED <<workerVars, pending, record, status>>

-----------------------------------------------------------------------------
\* One turn of the submission loop: dispatch_group_enter and dispatch_async_f
\* or dispatch_after_f, or dispatch_group_async_f. Which callback comes first
\* does not matter.
Submit(w) ==
  /\ running
  /\ main = "submit"
  /\ at[w] = "unsubmitted"
  /\ Goto(w, "queued")
  /\ pending' = pending + 1
  /\ UNCHANGED <<callbackVars, counterVars, tableVars, group, main, record,
                 status>>

StartWait ==
  /\ running
  /\ main = "submit"
  /\ \A w \in Worker : at[w] # "unsubmitted"
  /\ main' = "wait"
  /\ UNCHANGED <<workerVars, pending, group, record, status>>

\* basic_worker and after_worker up to the leave.
GroupWorkerStep(w) == WorkerStep(w)

Work(w) == running /\ GroupWorkerStep(w) /\ UNCHANGED waiterVars

\* dispatch_group_leave; leaving through a cleared state->group crashes.
Leave(w) ==
  /\ running
  /\ at[w] = "leave"
  /\ IF LeavesThroughState /\ ~group
     THEN /\ status' = "crashed"
          /\ UNCHANGED <<at, pending>>
     ELSE /\ pending' = pending - 1
          /\ Goto(w, "done")
          /\ UNCHANGED status
  /\ UNCHANGED <<callbackVars, counterVars, tableVars, group, main, record>>

\* dispatch_group_wait returns: the group is empty, or the deadline has passed.
WaitEnds(timed_out) ==
  /\ running
  /\ main = "wait"
  /\ timed_out \/ pending = 0
  /\ record' = [record EXCEPT !.timed_out = timed_out]
  /\ main' = "started"
  /\ UNCHANGED <<workerVars, pending, group, status>>

\* Each load of a counter follows the one before.
ReadCounter(counter) ==
  /\ running
  /\ main = counter
  /\ record' = [record EXCEPT ![counter] = value(counter)]
  /\ main' = after(counter)
  /\ UNCHANGED <<workerVars, pending, group, status>>

verdict ==
  IF ~record.timed_out /\ record.completed = requested THEN "ok" ELSE "error"

Emit ==
  /\ running
  /\ main = "emit"
  /\ record' = [record EXCEPT !.verdict = verdict]
  /\ main' = "emitted"
  /\ UNCHANGED <<workerVars, pending, group, status>>

\* state->group = NULL; basic has nothing to clear.
ClearGroup ==
  /\ running
  /\ main = "emitted"
  /\ group' = FALSE
  /\ main' = "cleared"
  /\ UNCHANGED <<workerVars, pending, record, status>>

\* main returns, and the process ends whatever still runs in it.
Exit ==
  /\ running
  /\ main = "cleared"
  /\ status' = "exited"
  /\ UNCHANGED <<workerVars, pending, group, main, record>>

Ended == ~running /\ UNCHANGED vars

Main == \/ StartWait \/ Emit \/ ClearGroup \/ Exit
        \/ \E timed_out \in BOOLEAN : WaitEnds(timed_out)
        \/ \E counter \in Counter : ReadCounter(counter)

Next ==
  \/ \E w \in Worker : Submit(w) \/ Work(w) \/ Leave(w)
  \/ Main
  \/ Ended

Spec == Init /\ [][Next]_vars

-----------------------------------------------------------------------------
TypeOK ==
  /\ WorkersTypeOK
  /\ pending \in 0..requested
  /\ group \in BOOLEAN
  /\ main \in Counter \cup {"submit", "wait", "emit", "emitted", "cleared"}
  /\ record \in RecordType
  /\ status \in {"running", "exited", "crashed", "crashed_late"}

emitted == record.verdict # "none"

\* A wait that does not time out finds all the work done: the record then says
\* "ok" and counts every callback as started and completed, and none of them is
\* left to touch the state that main is about to give up.
WaitedRecordIsExact ==
  emitted /\ ~record.timed_out =>
    /\ record.verdict = "ok"
    /\ record.started = requested
    /\ record.completed = requested
    /\ inflight = 0
    /\ \A w \in Worker : at[w] = "done"

\* The maximum an "ok" record reports is the true peak: no callback saw more
\* than that in flight, and one saw just that many, however the loops of
\* update_max raced.
OkRecordHasPeak ==
  record.verdict = "ok" =>
    /\ \A w \in Worker : seen[w] <= record.max_inflight
    /\ \E w \in Worker : seen[w] = record.max_inflight

\* The worker finds the group it must leave, unless the record already told of
\* a time-out.
LateLeaveWasReported ==
  status = "crashed" => record.verdict = "error" /\ record.timed_out
=============================================================================
