----------------------------- MODULE MainModes -----------------------------
(***************************************************************************)
(* The modes of twq_dispatch_probe.c that end in a callback on the main     *)
(* queue, which reports the result and exits the process:                   *)
(*   main       main and main-after: every callback runs on the main queue  *)
(*   roundtrip  main-roundtrip-after: callbacks on pool threads, each of    *)
(*              which sends a second half to the main queue                 *)
(*   group      main-group-after: callbacks on pool threads that leave a    *)
(*              group, whose notification is sent to the main queue         *)
(* The main queue runs one block at a time. dispatch_main has unbound it    *)
(* from the main thread, so that its blocks run on pool threads too (see    *)
(* m13-benchmark-baseline-progress.md, lines 431 to 441). None of the       *)
(* modes has a deadline.                                                    *)
(***************************************************************************)
EXTENDS ProbeWorkers

VARIABLES
  mode,         \* the mode main was called with, which never changes
  root,         \* the root worker, or the loop of the main function: what next
  pending,      \* entries of the group not yet left
  notify,       \* a notification is registered and has not been sent
  reads,        \* what the reporting callback does next, "none" before
  drainer,      \* the thread of the root worker or notification, if one runs
  record, status

modeVars == <<mode, root, pending, notify, reads, drainer, record, status>>

vars == <<workerVars, modeVars>>

running == status = "running"

\* The stages of a callback that it goes through on the main queue.
MainStages ==
  CASE mode = "main" -> OnThread
    [] mode = "roundtrip" -> {"flying", "finish"}
    [] mode = "group" -> {}

MainBusy == root # "done" \/ reads # "none" \/ InStages(MainStages) # {}

\* main submits the callbacks of mode main itself; a root worker runs on the
\* drainer, and so does the notification of a group.
PoolThreads == FreeThreads \ {drainer}

Init ==
  /\ WorkersInit
  /\ mode \in {"main", "roundtrip", "group"}
  /\ root = IF mode = "main" THEN "arm" ELSE "record"
  /\ pending = 0
  /\ notify = FALSE
  /\ reads = "none"
  /\ drainer = MainThread
  /\ record = NoRecord
  /\ status = "running"

-----------------------------------------------------------------------------
(* Mutated forms, each a plausible bug; no specification uses them.         *)

\* A timer armed before the group is entered.
Arm_not_entered(w) ==
  /\ running
  /\ root = "arm"
  /\ at[w] = "unsubmitted"
  /\ Goto(w, "queued")
  /\ UNCHANGED <<callbackVars, counterVars, tableVars, modeVars>>

\* A callback that does not leave the group.
Leave_not(w) ==
  /\ running
  /\ at[w] = "leave"
  /\ Goto(w, "done")
  /\ UNCHANGED <<callbackVars, counterVars, tableVars, modeVars>>

-----------------------------------------------------------------------------
\* main_roundtrip_root_worker and main_group_root_worker start on the main
\* queue.
RootRecords(t) ==
  /\ running
  /\ root = "record"
  /\ record_common(t)
  /\ drainer' = t
  /\ root' = "arm"
  /\ UNCHANGED <<at, callbackVars, counterVars, mode, pending, notify, reads,
                 record, status>>

\* One turn of the loop: a callback is submitted or its timer armed.
Arm(w) ==
  /\ running
  /\ root = "arm"
  /\ at[w] = "unsubmitted"
  /\ Goto(w, "queued")
  /\ pending' = IF mode = "group" THEN pending + 1 ELSE pending
  /\ UNCHANGED <<callbackVars, counterVars, tableVars, mode, root, notify,
                 reads, drainer, record, status>>

\* The loop is over: dispatch_group_notify_f in mode group, dispatch_main in
\* mode main.
RootEnds ==
  /\ running
  /\ root = "arm"
  /\ \A w \in Worker : at[w] # "unsubmitted"
  /\ root' = "done"
  /\ drainer' = MainThread
  /\ notify' = (mode = "group")
  /\ UNCHANGED <<workerVars, mode, pending, reads, record, status>>

\* main_roundtrip_complete_worker starts on the main queue.
Hop(w, t) ==
  /\ at[w] = "posted"
  /\ ~MainBusy
  /\ thread' = [thread EXCEPT ![w] = t]
  /\ record_common(t)
  /\ Goto(w, "flying")
  /\ UNCHANGED <<seen, current, counterVars>>

\* The steps of the callbacks of each mode before they count themselves
\* completed.
CallbackStep(w) ==
  \/ /\ mode = "main" => ~MainBusy
     /\ \E t \in PoolThreads : Begin(w, t)
  \/ EnterFlight(w) \/ LoadMax(w) \/ SwapMax(w)
  \/ Record(w, IF mode = "roundtrip" THEN "posted" ELSE "flying")
  \/ \E t \in PoolThreads : Hop(w, t)
  \/ LeaveFlight(w)

Callback(w) == running /\ CallbackStep(w) /\ UNCHANGED modeVars

\* The callback whose own increment reaches the number requested reports.
is_last(count) == count = requested

CompleteOnMain(w) ==
  /\ running
  /\ mode # "group"
  /\ Complete(w, "done")
  /\ IF is_last(completed')
     THEN /\ record' = [record EXCEPT !.completed = completed']
          /\ reads' = "started"
     ELSE UNCHANGED <<record, reads>>
  /\ UNCHANGED <<mode, root, pending, notify, drainer, status>>

CompleteInGroup(w) ==
  /\ running
  /\ mode = "group"
  /\ Complete(w, "leave")
  /\ UNCHANGED modeVars

Leave(w) ==
  /\ running
  /\ at[w] = "leave"
  /\ pending' = pending - 1
  /\ Goto(w, "done")
  /\ UNCHANGED <<callbackVars, counterVars, tableVars, mode, root, notify,
                 reads, drainer, record, status>>

\* The group is empty, and main_group_notify_worker starts on the main queue.
Notified(t) ==
  /\ running
  /\ notify
  /\ pending = 0
  /\ ~MainBusy
  /\ notify' = FALSE
  /\ record_common(t)
  /\ drainer' = t
  /\ reads' = "started"
  /\ UNCHANGED <<at, callbackVars, counterVars, mode, root, pending, record,
                 status>>

\* The callbacks of modes main and roundtrip know what they completed.
next_read(counter) ==
  IF counter = "started" /\ mode # "group" THEN "max_inflight"
  ELSE after(counter)

ReadCounter(counter) ==
  /\ running
  /\ reads = counter
  /\ record' = [record EXCEPT ![counter] = value(counter)]
  /\ reads' = next_read(counter)
  /\ UNCHANGED <<workerVars, mode, root, pending, notify, drainer, status>>

EmitAndExit ==
  /\ running
  /\ reads = "emit"
  /\ record' = [record EXCEPT !.verdict =
                  IF record.completed = requested THEN "ok" ELSE "error"]
  /\ status' = "exited"
  /\ UNCHANGED <<workerVars, mode, root, pending, notify, drainer, reads>>

Ended == ~running /\ UNCHANGED vars

Main ==
  \/ \E t \in PoolThreads : RootRecords(t) \/ Notified(t)
  \/ RootEnds \/ EmitAndExit
  \/ \E counter \in Counter : ReadCounter(counter)

Work(w) == Arm(w) \/ Callback(w) \/ CompleteOnMain(w) \/ CompleteInGroup(w)
             \/ Leave(w)

Next == Main \/ (\E w \in Worker : Work(w)) \/ Ended

\* Timers fire, the pool gives every callback a thread, and the main queue runs
\* what it is sent.
Fairness == WF_vars(Main) /\ \A w \in Worker : WF_vars(Work(w))

Spec == Init /\ [][Next]_vars /\ Fairness

-----------------------------------------------------------------------------
TypeOK ==
  /\ WorkersTypeOK
  /\ mode \in {"main", "roundtrip", "group"}
  /\ root \in {"record", "arm", "done"}
  /\ pending \in 0..requested
  /\ notify \in BOOLEAN
  /\ reads \in Counter \cup {"none", "emit"}
  /\ drainer \in Thread \cup {MainThread}
  /\ record \in RecordType
  /\ status \in {"running", "exited"}

\* The reporting callback reads counters nobody changes any more: it runs
\* after everything every other callback does, although nothing locks them.
QuietWhileRead ==
  reads # "none" => \A w \in Worker : at[w] = "done"

\* The process exits with an ok record, and the maximum in it is the true peak of
\* callbacks in flight.
ExitRecordHasPeak ==
  status = "exited" =>
    /\ record.verdict = "ok"
    /\ \A w \in Worker : seen[w] <= record.max_inflight
    /\ \E w \in Worker : seen[w] = record.max_inflight

\* The chain of timers, callbacks and blocks on the main queue always reaches
\* the exit: no mode hangs.
Exits == <>(status = "exited")
=============================================================================
