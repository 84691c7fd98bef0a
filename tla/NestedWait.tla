----------------------------- MODULE NestedWait -----------------------------
(***************************************************************************)
(* All group-wait modes of twq_dispatch_probe.c as processes: the wait of   *)
(* GroupWait in the main thread, which then exits, or in a root worker of   *)
(* the pool that the main thread waits for in turn (worker-after-group),    *)
(* until a deadline of its own, on a semaphore in its stack frame.          *)
(***************************************************************************)
EXTENDS GroupWait

VARIABLES
  nested,       \* the mode is worker-after-group, which never changes
  root,         \* the thread that submits and waits: "enqueued", "runs" or
                \* "returned", after it signalled the semaphore
  root_thread,  \* the pool thread it occupies, MainThread for none
  outer,        \* the main thread: "wait", "late" when its deadline has passed,
                \* "released" when it has reported and given up probe
  outer_verdict,
  rc,           \* probe.rc
  code          \* what the process exits with

outerVars == <<outer, outer_verdict, rc, code>>

nestedVars == <<vars, nested, root, root_thread, outerVars>>

NestedInit ==
  /\ Init
  /\ nested \in {FALSE, LeavesThroughState}
  /\ root = IF nested THEN "enqueued" ELSE "runs"
  /\ root_thread = MainThread
  /\ outer = "wait"
  /\ outer_verdict = "none"
  /\ rc = 0
  /\ code = 0

failed == IF record.verdict = "ok" THEN 0 ELSE 1

-----------------------------------------------------------------------------
(* Mutated forms, each a plausible bug; no specification uses them.         *)

\* A main thread that returns probe.rc also after its own deadline.
OuterGivesUp_returns_rc ==
  /\ running
  /\ outer = "released"
  /\ status' = "exited"
  /\ code' = rc
  /\ UNCHANGED <<workerVars, pending, group, main, record, nested, root,
                 root_thread, outer, outer_verdict, rc>>

-----------------------------------------------------------------------------
\* after_group_root_worker starts on pool thread t.
RootStarts(t) ==
  /\ running
  /\ root = "enqueued"
  /\ record_common(t)
  /\ root' = "runs"
  /\ root_thread' = t
  /\ UNCHANGED <<at, callbackVars, counterVars, waiterVars, nested, outerVars>>

\* The submission loop and the wait, in whichever thread runs them; a root
\* worker does not exit.
SubmitAndWait ==
  /\ root = "runs"
  /\ \/ \E w \in Worker : Submit(w)
     \/ Main /\ ~Exit
  /\ UNCHANGED <<nested, root, root_thread, outerVars>>

\* The callbacks, on threads other than the one the root worker blocks.
WorkOrLeave(w) ==
  /\ Work(w) \/ Leave(w)
  /\ thread'[w] = thread[w] \/ thread'[w] # root_thread
  /\ UNCHANGED <<nested, root, root_thread, outerVars>>

\* The other modes return from main.
ExitWithVerdict ==
  /\ ~nested
  /\ Exit
  /\ code' = failed
  /\ UNCHANGED <<nested, root, root_thread, outer, outer_verdict, rc>>

\* The root worker stores its verdict and signals the semaphore.
RootSignals ==
  /\ running
  /\ nested
  /\ root = "runs"
  /\ main = "cleared"
  /\ rc' = failed
  /\ root' = "returned"
  /\ root_thread' = MainThread
  /\ UNCHANGED <<vars, nested, outer, outer_verdict, code>>

\* Using the probe or the semaphore of a main thread that has given up either
\* goes as if they were still there, or crashes.
RootCrashes ==
  /\ running
  /\ root = "runs"
  /\ outer = "released"
  /\ main \in {"submit", "emit", "cleared"}
  /\ status' = "crashed_late"
  /\ UNCHANGED <<workerVars, pending, group, main, record, nested, root,
                 root_thread, outerVars>>

\* dispatch_semaphore_wait returns to the main thread in time ...
OuterReturns ==
  /\ running
  /\ outer = "wait"
  /\ root = "returned"
  /\ status' = "exited"
  /\ code' = rc
  /\ UNCHANGED <<workerVars, pending, group, main, record, nested, root,
                 root_thread, outer, outer_verdict, rc>>

\* ... or at its deadline, which no signal has come before.
OuterTimesOut ==
  /\ running
  /\ nested
  /\ outer = "wait"
  /\ root # "returned"
  /\ outer' = "late"
  /\ UNCHANGED <<vars, nested, root, root_thread, outer_verdict, rc, code>>

\* The main thread loads the counters, prints a record of its own, with status
\* "error" whatever they are, and releases the semaphore.
OuterReports ==
  /\ running
  /\ outer = "late"
  /\ outer_verdict' = "error"
  /\ outer' = "released"
  /\ UNCHANGED <<vars, nested, root, root_thread, rc, code>>

OuterGivesUp ==
  /\ running
  /\ outer = "released"
  /\ status' = "exited"
  /\ code' = 1
  /\ UNCHANGED <<workerVars, pending, group, main, record, nested, root,
                 root_thread, outer, outer_verdict, rc>>

NestedEnded == ~running /\ UNCHANGED nestedVars

Outer == OuterReturns \/ OuterReports \/ OuterGivesUp \/ ExitWithVerdict

NestedNext ==
  \/ \E t \in FreeThreads : RootStarts(t)
  \/ SubmitAndWait \/ RootSignals \/ RootCrashes
  \/ \E w \in Worker : WorkOrLeave(w)
  \/ Outer \/ OuterTimesOut
  \/ NestedEnded

NestedSpec == NestedInit /\ [][NestedNext]_nestedVars

\* The waiting threads are scheduled. Nothing makes a deadline pass: how long
\* the callbacks take is not bounded.
WaiterFairness ==
  /\ WF_nestedVars(\E t \in FreeThreads : RootStarts(t))
  /\ WF_nestedVars(SubmitAndWait /\ ~record'.timed_out)
  /\ WF_nestedVars(RootSignals)
  /\ WF_nestedVars(Outer)

\* The pool gives every submitted callback a thread and lets it run.
WorkerFairness == \A w \in Worker : WF_nestedVars(WorkOrLeave(w))

FairSpec == NestedSpec /\ WaiterFairness /\ WorkerFairness

-----------------------------------------------------------------------------
\* As many callbacks as were ever in flight at once ran on as many threads, so
\* an "ok" record counts no fewer threads, unless the table of threads is full;
\* and no more threads than callbacks, but for the root worker's own.
PeakHasThreads ==
  record.verdict = "ok" =>
    /\ \/ record.max_inflight <= record.unique_threads
       \/ record.unique_threads = MaxThreads
    /\ record.unique_threads <= record.completed + (IF nested THEN 1 ELSE 0)

\* The process exits with 0 when it printed one record that says "ok", and only
\* then: a root worker that prints "ok" beside the "error" of a main thread
\* that has stopped waiting for it does not make the run a success.
ExitCodeTellsRecords ==
  status = "exited" =>
    (code = 0 <=> record.verdict = "ok" /\ outer_verdict = "none")

\* Unless a deadline passes the probe ends and says "ok": every entry of the
\* group is left once, and the last leave ends the wait.
EndsOk ==
  <>(record.timed_out \/ outer # "wait" \/ (status = "exited" /\ code = 0))
=============================================================================
