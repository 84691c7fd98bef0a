---------------------------- MODULE ProbeWorkers ----------------------------
(***************************************************************************)
(* The part of twq_dispatch_probe.c its modes share: struct                 *)
(* dispatch_probe_state and what a worker callback does to it, one atomic   *)
(* operation or locked region a step, for the modes to put in their order.  *)
(*                                                                          *)
(* A worker w stands for one submitted callback; at[w] is the operation it  *)
(* performs next. thread[w] is the thread it runs on, chosen by the pool    *)
(* among those not running a callback; MainThread until it starts.          *)
(***************************************************************************)
EXTENDS Naturals, FiniteSets

CONSTANTS
  Worker,           \* the requested callbacks
  Thread,           \* pool threads
  MainThread,       \* state->main_thread
  MaxThreads        \* DISPATCH_PROBE_MAX_THREADS, the size of threads[]

ASSUME WorkersAssumption ==
  /\ IsFiniteSet(Worker) /\ Worker # {}
  /\ IsFiniteSet(Thread)
  /\ MainThread \notin Thread
  /\ MaxThreads \in Nat \ {0}

VARIABLES
  at, thread,
  seen,             \* seen[w]: the local variable inflight of w, 0 before
  current,          \* current[w]: the local variable of its update_max
  started, inflight, max_inflight, completed,
  main_thread_callbacks,
  threads           \* threads[0 .. thread_count - 1]

callbackVars == <<thread, seen, current>>
counterVars == <<started, inflight, max_inflight, completed>>
tableVars == <<main_thread_callbacks, threads>>
workerVars == <<at, callbackVars, counterVars, tableVars>>

requested == Cardinality(Worker)

\* "posted": on its way to the main queue, and on no thread.
Stage == {"unsubmitted", "queued", "enter", "load", "swap", "record", "posted",
          "flying", "finish", "leave", "done"}

Begun == Stage \ {"unsubmitted", "queued"}
InFlight == {"load", "swap", "record", "posted", "flying"}
Completed == {"leave", "done"}

InStages(stages) == {w \in Worker : at[w] \in stages}

\* A callback occupies its thread until it returns.
OnThread == Begun \ {"posted", "done"}

FreeThreads == Thread \ {thread[w] : w \in InStages(OnThread)}

\* main: memset(&state, 0, sizeof(state)).
WorkersInit ==
  /\ at = [w \in Worker |-> "unsubmitted"]
  /\ thread = [w \in Worker |-> MainThread]
  /\ seen = [w \in Worker |-> 0]
  /\ current = [w \in Worker |-> 0]
  /\ started = 0
  /\ inflight = 0
  /\ max_inflight = 0
  /\ completed = 0
  /\ main_thread_callbacks = 0
  /\ threads = {}

Goto(w, stage) == at' = [at EXCEPT ![w] = stage]

-----------------------------------------------------------------------------
(* Mutated forms, each a plausible bug; no specification uses them.         *)

\* update_max that stores without comparing, and so may store a smaller value.
SwapMax_blind(w) ==
  /\ at[w] = "swap"
  /\ max_inflight' = IF seen[w] > current[w] THEN seen[w] ELSE max_inflight
  /\ Goto(w, "record")
  /\ UNCHANGED <<callbackVars, started, inflight, completed, tableVars>>

\* update_max that gives up when the exchange fails.
SwapMax_once(w) ==
  /\ at[w] = "swap"
  /\ max_inflight' = IF seen[w] > current[w] /\ max_inflight = current[w]
                     THEN seen[w] ELSE max_inflight
  /\ Goto(w, "record")
  /\ UNCHANGED <<callbackVars, started, inflight, completed, tableVars>>

\* record_thread that stores only into an empty table.
record_thread_first(t) ==
  threads' = IF threads = {} THEN {t} ELSE threads

-----------------------------------------------------------------------------
\* Libdispatch calls w on thread t, which first counts it: started.
Begin(w, t) ==
  /\ at[w] = "queued"
  /\ thread' = [thread EXCEPT ![w] = t]
  /\ started' = started + 1
  /\ Goto(w, "enter")
  /\ UNCHANGED <<seen, current, inflight, max_inflight, completed,
                 tableVars>>

\* inflight = __atomic_add_fetch(&state->inflight, 1).
EnterFlight(w) ==
  /\ at[w] = "enter"
  /\ inflight' = inflight + 1
  /\ seen' = [seen EXCEPT ![w] = inflight']
  /\ Goto(w, "load")
  /\ UNCHANGED <<thread, current, started, max_inflight, completed,
                 tableVars>>

\* update_max: the first load of the maximum ...
LoadMax(w) ==
  /\ at[w] = "load"
  /\ current' = [current EXCEPT ![w] = max_inflight]
  /\ Goto(w, "swap")
  /\ UNCHANGED <<thread, seen, counterVars, tableVars>>

\* ... and one turn of its loop: done, exchanged, or failed with a reload.
SwapMax(w) ==
  /\ at[w] = "swap"
  /\ IF seen[w] > current[w] /\ max_inflight # current[w]
     THEN /\ current' = [current EXCEPT ![w] = max_inflight]
          /\ UNCHANGED <<at, max_inflight>>
     ELSE /\ max_inflight' = IF seen[w] > current[w] THEN seen[w]
                             ELSE max_inflight
          /\ Goto(w, "record")
          /\ UNCHANGED current
  /\ UNCHANGED <<thread, seen, started, inflight, completed, tableVars>>

\* record_thread: the table keeps the first MaxThreads distinct threads.
record_thread(t) ==
  threads' = IF Cardinality(threads) < MaxThreads THEN threads \cup {t}
             ELSE threads

\* record_common, on thread t.
record_common(t) ==
  /\ main_thread_callbacks' =
       main_thread_callbacks + (IF t = MainThread THEN 1 ELSE 0)
  /\ record_thread(t)

Record(w, next) ==
  /\ at[w] = "record"
  /\ record_common(thread[w])
  /\ Goto(w, next)
  /\ UNCHANGED <<callbackVars, counterVars>>

\* __atomic_sub_fetch(&state->inflight, 1), after the sleep if there is one.
LeaveFlight(w) ==
  /\ at[w] = "flying"
  /\ inflight' = inflight - 1
  /\ Goto(w, "finish")
  /\ UNCHANGED <<callbackVars, started, max_inflight, completed, tableVars>>

\* __atomic_add_fetch(&state->completed, 1).
Complete(w, next) ==
  /\ at[w] = "finish"
  /\ completed' = completed + 1
  /\ Goto(w, next)
  /\ UNCHANGED <<callbackVars, started, inflight, max_inflight, tableVars>>

\* basic_worker and after_worker, from start to the leave of the group, which
\* is the mode's.
WorkerStep(w) ==
  \/ \E t \in FreeThreads : Begin(w, t)
  \/ EnterFlight(w) \/ LoadMax(w) \/ SwapMax(w) \/ Record(w, "flying")
  \/ LeaveFlight(w) \/ Complete(w, "leave")

-----------------------------------------------------------------------------
\* The result record, its counters read one after the other while the workers
\* that are left run on.
Counter == {"started", "completed", "max_inflight", "main_thread_callbacks",
            "unique_threads"}

NoRecord == [started |-> 0, completed |-> 0, max_inflight |-> 0,
             main_thread_callbacks |-> 0, unique_threads |-> 0,
             timed_out |-> FALSE, verdict |-> "none"]

value(counter) ==
  CASE counter = "started" -> started
    [] counter = "completed" -> completed
    [] counter = "max_inflight" -> max_inflight
    [] counter = "main_thread_callbacks" -> main_thread_callbacks
    [] counter = "unique_threads" -> Cardinality(threads)

after(counter) ==
  CASE counter = "started" -> "completed"
    [] counter = "completed" -> "max_inflight"
    [] counter = "max_inflight" -> "main_thread_callbacks"
    [] counter = "main_thread_callbacks" -> "unique_threads"
    [] counter = "unique_threads" -> "emit"

-----------------------------------------------------------------------------
RecordType ==
  [started : 0..requested, completed : 0..requested,
   max_inflight : 0..requested, main_thread_callbacks : Nat,
   unique_threads : 0..MaxThreads, timed_out : BOOLEAN,
   verdict : {"none", "ok", "error"}]

WorkersTypeOK ==
  /\ at \in [Worker -> Stage]
  /\ thread \in [Worker -> Thread \cup {MainThread}]
  /\ seen \in [Worker -> 0..requested]
  /\ current \in [Worker -> 0..requested]
  /\ {started, inflight, max_inflight, completed} \subseteq 0..requested
  /\ main_thread_callbacks \in Nat
  /\ threads \subseteq Thread \cup {MainThread}

\* The counters are exactly the numbers of callbacks in each part of the work.
CountersAgree ==
  /\ started = Cardinality(InStages(Begun))
  /\ inflight = Cardinality(InStages(InFlight))
  /\ completed = Cardinality(InStages(Completed))
=============================================================================
