-------------------------- MODULE GroupWaitProofs --------------------------
(***************************************************************************)
(* Proofs about GroupWait and NestedWait, for every number of callbacks,    *)
(* threads and table entries, whether the deadlines may pass or not.        *)
(***************************************************************************)
EXTENDS NestedWait, FiniteSetTheorems, TLAPS

Pending == Stage \ {"unsubmitted", "done"}

\* Every counter is the number of callbacks in some stages of the work.
Counts ==
  /\ CountersAgree
  /\ pending = Cardinality(InStages(Pending))

\* A callback past update_max is accounted for in the maximum, and the maximum
\* is no callback's invention.
Peak ==
  /\ \A w \in Worker :
       /\ seen[w] = 0 <=> at[w] \in {"unsubmitted", "queued", "enter"}
       /\ current[w] <= max_inflight
       /\ at[w] \in {"record", "flying", "finish", "leave", "done"} =>
            seen[w] <= max_inflight
  /\ max_inflight = 0 \/ \E w \in Worker : seen[w] = max_inflight

\* The table of threads does not outgrow its array.
Table == IsFiniteSet(threads) /\ Cardinality(threads) <= MaxThreads

\* What the waiting thread knows at each point of its way.
Waiter ==
  /\ main # "submit" => \A w \in Worker : at[w] # "unsubmitted"
  /\ main \in {"submit", "wait"} => ~record.timed_out
  /\ main \notin {"submit", "wait"} /\ ~record.timed_out =>
       \A w \in Worker : at[w] = "done"
  /\ main \notin {"submit", "wait", "started"} /\ ~record.timed_out =>
       record.started = started
  /\ main \notin {"submit", "wait", "started", "completed"}
       /\ ~record.timed_out => record.completed = completed
  /\ main \in {"main_thread_callbacks", "unique_threads", "emit", "emitted",
              "cleared"}
       /\ ~record.timed_out => record.max_inflight = max_inflight
  /\ record.verdict = "none" <=> main \notin {"emitted", "cleared"}
  /\ record.verdict = "ok" => ~record.timed_out
  /\ record.verdict = "error" => record.timed_out
  /\ ~group => ~LeavesThroughState \/ main = "cleared"
  /\ LateLeaveWasReported

IInv == TypeOK /\ Counts /\ Peak /\ Table /\ Waiter

-----------------------------------------------------------------------------
(* Counting the callbacks in a set of stages.                               *)

LEMMA CountType ==
  ASSUME NEW f, NEW S
  PROVE  /\ IsFiniteSet({v \in Worker : f[v] \in S})
         /\ Cardinality({v \in Worker : f[v] \in S}) \in 0..requested
<1> DEFINE F == {v \in Worker : f[v] \in S}
<1>1. IsFiniteSet(Worker)
  BY WorkersAssumption
<1>2. F \in SUBSET Worker
  OBVIOUS
<1> HIDE DEF F
<1>3. /\ IsFiniteSet(F) /\ Cardinality(F) <= Cardinality(Worker)
  BY <1>1, <1>2, FS_Subset
<1>4. Cardinality(F) \in Nat /\ Cardinality(Worker) \in Nat
  BY <1>1, <1>3, FS_CardinalityType
<1>5. IsFiniteSet(F) /\ Cardinality(F) \in 0..requested
  BY <1>3, <1>4 DEF requested
<1> QED
  BY <1>5 DEF F

LEMMA CountMove ==
  ASSUME NEW f \in [Worker -> Stage], NEW w \in Worker, NEW s \in Stage, NEW S
  PROVE  LET before == {v \in Worker : f[v] \in S}
             after_move == {v \in Worker : [f EXCEPT ![w] = s][v] \in S}
         IN /\ f[w] \notin S /\ s \in S =>
                 Cardinality(after_move) = Cardinality(before) + 1
            /\ f[w] \in S /\ s \notin S =>
                 Cardinality(after_move) = Cardinality(before) - 1
            /\ (f[w] \in S <=> s \in S) =>
                 Cardinality(after_move) = Cardinality(before)
<1> DEFINE F == {v \in Worker : f[v] \in S}
           G == {v \in Worker : [f EXCEPT ![w] = s][v] \in S}
<1>1. IsFiniteSet(F)
  BY CountType
<1>2. f[w] \notin S /\ s \in S => w \notin F /\ G = F \cup {w}
  OBVIOUS
<1>3. f[w] \in S /\ s \notin S => w \in F /\ G = F \ {w}
  OBVIOUS
<1>4. (f[w] \in S <=> s \in S) => G = F
  OBVIOUS
<1> HIDE DEF F, G
<1>5. /\ w \notin F => Cardinality(F \cup {w}) = Cardinality(F) + 1
      /\ w \in F => Cardinality(F \ {w}) = Cardinality(F) - 1
  BY <1>1, FS_AddElement, FS_RemoveElement
<1>6. /\ f[w] \notin S /\ s \in S => Cardinality(G) = Cardinality(F) + 1
      /\ f[w] \in S /\ s \notin S => Cardinality(G) = Cardinality(F) - 1
      /\ (f[w] \in S <=> s \in S) => Cardinality(G) = Cardinality(F)
  BY <1>2, <1>3, <1>4, <1>5
<1> QED
  BY <1>6 DEF F, G

\* What a step of one callback does to the number of callbacks in S.
LEMMA GotoCounts ==
  ASSUME at \in [Worker -> Stage], NEW w \in Worker, NEW s \in Stage,
         Goto(w, s), NEW S
  PROVE  /\ at' \in [Worker -> Stage]
         /\ at[w] \notin S /\ s \in S =>
              Cardinality(InStages(S)') = Cardinality(InStages(S)) + 1
         /\ at[w] \in S /\ s \notin S =>
              Cardinality(InStages(S)') = Cardinality(InStages(S)) - 1
         /\ (at[w] \in S <=> s \in S) =>
              Cardinality(InStages(S)') = Cardinality(InStages(S))
<1>1. at' = [at EXCEPT ![w] = s]
  BY DEF Goto
<1>2. at' \in [Worker -> Stage]
  BY <1>1
<1> QED
  BY <1>1, <1>2, CountMove DEF InStages

-----------------------------------------------------------------------------
(* A step of the waiting thread leaves the callbacks alone.                 *)

LEMMA MainLeavesWorkers ==
  ASSUME Main \/ Ended \/ UNCHANGED vars
  PROVE  UNCHANGED workerVars /\ pending' = pending
BY DEF Main, StartWait, WaitEnds, ReadCounter, Emit, ClearGroup, Exit, Ended,
       vars, waiterVars

\* The counters follow the callbacks.
LEMMA CountsStep ==
  ASSUME TypeOK, Counts, [Next]_vars
  PROVE  Counts' /\ at' \in [Worker -> Stage]
<1>1. /\ at \in [Worker -> Stage]
      /\ started \in Nat /\ inflight \in Nat /\ completed \in Nat
      /\ pending \in Nat
  BY DEF TypeOK, WorkersTypeOK, requested
<1>2. /\ started = Cardinality(InStages(Begun))
      /\ inflight = Cardinality(InStages(InFlight))
      /\ completed = Cardinality(InStages(Completed))
      /\ pending = Cardinality(InStages(Pending))
  BY DEF Counts, CountersAgree
<1> USE <1>1
<1> DEFINE Goal == /\ at' \in [Worker -> Stage]
                   /\ started' = Cardinality(InStages(Begun)')
                   /\ inflight' = Cardinality(InStages(InFlight)')
                   /\ completed' = Cardinality(InStages(Completed)')
                   /\ pending' = Cardinality(InStages(Pending)')
<1> SUFFICES Goal
  BY DEF Counts, CountersAgree
<1>3. ASSUME NEW w \in Worker, Submit(w)
      PROVE  Goal
  <2>1. at[w] = "unsubmitted" /\ Goto(w, "queued") /\ "queued" \in Stage
    BY <1>3 DEF Submit, Stage
  <2>2. UNCHANGED counterVars /\ pending' = pending + 1
    BY <1>3 DEF Submit
  <2> QED
    BY <1>2, <2>1, <2>2, GotoCounts
       DEF Begun, InFlight, Completed, Pending, Stage, counterVars
<1>4. ASSUME NEW w \in Worker, Leave(w)
      PROVE  Goal
  <2>1. CASE LeavesThroughState /\ ~group
    BY <1>2, <1>4, <2>1 DEF Leave, counterVars, InStages
  <2>2. CASE ~(LeavesThroughState /\ ~group)
    <3>1. at[w] = "leave" /\ Goto(w, "done") /\ "done" \in Stage
      BY <1>4, <2>2 DEF Leave, Stage
    <3>2. UNCHANGED counterVars /\ pending' = pending - 1
      BY <1>4, <2>2 DEF Leave
    <3> QED
      BY <1>2, <3>1, <3>2, GotoCounts
         DEF Begun, InFlight, Completed, Pending, Stage, counterVars
  <2> QED
    BY <2>1, <2>2
<1>5. ASSUME NEW w \in Worker, Work(w)
      PROVE  Goal
  <2>0. pending' = pending
    BY <1>5 DEF Work, waiterVars
  <2>1. ASSUME NEW t \in FreeThreads, Begin(w, t)
        PROVE  Goal
    <3>1. at[w] = "queued" /\ Goto(w, "enter") /\ "enter" \in Stage
      BY <2>1 DEF Begin, Stage
    <3> QED
      BY <1>2, <2>0, <2>1, <3>1, GotoCounts
         DEF Begin, Begun, InFlight, Completed, Pending, Stage
  <2>2. CASE EnterFlight(w)
    <3>1. at[w] = "enter" /\ Goto(w, "load") /\ "load" \in Stage
      BY <2>2 DEF EnterFlight, Stage
    <3> QED
      BY <1>2, <2>0, <2>2, <3>1, GotoCounts
         DEF EnterFlight, Begun, InFlight, Completed, Pending, Stage
  <2>3. CASE LoadMax(w)
    <3>1. at[w] = "load" /\ Goto(w, "swap") /\ "swap" \in Stage
      BY <2>3 DEF LoadMax, Stage
    <3> QED
      BY <1>2, <2>0, <2>3, <3>1, GotoCounts
         DEF LoadMax, Begun, InFlight, Completed, Pending, Stage, counterVars
  <2>4. CASE SwapMax(w)
    <3>1. /\ at[w] = "swap" /\ "record" \in Stage
          /\ UNCHANGED at \/ Goto(w, "record")
          /\ UNCHANGED <<started, inflight, completed>>
      BY <2>4 DEF SwapMax, Stage
    <3>2. CASE UNCHANGED at
      BY <1>2, <2>0, <3>1, <3>2 DEF InStages
    <3>3. CASE Goto(w, "record")
      BY <1>2, <2>0, <3>1, <3>3, GotoCounts
         DEF Begun, InFlight, Completed, Pending, Stage
    <3> QED
      BY <3>1, <3>2, <3>3
  <2>5. CASE Record(w, "flying")
    <3>1. at[w] = "record" /\ Goto(w, "flying") /\ "flying" \in Stage
      BY <2>5 DEF Record, Stage
    <3> QED
      BY <1>2, <2>0, <2>5, <3>1, GotoCounts
         DEF Record, Begun, InFlight, Completed, Pending, Stage, counterVars
  <2>6. CASE LeaveFlight(w)
    <3>1. at[w] = "flying" /\ Goto(w, "finish") /\ "finish" \in Stage
      BY <2>6 DEF LeaveFlight, Stage
    <3> QED
      BY <1>2, <2>0, <2>6, <3>1, GotoCounts
         DEF LeaveFlight, Begun, InFlight, Completed, Pending, Stage
  <2>7. CASE Complete(w, "leave")
    <3>1. at[w] = "finish" /\ Goto(w, "leave") /\ "leave" \in Stage
      BY <2>7 DEF Complete, Stage
    <3> QED
      BY <1>2, <2>0, <2>7, <3>1, GotoCounts
         DEF Complete, Begun, InFlight, Completed, Pending, Stage
  <2> QED
    BY <1>5, <2>1, <2>2, <2>3, <2>4, <2>5, <2>6, <2>7
       DEF Work, GroupWorkerStep, WorkerStep
<1>6. CASE Main \/ Ended \/ UNCHANGED vars
  <2>1. UNCHANGED workerVars /\ pending' = pending
    BY <1>6, MainLeavesWorkers
  <2> QED
    BY <1>2, <2>1 DEF workerVars, counterVars, InStages
<1> QED
  BY <1>3, <1>4, <1>5, <1>6 DEF Next

-----------------------------------------------------------------------------
\* The table of threads grows by one at most, and not beyond its array.
LEMMA RecordThread ==
  ASSUME Table, NEW t, record_thread(t)
  PROVE  Table' /\ threads' \subseteq threads \cup {t}
<1>1. MaxThreads \in Nat
  BY WorkersAssumption
<1>2. IsFiniteSet(threads) /\ Cardinality(threads) \in Nat
  BY FS_CardinalityType DEF Table
<1>3. CASE Cardinality(threads) < MaxThreads
  <2>1. threads' = threads \cup {t}
    BY <1>3 DEF record_thread
  <2>2. /\ IsFiniteSet(threads \cup {t})
        /\ Cardinality(threads \cup {t}) <= Cardinality(threads) + 1
    BY <1>2, FS_AddElement DEF Table
  <2>3. Cardinality(threads \cup {t}) \in Nat
    BY <2>2, FS_CardinalityType
  <2>4. Cardinality(threads \cup {t}) <= MaxThreads
    BY <1>1, <1>2, <1>3, <2>2, <2>3
  <2> QED
    BY <2>1, <2>2, <2>4 DEF Table
<1>4. CASE ~(Cardinality(threads) < MaxThreads)
  BY <1>4 DEF record_thread, Table
<1> QED
  BY <1>3, <1>4

LEMMA TableStep ==
  ASSUME Table, [Next]_vars
  PROVE  Table'
<1>1. ASSUME NEW w \in Worker, Record(w, "flying")
      PROVE  Table'
  <2>1. record_thread(thread[w])
    BY <1>1 DEF Record, record_common
  <2> QED
    BY <2>1, RecordThread
<1>2. ASSUME NEW w \in Worker, Work(w), ~Record(w, "flying")
      PROVE  Table'
  BY <1>2 DEF Work, GroupWorkerStep, WorkerStep, Begin, EnterFlight, LoadMax,
              SwapMax, LeaveFlight, Complete, tableVars, Table
<1>3. ASSUME NEW w \in Worker, Submit(w) \/ Leave(w)
      PROVE  Table'
  BY <1>3 DEF Submit, Leave, tableVars, Table
<1>4. CASE Main \/ Ended \/ UNCHANGED vars
  BY <1>4, MainLeavesWorkers DEF workerVars, tableVars, Table
<1> QED
  BY <1>1, <1>2, <1>3, <1>4 DEF Next

-----------------------------------------------------------------------------
(* The type of the state. The bounds on the counters come from what they    *)
(* count.                                                                   *)

CountsBounded == {started, inflight, completed, pending} \subseteq 0..requested

LEMMA CountsBounds == Counts => CountsBounded
<1>1. ASSUME NEW S
      PROVE  Cardinality(InStages(S)) \in 0..requested
  BY CountType DEF InStages
<1> QED
  BY <1>1 DEF Counts, CountersAgree, CountsBounded

LEMMA TypeStep ==
  ASSUME IInv, [Next]_vars
  PROVE  TypeOK'
<1>1. Counts' /\ at' \in [Worker -> Stage]
  BY CountsStep DEF IInv
<1>0. CountsBounded'
  BY <1>1, CountsBounds, PTL
<1>2. {started', inflight', completed', pending'} \subseteq 0..requested
  BY <1>0 DEF CountsBounded
<1>3. requested \in Nat /\ MaxThreads \in Nat
  BY WorkersAssumption, FS_CardinalityType DEF requested
<1>4. TypeOK /\ WorkersTypeOK
  BY DEF IInv, TypeOK
<1>5. Cardinality(threads) \in 0..MaxThreads
  BY <1>3, FS_CardinalityType DEF IInv, Table
<1>6. ASSUME NEW w \in Worker, Work(w)
      PROVE  TypeOK'
  <2>1. /\ thread' \in [Worker -> Thread \cup {MainThread}]
        /\ main_thread_callbacks' \in Nat
        /\ threads' \subseteq Thread \cup {MainThread}
    BY <1>4, <1>6
       DEF Work, GroupWorkerStep, WorkerStep, WorkersTypeOK, Begin, EnterFlight,
           LoadMax, SwapMax, Record, LeaveFlight, Complete, record_common,
           record_thread, callbackVars, counterVars, tableVars, FreeThreads
  <2>2. seen' \in [Worker -> 0..requested]
    BY <1>2, <1>4, <1>6
       DEF Work, GroupWorkerStep, WorkerStep, WorkersTypeOK, Begin, EnterFlight,
           LoadMax, SwapMax, Record, LeaveFlight, Complete, callbackVars
  <2>3. current' \in [Worker -> 0..requested]
    BY <1>4, <1>6
       DEF Work, GroupWorkerStep, WorkerStep, WorkersTypeOK, Begin, EnterFlight,
           LoadMax, SwapMax, Record, LeaveFlight, Complete, callbackVars
  <2>4. max_inflight' \in 0..requested
    BY <1>4, <1>6
       DEF Work, GroupWorkerStep, WorkerStep, WorkersTypeOK, Begin, EnterFlight,
           LoadMax, SwapMax, Record, LeaveFlight, Complete, counterVars
  <2>5. UNCHANGED waiterVars
    BY <1>6 DEF Work
  <2> QED
    BY <1>1, <1>2, <1>4, <2>1, <2>2, <2>3, <2>4, <2>5
       DEF TypeOK, WorkersTypeOK, waiterVars
<1>7. ASSUME NEW w \in Worker, Submit(w) \/ Leave(w)
      PROVE  TypeOK'
  BY <1>1, <1>2, <1>4, <1>7
     DEF TypeOK, WorkersTypeOK, Submit, Leave, callbackVars, counterVars,
         tableVars
<1>8. CASE Main \/ Ended \/ UNCHANGED vars
  <2>1. UNCHANGED <<workerVars, pending>>
    BY <1>8, MainLeavesWorkers
  <2>2. CASE Main
    <3>1. ASSUME NEW counter \in Counter, ReadCounter(counter)
          PROVE  TypeOK'
      <4>1. /\ value("started") = started
            /\ value("completed") = completed
            /\ value("max_inflight") = max_inflight
            /\ value("main_thread_callbacks") = main_thread_callbacks
            /\ value("unique_threads") = Cardinality(threads)
        BY DEF value
      <4>2. /\ after("started") = "completed"
            /\ after("completed") = "max_inflight"
            /\ after("max_inflight") = "main_thread_callbacks"
            /\ after("main_thread_callbacks") = "unique_threads"
            /\ after("unique_threads") = "emit"
        BY DEF after
      <4>3. record' = [record EXCEPT ![counter] = value(counter)]
            /\ main' = after(counter) /\ UNCHANGED <<group, status>>
        BY <3>1 DEF ReadCounter
      <4>4. {started, completed, max_inflight} \subseteq 0..requested
        BY <1>4 DEF WorkersTypeOK
      <4>5. CASE counter = "started"
        BY <1>4, <2>1, <4>1, <4>2, <4>3, <4>4, <4>5
           DEF TypeOK, WorkersTypeOK, workerVars, callbackVars, counterVars,
               tableVars, Counter, RecordType
      <4>6. CASE counter = "completed"
        BY <1>4, <2>1, <4>1, <4>2, <4>3, <4>4, <4>6
           DEF TypeOK, WorkersTypeOK, workerVars, callbackVars, counterVars,
               tableVars, Counter, RecordType
      <4>7. CASE counter = "max_inflight"
        BY <1>4, <2>1, <4>1, <4>2, <4>3, <4>4, <4>7
           DEF TypeOK, WorkersTypeOK, workerVars, callbackVars, counterVars,
               tableVars, Counter, RecordType
      <4>9. CASE counter = "main_thread_callbacks"
        BY <1>4, <2>1, <4>1, <4>2, <4>3, <4>9
           DEF TypeOK, WorkersTypeOK, workerVars, callbackVars, counterVars,
               tableVars, Counter, RecordType
      <4>8. CASE counter = "unique_threads"
        BY <1>4, <1>5, <2>1, <4>1, <4>2, <4>3, <4>8
           DEF TypeOK, WorkersTypeOK, workerVars, callbackVars, counterVars,
               tableVars, Counter, RecordType
      <4> QED
        BY <4>5, <4>6, <4>7, <4>8, <4>9 DEF Counter
    <3>2. ASSUME NEW timed_out \in BOOLEAN, WaitEnds(timed_out)
          PROVE  TypeOK'
      BY <1>4, <2>1, <3>2
         DEF TypeOK, WorkersTypeOK, workerVars, callbackVars, counterVars,
             tableVars, WaitEnds, Counter, RecordType
    <3>3. CASE StartWait \/ Emit \/ ClearGroup \/ Exit
      BY <1>4, <2>1, <3>3
         DEF TypeOK, WorkersTypeOK, workerVars, callbackVars, counterVars,
             tableVars, StartWait, Emit, ClearGroup, Exit, verdict, Counter,
             RecordType
    <3> QED
      BY <2>2, <3>1, <3>2, <3>3 DEF Main
  <2>3. CASE Ended \/ UNCHANGED vars
    BY <1>4, <2>3
       DEF TypeOK, WorkersTypeOK, Ended, vars, waiterVars, workerVars,
           callbackVars, counterVars, tableVars
  <2> QED
    BY <1>8, <2>2, <2>3
<1> QED
  BY <1>6, <1>7, <1>8 DEF Next

-----------------------------------------------------------------------------
\* Whatever way the loops of update_max interleave, none loses a maximum: the
\* maximum never falls, and a callback leaves its loop only below it.
LEMMA PeakStep ==
  ASSUME TypeOK, Peak, [Next]_vars
  PROVE  Peak'
<1>1. /\ at \in [Worker -> Stage]
      /\ seen \in [Worker -> Nat]
      /\ current \in [Worker -> Nat]
      /\ inflight \in Nat /\ max_inflight \in Nat
  BY WorkersAssumption, FS_CardinalityType DEF TypeOK, WorkersTypeOK, requested
<1>2. ASSUME NEW w \in Worker, Work(w)
      PROVE  Peak'
  <2>1. ASSUME NEW t \in FreeThreads, Begin(w, t)
        PROVE  Peak'
    BY <1>1, <2>1 DEF Begin, Goto, Peak
  <2>2. CASE EnterFlight(w)
    <3>1. /\ at[w] = "enter" /\ at' = [at EXCEPT ![w] = "load"]
          /\ seen' = [seen EXCEPT ![w] = inflight + 1]
          /\ UNCHANGED <<current, max_inflight>>
      BY <2>2 DEF EnterFlight, Goto
    <3>2. seen[w] = 0
      BY <3>1 DEF Peak
    <3>3. ASSUME max_inflight # 0
          PROVE  \E v \in Worker : seen'[v] = max_inflight'
      <4>1. PICK v \in Worker : seen[v] = max_inflight
        BY <3>3 DEF Peak
      <4>2. v # w
        BY <3>2, <3>3, <4>1
      <4>3. seen'[v] = max_inflight'
        BY <1>1, <3>1, <4>1, <4>2
      <4> QED
        BY <4>3
    <3>4. \A v \in Worker :
            /\ seen'[v] = 0 <=> at'[v] \in {"unsubmitted", "queued", "enter"}
            /\ current'[v] <= max_inflight'
            /\ at'[v] \in {"record", "flying", "finish", "leave", "done"} =>
                 seen'[v] <= max_inflight'
      BY <1>1, <3>1 DEF Peak
    <3> QED
      BY <3>1, <3>3, <3>4 DEF Peak
  <2>3. CASE LoadMax(w)
    BY <1>1, <2>3 DEF LoadMax, Goto, counterVars, Peak
  <2>4. CASE SwapMax(w)
    <3>1. at[w] = "swap" /\ UNCHANGED seen
      BY <2>4 DEF SwapMax
    <3>2. CASE seen[w] > current[w] /\ max_inflight # current[w]
      BY <1>1, <2>4, <3>1, <3>2 DEF SwapMax, Peak
    <3>3. CASE seen[w] > current[w] /\ max_inflight = current[w]
      <4>1. /\ at' = [at EXCEPT ![w] = "record"]
            /\ max_inflight' = seen[w] /\ UNCHANGED current
        BY <2>4, <3>3 DEF SwapMax, Goto
      <4> QED
        BY <1>1, <3>1, <3>3, <4>1 DEF Peak
    <3>4. CASE ~(seen[w] > current[w])
      <4>1. /\ at' = [at EXCEPT ![w] = "record"]
            /\ UNCHANGED <<max_inflight, current>>
        BY <2>4, <3>4 DEF SwapMax, Goto
      <4>2. seen[w] <= max_inflight
        BY <1>1, <3>4 DEF Peak
      <4> QED
        BY <1>1, <3>1, <4>1, <4>2 DEF Peak
    <3> QED
      BY <3>2, <3>3, <3>4
  <2>5. CASE Record(w, "flying")
    BY <1>1, <2>5 DEF Record, Goto, callbackVars, counterVars, Peak
  <2>6. CASE LeaveFlight(w)
    BY <1>1, <2>6 DEF LeaveFlight, Goto, callbackVars, Peak
  <2>7. CASE Complete(w, "leave")
    BY <1>1, <2>7 DEF Complete, Goto, callbackVars, Peak
  <2> QED
    BY <1>2, <2>1, <2>2, <2>3, <2>4, <2>5, <2>6, <2>7
       DEF Work, GroupWorkerStep, WorkerStep
<1>3. ASSUME NEW w \in Worker, Submit(w) \/ Leave(w)
      PROVE  Peak'
  BY <1>1, <1>3 DEF Submit, Leave, Goto, callbackVars, counterVars, Peak
<1>4. CASE Main \/ Ended \/ UNCHANGED vars
  BY <1>4, MainLeavesWorkers DEF workerVars, callbackVars, counterVars, Peak
<1> QED
  BY <1>2, <1>3, <1>4 DEF Next

-----------------------------------------------------------------------------
\* A wait that returns without timing out has all the callbacks behind it.
LEMMA EmptyGroup ==
  ASSUME TypeOK, Counts, pending = 0,
         \A w \in Worker : at[w] # "unsubmitted"
  PROVE  \A w \in Worker : at[w] = "done"
<1>1. IsFiniteSet(InStages(Pending)) /\ Cardinality(InStages(Pending)) = 0
  BY CountType DEF InStages, Counts
<1>2. InStages(Pending) = {}
  BY <1>1, FS_EmptySet
<1> QED
  BY <1>2 DEF InStages, Pending, TypeOK, WorkersTypeOK

\* ... and none of them moves any more.
LEMMA DoneStays ==
  ASSUME NEW w \in Worker, Work(w) \/ Leave(w) \/ Submit(w)
  PROVE  at[w] # "done"
BY DEF Work, GroupWorkerStep, WorkerStep, Begin, EnterFlight, LoadMax, SwapMax,
       Record, LeaveFlight, Complete, Leave, Submit

LEMMA WorkerKeepsWaiter ==
  ASSUME TypeOK, Counts, Waiter, NEW w \in Worker, Work(w) \/ Leave(w)
  PROVE  Waiter'
<1>1. at[w] # "done"
  BY DoneStays
<1>2. main \notin {"submit", "wait"} => record.timed_out
  BY <1>1 DEF Waiter
<1>3. UNCHANGED <<main, record, group>>
  BY DEF Work, Leave, waiterVars
<1>4. ASSUME \A v \in Worker : at[v] # "unsubmitted"
      PROVE  \A v \in Worker : at'[v] # "unsubmitted"
  BY <1>4 DEF Work, GroupWorkerStep, WorkerStep, Begin, EnterFlight, LoadMax,
       SwapMax, Record, LeaveFlight, Complete, Leave, Goto, TypeOK,
       WorkersTypeOK
<1>5. LateLeaveWasReported'
  <2>1. CASE UNCHANGED status
    BY <1>3, <2>1 DEF Waiter, LateLeaveWasReported
  <2>2. CASE LeavesThroughState /\ ~group
    <3>1. main = "cleared"
      BY <2>2 DEF Waiter
    <3>2. record.verdict = "error" /\ record.timed_out
      BY <1>2, <3>1 DEF Waiter, TypeOK, RecordType
    <3> QED
      BY <1>3, <3>2 DEF LateLeaveWasReported
  <2> QED
    BY <2>1, <2>2 DEF Work, Leave, waiterVars
<1> QED
  BY <1>2, <1>3, <1>4, <1>5 DEF Waiter

LEMMA WaiterStep ==
  ASSUME TypeOK, Counts, Waiter, [Next]_vars
  PROVE  Waiter'
<1>1. ASSUME NEW w \in Worker, Work(w) \/ Leave(w)
      PROVE  Waiter'
  BY <1>1, WorkerKeepsWaiter
<1>2. ASSUME NEW w \in Worker, Submit(w)
      PROVE  Waiter'
  BY <1>2 DEF Submit, Waiter, LateLeaveWasReported
<1>3. CASE Main
  <2>1. UNCHANGED workerVars
    BY <1>3, MainLeavesWorkers
  <2>2. CASE StartWait
    BY <2>1, <2>2 DEF StartWait, Waiter, LateLeaveWasReported, workerVars
  <2>3. ASSUME NEW timed_out \in BOOLEAN, WaitEnds(timed_out)
        PROVE  Waiter'
    <3>1. ~timed_out => \A w \in Worker : at[w] = "done"
      BY <2>3, EmptyGroup DEF WaitEnds, Waiter
    <3>2. /\ record' = [record EXCEPT !.timed_out = timed_out]
          /\ main = "wait" /\ main' = "started" /\ status = "running"
          /\ UNCHANGED <<group, status>>
      BY <2>3 DEF WaitEnds, running
    <3> QED
      BY <2>1, <3>1, <3>2
         DEF Waiter, LateLeaveWasReported, workerVars, TypeOK, RecordType
  <2>4. ASSUME NEW counter \in Counter, ReadCounter(counter)
        PROVE  Waiter'
    <3>1. /\ record' = [record EXCEPT ![counter] = value(counter)]
          /\ main = counter /\ main' = after(counter) /\ status = "running"
          /\ UNCHANGED <<group, status>>
      BY <2>4 DEF ReadCounter, running
    <3>2. CASE counter = "started"
      <4>1. value(counter) = started /\ after(counter) = "completed"
        BY <3>2 DEF value, after
      <4> QED
        BY <2>1, <3>1, <3>2, <4>1
           DEF Waiter, LateLeaveWasReported, workerVars, counterVars, TypeOK,
               RecordType
    <3>3. CASE counter = "completed"
      <4>1. value(counter) = completed /\ after(counter) = "max_inflight"
        BY <3>3 DEF value, after
      <4> QED
        BY <2>1, <3>1, <3>3, <4>1
           DEF Waiter, LateLeaveWasReported, workerVars, counterVars, TypeOK,
               RecordType
    <3>4. CASE counter = "max_inflight"
      <4>1. /\ value(counter) = max_inflight
            /\ after(counter) = "main_thread_callbacks"
        BY <3>4 DEF value, after
      <4> QED
        BY <2>1, <3>1, <3>4, <4>1
           DEF Waiter, LateLeaveWasReported, workerVars, counterVars, TypeOK,
               RecordType
    <3>6. CASE counter = "main_thread_callbacks"
      <4>1. after(counter) = "unique_threads"
        BY <3>6 DEF after
      <4> QED
        BY <2>1, <3>1, <3>6, <4>1
           DEF Waiter, LateLeaveWasReported, workerVars, counterVars, TypeOK,
               RecordType
    <3>5. CASE counter = "unique_threads"
      <4>1. after(counter) = "emit"
        BY <3>5 DEF after
      <4> QED
        BY <2>1, <3>1, <3>5, <4>1
           DEF Waiter, LateLeaveWasReported, workerVars, counterVars, TypeOK,
               RecordType
    <3> QED
      BY <3>2, <3>3, <3>4, <3>5, <3>6 DEF Counter
  <2>5. CASE Emit
    <3>1. /\ record' = [record EXCEPT !.verdict = verdict]
          /\ main = "emit" /\ main' = "emitted" /\ status = "running"
          /\ UNCHANGED <<group, status>>
      BY <2>5 DEF Emit, running
    <3>2. ~record.timed_out => record.completed = requested
      <4>1. ASSUME ~record.timed_out
            PROVE  record.completed = requested
        <5>1. record.completed = completed /\ \A w \in Worker : at[w] = "done"
          BY <3>1, <4>1 DEF Waiter
        <5>2. InStages(Completed) = Worker
          BY <5>1 DEF InStages, Completed
        <5> QED
          BY <5>1, <5>2 DEF Counts, CountersAgree, requested
      <4> QED
        BY <4>1
    <3>3. /\ verdict \in {"ok", "error"}
          /\ verdict = "ok" => ~record.timed_out
          /\ verdict = "error" => record.timed_out
      BY <3>2 DEF verdict
    <3> QED
      BY <2>1, <3>1, <3>3
         DEF Waiter, LateLeaveWasReported, workerVars, counterVars, TypeOK,
               RecordType
  <2>6. CASE ClearGroup \/ Exit
    BY <2>1, <2>6
       DEF ClearGroup, Exit, running, Waiter, LateLeaveWasReported, workerVars,
           counterVars
  <2> QED
    BY <1>3, <2>2, <2>3, <2>4, <2>5, <2>6 DEF Main
<1>4. CASE Ended \/ UNCHANGED vars
  BY <1>4
     DEF Ended, vars, waiterVars, workerVars, counterVars, Waiter,
         LateLeaveWasReported
<1> QED
  BY <1>1, <1>2, <1>3, <1>4 DEF Next

-----------------------------------------------------------------------------
\* IInv is inductive.
LEMMA InvariantInit == Init => IInv
<1> SUFFICES ASSUME Init PROVE IInv
  OBVIOUS
<1>1. requested \in Nat /\ MaxThreads \in Nat
  BY WorkersAssumption, FS_CardinalityType DEF requested
<1>2. IsFiniteSet({}) /\ Cardinality({}) = 0
  BY FS_EmptySet
<1>3. TypeOK
  BY <1>1, ModeAssumption
     DEF Init, WorkersInit, TypeOK, WorkersTypeOK, NoRecord, RecordType, Stage
<1>4. /\ InStages(Begun) = {} /\ InStages(InFlight) = {}
      /\ InStages(Completed) = {} /\ InStages(Pending) = {}
  BY DEF Init, WorkersInit, InStages, Begun, InFlight, Completed, Pending, Stage
<1>5. Counts
  BY <1>2, <1>4 DEF Init, WorkersInit, Counts, CountersAgree
<1>6. Peak
  BY DEF Init, WorkersInit, Peak
<1>7. Table
  BY <1>1, <1>2 DEF Init, WorkersInit, Table
<1>8. Waiter
  BY DEF Init, WorkersInit, NoRecord, Waiter, LateLeaveWasReported
<1> QED
  BY <1>3, <1>5, <1>6, <1>7, <1>8 DEF IInv

LEMMA InvariantStep == IInv /\ [Next]_vars => IInv'
<1> SUFFICES ASSUME IInv, [Next]_vars PROVE IInv'
  OBVIOUS
<1>1. TypeOK'
  BY TypeStep
<1>2. Counts'
  BY CountsStep DEF IInv
<1>3. Peak'
  BY PeakStep DEF IInv
<1>4. Table'
  BY TableStep DEF IInv
<1>5. Waiter'
  BY WaiterStep DEF IInv
<1> QED
  BY <1>1, <1>2, <1>3, <1>4, <1>5 DEF IInv

\* What IInv says of a record once it is emitted.
LEMMA InvariantImplies ==
  IInv => /\ WaitedRecordIsExact
          /\ OkRecordHasPeak
          /\ LateLeaveWasReported
<1> SUFFICES ASSUME IInv
             PROVE  /\ WaitedRecordIsExact
                    /\ OkRecordHasPeak
                    /\ LateLeaveWasReported
  OBVIOUS
<1>1. LateLeaveWasReported
  BY DEF IInv, Waiter
<1>2. ASSUME record.verdict # "none", ~record.timed_out
      PROVE  /\ \A w \in Worker : at[w] = "done"
             /\ record.verdict = "ok"
             /\ record.started = started
             /\ record.completed = completed
             /\ record.max_inflight = max_inflight
  BY <1>2 DEF IInv, Waiter, TypeOK, RecordType
<1>3. WaitedRecordIsExact
  <2> SUFFICES ASSUME emitted, ~record.timed_out
               PROVE  /\ record.started = requested
                      /\ record.completed = requested
                      /\ inflight = 0
    BY <1>2 DEF WaitedRecordIsExact, emitted
  <2>1. \A w \in Worker : at[w] = "done"
    BY <1>2 DEF emitted
  <2>2. /\ InStages(Begun) = Worker /\ InStages(Completed) = Worker
        /\ InStages(InFlight) = {}
    BY <2>1 DEF InStages, Begun, Completed, InFlight, Stage
  <2>3. started = requested /\ completed = requested /\ inflight = 0
    BY <2>2, FS_EmptySet DEF IInv, Counts, CountersAgree, requested
  <2> QED
    BY <1>2, <2>3 DEF emitted
<1>4. OkRecordHasPeak
  <2> SUFFICES ASSUME record.verdict = "ok"
               PROVE  /\ \A w \in Worker : seen[w] <= record.max_inflight
                      /\ \E w \in Worker : seen[w] = record.max_inflight
    BY DEF OkRecordHasPeak
  <2>1. ~record.timed_out
    BY DEF IInv, Waiter
  <2>2. /\ \A w \in Worker : at[w] = "done"
        /\ record.max_inflight = max_inflight
    BY <1>2, <2>1
  <2>3. \A w \in Worker : seen[w] <= max_inflight /\ seen[w] # 0
    BY <2>2 DEF IInv, Peak
  <2>4. max_inflight # 0
    <3>1. PICK w \in Worker : TRUE
      BY WorkersAssumption
    <3>2. seen[w] \in Nat /\ seen[w] <= max_inflight /\ seen[w] # 0
      BY <2>3 DEF IInv, TypeOK, WorkersTypeOK
    <3> QED
      BY <3>2
  <2> QED
    BY <2>2, <2>3, <2>4 DEF IInv, Peak
<1> QED
  BY <1>1, <1>3, <1>4

\* Type correctness: every counter stays within the number of callbacks.
THEOREM TypeCorrect == Spec => []TypeOK
<1>1. IInv => TypeOK
  BY DEF IInv
<1> QED
  BY <1>1, InvariantInit, InvariantStep, PTL DEF Spec

\* started, inflight and completed are exact counts at every moment.
THEOREM CountersCorrect == Spec => []CountersAgree
<1>1. IInv => CountersAgree
  BY DEF IInv, Counts
<1> QED
  BY <1>1, InvariantInit, InvariantStep, PTL DEF Spec

\* The record of a wait that did not time out is exact, and so is the peak an
\* "ok" record reports; and a worker that leaves through a cleared group does
\* so after a record that told of the time-out.
THEOREM RecordsCorrect ==
  Spec => [](WaitedRecordIsExact /\ OkRecordHasPeak /\ LateLeaveWasReported)
<1> QED
  BY InvariantImplies, InvariantInit, InvariantStep, PTL DEF Spec

\* The record of a wait that ended before its deadline tells of every callback,
\* and nothing runs behind it.
THEOREM WaitedRecordsCorrect == Spec => []WaitedRecordIsExact
BY RecordsCorrect, PTL

\* A worker leaves through a group that was cleared only after a record that
\* told of the time-out.
THEOREM LateLeavesCorrect == Spec => []LateLeaveWasReported
BY RecordsCorrect, PTL

-----------------------------------------------------------------------------
(* The wait as it is nested in worker-after-group, or not.                  *)

\* The main thread reports only after its own deadline, and the root worker
\* has stored its verdict before it signals.
NestedInv ==
  /\ ~nested => outer = "wait" /\ root = "runs"
  /\ outer_verdict = "none" <=> outer \in {"wait", "late"}
  /\ root = "returned" => rc = failed
  /\ ExitCodeTellsRecords

\* The start of the root worker records a thread, and the main thread and the
\* crash of the root worker change only the status.
LEMMA NestedIInv ==
  ASSUME IInv, [NestedNext]_nestedVars
  PROVE  IInv'
<1>1. CASE SubmitAndWait \/ ExitWithVerdict \/ (\E w \in Worker : WorkOrLeave(w))
  <2>1. Next
    BY <1>1 DEF SubmitAndWait, ExitWithVerdict, WorkOrLeave, Next, Main
  <2> QED
    BY <2>1, InvariantStep
<1>2. ASSUME NEW t \in FreeThreads, RootStarts(t)
      PROVE  IInv'
  <2>1. /\ UNCHANGED <<at, callbackVars, counterVars, waiterVars>>
        /\ record_common(t)
    BY <1>2 DEF RootStarts
  <2>2. Table'
    BY <2>1, RecordThread DEF IInv, record_common
  <2>3. /\ main_thread_callbacks' \in Nat
        /\ threads' \subseteq Thread \cup {MainThread}
    BY <2>1 DEF IInv, TypeOK, WorkersTypeOK, record_common, record_thread,
         FreeThreads
  <2>4. TypeOK'
    <3>1. {started', inflight', max_inflight', completed'} \subseteq 0..requested
      BY <2>1 DEF IInv, TypeOK, WorkersTypeOK, counterVars
    <3>2. WorkersTypeOK'
      BY <2>1, <2>3, <3>1
         DEF IInv, TypeOK, WorkersTypeOK, callbackVars, requested
    <3> QED
      BY <2>1, <3>2 DEF IInv, TypeOK, waiterVars, RecordType, requested
  <2>5. Counts' /\ Peak'
    BY <2>1 DEF IInv, Counts, CountersAgree, Peak, InStages, callbackVars,
         counterVars, waiterVars
  <2>6. Waiter'
    BY <2>1 DEF IInv, Waiter, LateLeaveWasReported, counterVars, waiterVars
  <2> QED
    BY <2>2, <2>4, <2>5, <2>6 DEF IInv
<1>3. CASE RootSignals \/ RootCrashes \/ OuterReturns \/ OuterTimesOut
             \/ OuterReports \/ OuterGivesUp \/ NestedEnded
             \/ UNCHANGED nestedVars
  <2>1. /\ UNCHANGED <<workerVars, pending, group, main, record>>
        /\ UNCHANGED status \/ status' \in {"exited", "crashed_late"}
    BY <1>3 DEF RootSignals, RootCrashes, OuterReturns, OuterTimesOut,
         OuterReports, OuterGivesUp, NestedEnded, nestedVars, vars, waiterVars
  <2>2. TypeOK'
    <3>1. WorkersTypeOK'
      BY <2>1 DEF IInv, TypeOK, WorkersTypeOK, workerVars, callbackVars,
           counterVars, tableVars, requested
    <3> QED
      BY <2>1, <3>1 DEF IInv, TypeOK, RecordType, requested
  <2>3. Counts' /\ Peak' /\ Table'
    BY <2>1 DEF IInv, Counts, CountersAgree, Peak, Table, InStages, workerVars,
         callbackVars, counterVars, tableVars
  <2>4. Waiter'
    BY <2>1 DEF IInv, Waiter, LateLeaveWasReported, workerVars, counterVars
  <2> QED
    BY <2>2, <2>3, <2>4 DEF IInv
<1> QED
  BY <1>1, <1>2, <1>3 DEF NestedNext, Outer

\* The record is not touched once the root worker has returned or the process
\* has ended.
LEMMA NestedInvStep ==
  ASSUME NestedInv, [NestedNext]_nestedVars
  PROVE  NestedInv'
<1>1. CASE SubmitAndWait \/ (\E w \in Worker : WorkOrLeave(w))
  <2>1. /\ running /\ UNCHANGED <<nested, root, outerVars>>
        /\ UNCHANGED record \/ root = "runs"
        /\ status' \in {"running", "crashed"}
    BY <1>1 DEF SubmitAndWait, WorkOrLeave, Submit, Main, StartWait, WaitEnds,
         ReadCounter, Emit, ClearGroup, Exit, Work, Leave, running, waiterVars
  <2> QED
    BY <2>1 DEF NestedInv, ExitCodeTellsRecords, outerVars, failed
<1>2. CASE ExitWithVerdict
  BY <1>2 DEF ExitWithVerdict, Exit, NestedInv, ExitCodeTellsRecords, failed
<1>3. ASSUME NEW t \in FreeThreads, RootStarts(t)
      PROVE  NestedInv'
  BY <1>3 DEF RootStarts, NestedInv, ExitCodeTellsRecords, outerVars, waiterVars,
       failed, running
<1>4. CASE RootSignals \/ RootCrashes \/ OuterTimesOut \/ OuterReports
  BY <1>4 DEF RootSignals, RootCrashes, OuterTimesOut, OuterReports, NestedInv,
       ExitCodeTellsRecords, outerVars, vars, waiterVars, failed, running
<1>5. CASE OuterReturns \/ OuterGivesUp
  BY <1>5 DEF OuterReturns, OuterGivesUp, NestedInv, ExitCodeTellsRecords, failed
<1>6. CASE NestedEnded \/ UNCHANGED nestedVars
  BY <1>6 DEF NestedEnded, nestedVars, NestedInv, ExitCodeTellsRecords, outerVars,
       vars, waiterVars, failed
<1> QED
  BY <1>1, <1>2, <1>3, <1>4, <1>5, <1>6 DEF NestedNext, Outer

LEMMA NestedInvariant == NestedSpec => [](IInv /\ NestedInv)
<1>1. NestedInit => IInv
  BY InvariantInit DEF NestedInit
<1>2. NestedInit => NestedInv
  BY DEF NestedInit, Init, NestedInv, ExitCodeTellsRecords
<1>3. IInv /\ NestedInv /\ [NestedNext]_nestedVars => (IInv /\ NestedInv)'
  BY NestedIInv, NestedInvStep
<1> QED
  BY <1>1, <1>2, <1>3, PTL DEF NestedSpec

\* What GroupWait says of the record holds whichever thread waits, and whatever
\* becomes of a main thread that waits for the waiter.
THEOREM NestedRecordsCorrect ==
  NestedSpec =>
    [](WaitedRecordIsExact /\ OkRecordHasPeak /\ LateLeaveWasReported)
BY NestedInvariant, InvariantImplies, PTL

\* No interleaving of the two deadlines makes the probe exit with 0 after it
\* printed an "error", nor with 1 after a single "ok".
THEOREM ExitCodeCorrect == NestedSpec => []ExitCodeTellsRecords
<1>1. NestedInv => ExitCodeTellsRecords
  BY DEF NestedInv
<1> QED
  BY <1>1, NestedInvariant, PTL

-----------------------------------------------------------------------------
(* The peak and the table of threads.                                       *)

Apart(S) == \A u, v \in S : u # v => thread[u] # thread[v]

\* The callbacks that have been in the table's critical section.
Recorded == {"flying", "finish", "leave", "done"}

RecordedThreads == {thread[w] : w \in InStages(Recorded)}

\* Callbacks that are on a thread together are on different ones.
OwnThread ==
  /\ \A w \in Worker : at[w] # "posted"
  /\ Apart(InStages(OnThread))

\* What a callback saw in flight was a crowd of callbacks on as many threads,
\* and they are all still callbacks that have begun.
Crowd ==
  \A w \in Worker : seen[w] # 0 =>
    \E S \in SUBSET InStages(Begun) : Cardinality(S) = seen[w] /\ Apart(S)

\* The table holds the threads of the recorded callbacks as long as it has
\* room, and of other threads only the root worker's.
Tabled ==
  /\ RecordedThreads \subseteq threads \/ Cardinality(threads) = MaxThreads
  /\ ~nested \/ root = "enqueued" => threads \subseteq RecordedThreads
  /\ \E r \in Thread \cup {MainThread} : threads \subseteq RecordedThreads \cup {r}

\* The root worker starts before the submission it runs, and a record without
\* a time-out counts a table nothing changes any more.
Counted ==
  /\ root = "enqueued" => nested /\ main = "submit"
  /\ main \in {"emit", "emitted", "cleared"} /\ ~record.timed_out =>
       record.unique_threads = Cardinality(threads)

ThreadInv == OwnThread /\ Crowd /\ Tabled /\ Counted

\* A callback that goes on within its thread changes none of this, unless it
\* has just entered the flight.
LEMMA MoveOn ==
  ASSUME TypeOK, OwnThread, Tabled, NEW w \in Worker, NEW s \in Stage,
         Goto(w, s), UNCHANGED <<thread, threads, nested, root>>,
         s # "posted",
         s \in OnThread => at[w] \in OnThread,
         at[w] \in Begun => s \in Begun,
         at[w] \in Recorded <=> s \in Recorded
  PROVE  /\ OwnThread' /\ Tabled'
         /\ InStages(Begun) \subseteq InStages(Begun)'
         /\ UNCHANGED seen /\ Crowd => Crowd'
<1>1. /\ at \in [Worker -> Stage]
      /\ at' = [at EXCEPT ![w] = s]
  BY DEF Goto, TypeOK, WorkersTypeOK
<1>2. /\ InStages(OnThread)' \subseteq InStages(OnThread)
      /\ InStages(Begun) \subseteq InStages(Begun)'
      /\ InStages(Recorded)' = InStages(Recorded)
  BY <1>1 DEF InStages
<1>3. OwnThread'
  BY <1>1, <1>2 DEF OwnThread, Apart
<1>4. RecordedThreads' = RecordedThreads
  BY <1>2 DEF RecordedThreads
<1>5. Tabled'
  BY <1>4 DEF Tabled
<1>6. ASSUME UNCHANGED seen, Crowd
      PROVE  Crowd'
  BY <1>2, <1>6 DEF Crowd, Apart
<1> QED
  BY <1>2, <1>3, <1>5, <1>6

\* The thread a callback begins on is none that a callback is on.
LEMMA BeginApart ==
  ASSUME TypeOK, OwnThread, Crowd, Tabled, UNCHANGED <<nested, root>>,
         NEW w \in Worker, NEW t \in FreeThreads, Begin(w, t)
  PROVE  OwnThread' /\ Crowd' /\ Tabled'
<1>1. /\ at \in [Worker -> Stage] /\ thread \in [Worker -> Thread \cup {MainThread}]
      /\ at[w] = "queued"
      /\ at' = [at EXCEPT ![w] = "enter"]
      /\ thread' = [thread EXCEPT ![w] = t]
      /\ UNCHANGED <<seen, threads>>
  BY DEF Begin, Goto, TypeOK, WorkersTypeOK, tableVars
<1>2. \A v \in Worker : v # w => thread'[v] = thread[v] /\ at'[v] = at[v]
  BY <1>1
<1>3. thread'[w] = t /\ at'[w] = "enter"
  BY <1>1
<1>4. \A v \in InStages(OnThread) : thread[v] # t
  BY DEF FreeThreads
<1>5. OwnThread'
  BY <1>2, <1>3, <1>4 DEF OwnThread, Apart, InStages
<1>6. /\ w \notin InStages(Begun)
      /\ InStages(Begun) \subseteq InStages(Begun)'
      /\ InStages(Recorded)' = InStages(Recorded)
      /\ w \notin InStages(Recorded)
  BY <1>1, <1>2, <1>3 DEF InStages, Begun, Recorded, Stage
<1>7. Crowd'
  <2> SUFFICES ASSUME NEW v \in Worker, seen[v] # 0
               PROVE  \E S \in SUBSET InStages(Begun)' :
                        Cardinality(S) = seen[v] /\ Apart(S)'
    BY <1>1 DEF Crowd
  <2>1. PICK S \in SUBSET InStages(Begun) :
          Cardinality(S) = seen[v] /\ Apart(S)
    BY DEF Crowd
  <2>2. S \in SUBSET InStages(Begun)' /\ w \notin S /\ S \subseteq Worker
    BY <1>6 DEF InStages
  <2>3. Apart(S)'
    BY <1>2, <2>1, <2>2 DEF Apart
  <2> QED
    BY <2>1, <2>2, <2>3
<1>8. RecordedThreads' = RecordedThreads
  <2>1. \A v \in InStages(Recorded) : v \in Worker /\ thread'[v] = thread[v]
    BY <1>2, <1>6 DEF InStages
  <2> QED
    BY <1>6, <2>1 DEF RecordedThreads
<1>9. Tabled'
  BY <1>1, <1>8 DEF Tabled
<1> QED
  BY <1>5, <1>7, <1>9

\* A callback that enters the flight sees the crowd that is in it.
LEMMA EnterCrowd ==
  ASSUME TypeOK, Counts, OwnThread, Crowd, NEW w \in Worker, EnterFlight(w),
         InStages(Begun) \subseteq InStages(Begun)'
  PROVE  Crowd'
<1>1. /\ at \in [Worker -> Stage] /\ seen \in [Worker -> 0..requested]
      /\ at[w] = "enter" /\ Goto(w, "load")
      /\ seen' = [seen EXCEPT ![w] = inflight + 1]
      /\ UNCHANGED thread
  BY DEF EnterFlight, TypeOK, WorkersTypeOK
<1>2. inflight + 1 = Cardinality(InStages(InFlight)')
  BY <1>1, GotoCounts DEF Counts, CountersAgree, InFlight, Stage
<1>3. Apart(InStages(InFlight)')
  <2>1. \A v \in InStages(InFlight)' : v \in InStages(OnThread)
    BY <1>1 DEF Goto, InStages, InFlight, OnThread, Begun, Stage, OwnThread
  <2> QED
    BY <1>1, <2>1 DEF OwnThread, Apart
<1>4. InStages(InFlight)' \subseteq InStages(Begun)'
  BY DEF InStages, InFlight, Begun, Stage
<1>5. ASSUME NEW v \in Worker, v # w, seen'[v] # 0
      PROVE  \E S \in SUBSET InStages(Begun)' :
               Cardinality(S) = seen'[v] /\ Apart(S)
  <2>1. seen'[v] = seen[v]
    BY <1>1, <1>5
  <2> QED
    BY <1>1, <1>5, <2>1 DEF Crowd, Apart
<1>6. seen'[w] = Cardinality(InStages(InFlight)')
  BY <1>1, <1>2
<1>7. \E S \in SUBSET InStages(Begun)' :
        Cardinality(S) = seen'[w] /\ Apart(S)
  BY <1>3, <1>4, <1>6
<1> QED
  BY <1>1, <1>5, <1>7 DEF Crowd, Apart

\* A callback that is recorded adds its thread, or finds the table full.
LEMMA RecordTabled ==
  ASSUME TypeOK, Table, OwnThread, Crowd, Tabled, UNCHANGED <<nested, root>>,
         NEW w \in Worker, Record(w, "flying")
  PROVE  OwnThread' /\ Crowd' /\ Tabled'
<1>1. /\ at \in [Worker -> Stage] /\ at[w] = "record"
      /\ at' = [at EXCEPT ![w] = "flying"]
      /\ UNCHANGED <<thread, seen>>
      /\ record_thread(thread[w])
  BY DEF Record, Goto, TypeOK, WorkersTypeOK, callbackVars, record_common
<1>2. /\ InStages(OnThread)' = InStages(OnThread)
      /\ InStages(Begun)' = InStages(Begun)
      /\ InStages(Recorded)' = InStages(Recorded) \cup {w}
  BY <1>1 DEF InStages, OnThread, Begun, Recorded, Stage
<1>3. OwnThread' /\ Crowd'
  BY <1>1, <1>2 DEF OwnThread, Crowd, Apart
<1>4. RecordedThreads' = RecordedThreads \cup {thread[w]}
  BY <1>1, <1>2 DEF RecordedThreads
<1>5. \/ threads' = threads \cup {thread[w]} /\ Cardinality(threads) # MaxThreads
      \/ threads' = threads /\ Cardinality(threads) = MaxThreads
  <2>1. MaxThreads \in Nat /\ Cardinality(threads) \in Nat
    BY WorkersAssumption, FS_CardinalityType DEF Table
  <2> QED
    BY <1>1, <2>1 DEF record_thread, Table
<1>6. Tabled'
  <2>1. RecordedThreads' \subseteq threads' \/ Cardinality(threads') = MaxThreads
    BY <1>4, <1>5 DEF Tabled
  <2>2. ~nested' \/ root' = "enqueued" => threads' \subseteq RecordedThreads'
    BY <1>4, <1>5 DEF Tabled
  <2>3. PICK r \in Thread \cup {MainThread} :
          threads \subseteq RecordedThreads \cup {r}
    BY DEF Tabled
  <2>4. threads' \subseteq RecordedThreads' \cup {r}
    BY <1>4, <1>5, <2>3
  <2> QED
    BY <2>1, <2>2, <2>4 DEF Tabled
<1> QED
  BY <1>3, <1>6

\* The root worker is the one thread the table may hold beside.
LEMMA RootTabled ==
  ASSUME TypeOK, Table, Tabled, NestedInv, NEW t \in FreeThreads, RootStarts(t)
  PROVE  Tabled'
<1>1. /\ root = "enqueued" /\ root' = "runs"
      /\ UNCHANGED <<at, thread, nested>>
      /\ record_thread(t) /\ nested
      /\ t \in Thread
  BY DEF RootStarts, callbackVars, record_common, FreeThreads, NestedInv
<1>2. RecordedThreads' = RecordedThreads
  BY <1>1 DEF RecordedThreads, InStages
<1>3. \/ threads' = threads \cup {t} /\ Cardinality(threads) # MaxThreads
      \/ threads' = threads /\ Cardinality(threads) = MaxThreads
  <2>1. MaxThreads \in Nat /\ Cardinality(threads) \in Nat
    BY WorkersAssumption, FS_CardinalityType DEF Table
  <2> QED
    BY <1>1, <2>1 DEF record_thread, Table
<1>4. RecordedThreads' \subseteq threads' \/ Cardinality(threads') = MaxThreads
  BY <1>2, <1>3 DEF Tabled
<1>5. threads' \subseteq RecordedThreads' \cup {t}
  BY <1>1, <1>2, <1>3 DEF Tabled
<1>6. ~(~nested' \/ root' = "enqueued")
  BY <1>1
<1> QED
  BY <1>1, <1>4, <1>5, <1>6 DEF Tabled

\* All other steps of a callback go on within its thread.
LEMMA WorkThreads ==
  ASSUME IInv, ThreadInv, UNCHANGED <<nested, root>>,
         NEW w \in Worker, Submit(w) \/ Work(w) \/ Leave(w)
  PROVE  OwnThread' /\ Crowd' /\ Tabled'
<1>1. TypeOK /\ Counts /\ Table /\ OwnThread /\ Crowd /\ Tabled
  BY DEF IInv, ThreadInv
<1>2. ASSUME NEW t \in FreeThreads, Begin(w, t)
      PROVE  OwnThread' /\ Crowd' /\ Tabled'
  BY <1>1, <1>2, BeginApart
<1>3. CASE EnterFlight(w)
  <2>1. /\ at[w] = "enter" /\ Goto(w, "load")
        /\ UNCHANGED <<thread, threads>>
    BY <1>3 DEF EnterFlight, tableVars
  <2>2. /\ OwnThread' /\ Tabled'
        /\ InStages(Begun) \subseteq InStages(Begun)'
    BY <1>1, <2>1, MoveOn DEF Stage, OnThread, Begun, Recorded
  <2> QED
    BY <1>1, <1>3, <2>2, EnterCrowd
<1>4. CASE Record(w, "flying")
  BY <1>1, <1>4, RecordTabled
<1>5. ASSUME NEW s \in Stage, Goto(w, s), UNCHANGED <<thread, seen, threads>>,
             s # "posted",
             s \in OnThread => at[w] \in OnThread,
             at[w] \in Begun => s \in Begun,
             at[w] \in Recorded <=> s \in Recorded
      PROVE  OwnThread' /\ Crowd' /\ Tabled'
  BY <1>1, <1>5, MoveOn
<1>6. CASE LoadMax(w)
  <2>1. at[w] = "load" /\ Goto(w, "swap") /\ UNCHANGED <<thread, seen, threads>>
    BY <1>6 DEF LoadMax, tableVars
  <2> QED
    BY <1>5, <2>1 DEF Stage, OnThread, Begun, Recorded
<1>7. ASSUME UNCHANGED <<at, thread, seen, threads>>
      PROVE  OwnThread' /\ Crowd' /\ Tabled'
  BY <1>1, <1>7 DEF OwnThread, Crowd, Tabled, Apart, RecordedThreads, InStages
<1>8. CASE SwapMax(w)
  <2>1. /\ at[w] = "swap" /\ UNCHANGED <<thread, seen, threads>>
        /\ Goto(w, "record") \/ UNCHANGED at
    BY <1>8 DEF SwapMax, tableVars
  <2> QED
    BY <1>5, <1>7, <2>1 DEF Stage, OnThread, Begun, Recorded
<1>9. CASE LeaveFlight(w) \/ Complete(w, "leave")
  <2>1. /\ UNCHANGED <<thread, seen, threads>>
        /\ \/ at[w] = "flying" /\ Goto(w, "finish")
           \/ at[w] = "finish" /\ Goto(w, "leave")
    BY <1>9 DEF LeaveFlight, Complete, callbackVars, tableVars
  <2> QED
    BY <1>5, <2>1 DEF Stage, OnThread, Begun, Recorded
<1>10. CASE Submit(w) \/ Leave(w)
  <2>1. /\ UNCHANGED <<thread, seen, threads>>
        /\ \/ at[w] = "unsubmitted" /\ Goto(w, "queued")
           \/ at[w] = "leave" /\ Goto(w, "done")
           \/ UNCHANGED at
    BY <1>10 DEF Submit, Leave, callbackVars, tableVars
  <2> QED
    BY <1>5, <1>7, <2>1 DEF Stage, OnThread, Begun, Recorded
<1> QED
  BY <1>2, <1>3, <1>4, <1>6, <1>8, <1>9, <1>10
     DEF Work, GroupWorkerStep, WorkerStep

\* Nothing enters the table once all callbacks are done.
LEMMA DoneKeepsTable ==
  ASSUME Waiter, NEW w \in Worker, Work(w) \/ Leave(w),
         main \in {"emit", "emitted", "cleared"}, ~record.timed_out
  PROVE  FALSE
BY DoneStays DEF Waiter

\* A waiter that found the callbacks done counts the table as it stays.
LEMMA MainCounts ==
  ASSUME TypeOK, Counted, UNCHANGED <<nested, root>>, root = "runs", Main
  PROVE  Counted'
<1>1. threads' = threads
  BY MainLeavesWorkers DEF workerVars, tableVars
<1>2. ASSUME NEW counter \in Counter, ReadCounter(counter)
      PROVE  Counted'
  <2>1. /\ main = counter /\ main' = after(counter)
        /\ record' = [record EXCEPT ![counter] = value(counter)]
    BY <1>2 DEF ReadCounter
  <2>2. main' \in {"emit", "emitted", "cleared"} => counter = "unique_threads"
    BY <2>1 DEF after, Counter
  <2>3. counter = "unique_threads" =>
          record'.unique_threads = Cardinality(threads)
    BY <2>1 DEF value, TypeOK, RecordType
  <2> QED
    BY <1>1, <2>2, <2>3 DEF Counted
<1>3. CASE Emit
  BY <1>1, <1>3 DEF Emit, Counted, TypeOK, RecordType
<1>4. CASE ClearGroup \/ Exit
  BY <1>1, <1>4 DEF ClearGroup, Exit, Counted
<1>5. CASE StartWait \/ \E timed_out \in BOOLEAN : WaitEnds(timed_out)
  BY <1>1, <1>5 DEF StartWait, WaitEnds, Counted
<1> QED
  BY <1>2, <1>3, <1>4, <1>5 DEF Main

\* ThreadInv is inductive, IInv and NestedInv given.
LEMMA ThreadInvStep ==
  ASSUME IInv, NestedInv, ThreadInv, [NestedNext]_nestedVars
  PROVE  ThreadInv'
<1>1. ASSUME NEW w \in Worker, Submit(w), root = "runs", UNCHANGED <<nested, root>>
      PROVE  ThreadInv'
  <2>1. Counted'
    BY <1>1 DEF Submit, Counted, ThreadInv
  <2> QED
    BY <1>1, <2>1, WorkThreads DEF ThreadInv
<1>2. ASSUME Main, root = "runs", UNCHANGED <<nested, root>>
      PROVE  ThreadInv'
  <2>1. Counted'
    BY <1>2, MainCounts DEF ThreadInv, IInv
  <2>2. UNCHANGED <<at, thread, seen, threads>>
    BY <1>2, MainLeavesWorkers DEF workerVars, callbackVars, tableVars
  <2> QED
    BY <1>2, <2>1, <2>2 DEF ThreadInv, OwnThread, Crowd, Tabled, Apart,
       RecordedThreads, InStages
<1>3. ASSUME NEW w \in Worker, WorkOrLeave(w)
      PROVE  ThreadInv'
  <2>1. /\ Work(w) \/ Leave(w)
        /\ UNCHANGED <<nested, root, main, record>>
    BY <1>3 DEF WorkOrLeave, Work, Leave, waiterVars
  <2>2. ~(main \in {"emit", "emitted", "cleared"} /\ ~record.timed_out)
    BY <2>1, DoneKeepsTable DEF IInv
  <2>3. Counted'
    BY <2>1, <2>2 DEF Counted, ThreadInv
  <2> QED
    BY <2>1, <2>3, WorkThreads DEF ThreadInv
<1>4. ASSUME NEW t \in FreeThreads, RootStarts(t)
      PROVE  ThreadInv'
  <2>1. /\ UNCHANGED <<at, thread, seen, main, record, nested>>
        /\ root = "enqueued" /\ root' = "runs"
    BY <1>4 DEF RootStarts, callbackVars, waiterVars
  <2>2. Tabled'
    BY <1>4, RootTabled DEF ThreadInv, IInv
  <2>3. Counted'
    BY <2>1 DEF Counted, ThreadInv
  <2> QED
    BY <2>1, <2>2, <2>3 DEF ThreadInv, OwnThread, Crowd, Apart, InStages
<1>5. CASE ExitWithVerdict \/ RootSignals \/ RootCrashes \/ OuterReturns
             \/ OuterTimesOut \/ OuterReports \/ OuterGivesUp \/ NestedEnded
             \/ UNCHANGED nestedVars
  <2>1. /\ UNCHANGED <<workerVars, main, record, nested>>
        /\ \/ UNCHANGED root
           \/ root # "enqueued" /\ root' # "enqueued"
    BY <1>5 DEF ExitWithVerdict, Exit, RootSignals, RootCrashes, OuterReturns,
         OuterTimesOut, OuterReports, OuterGivesUp, NestedEnded, nestedVars,
         vars, waiterVars
  <2>2. UNCHANGED <<at, thread, seen, threads, main, record, nested>>
    BY <2>1 DEF workerVars, callbackVars, tableVars
  <2> QED
    BY <2>1, <2>2 DEF ThreadInv, OwnThread, Crowd, Tabled, Counted, Apart,
       RecordedThreads, InStages
<1> QED
  BY <1>1, <1>2, <1>3, <1>4, <1>5 DEF NestedNext, SubmitAndWait, Outer, outerVars

LEMMA ThreadInvInit == NestedInit => ThreadInv
<1> SUFFICES ASSUME NestedInit PROVE ThreadInv
  OBVIOUS
<1>1. /\ at = [w \in Worker |-> "unsubmitted"]
      /\ seen = [w \in Worker |-> 0] /\ threads = {} /\ main = "submit"
      /\ root = "enqueued" => nested
  BY DEF NestedInit, Init, WorkersInit
<1>2. InStages(OnThread) = {} /\ InStages(Recorded) = {}
  BY <1>1 DEF InStages, OnThread, Begun, Recorded, Stage
<1> QED
  BY <1>1, <1>2 DEF ThreadInv, OwnThread, Crowd, Tabled, Counted, Apart,
     RecordedThreads

\* A crowd on threads of the table is no greater than the table.
LEMMA ApartFits ==
  ASSUME NEW S, Apart(S), NEW T, IsFiniteSet(T), \A w \in S : thread[w] \in T
  PROVE  Cardinality(S) <= Cardinality(T)
<1> DEFINE f == [w \in S |-> thread[w]]
<1>1. f \in Injection(S, T)
  BY DEF Apart, Injection, IsInjective
<1> HIDE DEF f
<1> QED
  BY <1>1, FS_Injection

\* Callbacks are on no more threads than they are themselves.
LEMMA ThreadsOfFew ==
  ASSUME NEW S, IsFiniteSet(S)
  PROVE  /\ IsFiniteSet({thread[w] : w \in S})
         /\ Cardinality({thread[w] : w \in S}) <= Cardinality(S)
<1> DEFINE T == {thread[w] : w \in S}
           f == [w \in S |-> thread[w]]
<1>1. f \in Surjection(S, T)
  BY DEF Surjection
<1>2. IsFiniteSet(T) /\ Cardinality(T) <= Cardinality(S)
  <2> HIDE DEF f, T
  <2> QED
    BY <1>1, FS_Surjection
<1> QED
  BY <1>2

\* What ThreadInv says of an "ok" record.
LEMMA ThreadsCounted ==
  ASSUME IInv, NestedInv, ThreadInv, record.verdict = "ok"
  PROVE  /\ \/ record.max_inflight <= record.unique_threads
            \/ record.unique_threads = MaxThreads
         /\ record.unique_threads <= record.completed + (IF nested THEN 1 ELSE 0)
<1>1. /\ ~record.timed_out
      /\ main \in {"emitted", "cleared"}
      /\ \A w \in Worker : at[w] = "done"
      /\ record.max_inflight = max_inflight
      /\ record.unique_threads = Cardinality(threads)
      /\ root # "enqueued"
  BY DEF IInv, Waiter, TypeOK, ThreadInv, Counted
<1>2. record.completed = requested
  BY <1>1, InvariantImplies DEF WaitedRecordIsExact, emitted
<1>3. InStages(Recorded) = Worker
  BY <1>1 DEF InStages, Recorded
<1>4. /\ IsFiniteSet(Worker) /\ requested \in Nat
      /\ IsFiniteSet(threads) /\ Cardinality(threads) \in Nat
  BY WorkersAssumption, FS_CardinalityType DEF requested, IInv, Table
<1>5. \/ max_inflight <= Cardinality(threads)
      \/ Cardinality(threads) = MaxThreads
  <2> SUFFICES ASSUME Cardinality(threads) # MaxThreads, max_inflight # 0
               PROVE  max_inflight <= Cardinality(threads)
    BY <1>4
  <2>1. PICK w \in Worker : seen[w] = max_inflight
    BY DEF IInv, Peak
  <2>2. PICK S \in SUBSET InStages(Begun) :
          Cardinality(S) = max_inflight /\ Apart(S)
    BY <2>1 DEF ThreadInv, Crowd
  <2>3. \A v \in S : thread[v] \in threads
    BY <1>3 DEF ThreadInv, Tabled, RecordedThreads, InStages
  <2> QED
    BY <1>4, <2>2, <2>3, ApartFits
<1>6. /\ IsFiniteSet(RecordedThreads)
      /\ Cardinality(RecordedThreads) <= requested
      /\ Cardinality(RecordedThreads) \in Nat
  BY <1>3, <1>4, ThreadsOfFew, FS_CardinalityType DEF RecordedThreads, requested
<1>7. Cardinality(threads) <= requested + (IF nested THEN 1 ELSE 0)
  <2>1. CASE ~nested
    <3>1. Cardinality(threads) <= Cardinality(RecordedThreads)
      BY <1>6, <2>1, FS_Subset DEF ThreadInv, Tabled
    <3> QED
      BY <1>4, <1>6, <2>1, <3>1
  <2>2. CASE nested
    <3>1. PICK r \in Thread \cup {MainThread} : threads \subseteq RecordedThreads \cup {r}
      BY DEF ThreadInv, Tabled
    <3>2. /\ IsFiniteSet(RecordedThreads \cup {r})
          /\ Cardinality(RecordedThreads \cup {r})
               <= Cardinality(RecordedThreads) + 1
      <4>1. /\ IsFiniteSet(RecordedThreads \cup {r})
            /\ Cardinality(RecordedThreads \cup {r}) =
                 IF r \in RecordedThreads THEN Cardinality(RecordedThreads)
                 ELSE Cardinality(RecordedThreads) + 1
        BY <1>6, FS_AddElement
      <4> QED
        BY <1>6, <4>1
    <3>3. /\ Cardinality(threads) <= Cardinality(RecordedThreads \cup {r})
          /\ Cardinality(RecordedThreads \cup {r}) \in Nat
      BY <3>1, <3>2, FS_Subset, FS_CardinalityType
    <3> QED
      BY <1>4, <1>6, <2>2, <3>2, <3>3
  <2> QED
    BY <2>1, <2>2
<1> QED
  BY <1>1, <1>2, <1>5, <1>7

\* An "ok" record counts a thread for every callback that was in flight at the
\* peak, however the callbacks were spread over the pool, unless record_thread
\* ran out of room; and besides the callbacks' threads only the root worker's.
THEOREM ThreadsCorrect == NestedSpec => []PeakHasThreads
<1>1. IInv /\ NestedInv /\ ThreadInv => PeakHasThreads
  BY ThreadsCounted DEF PeakHasThreads
<1>2. ThreadInv /\ IInv /\ NestedInv /\ [NestedNext]_nestedVars => ThreadInv'
  BY ThreadInvStep
<1> QED
  BY <1>1, <1>2, ThreadInvInit, NestedInvariant, PTL DEF NestedSpec
=============================================================================
