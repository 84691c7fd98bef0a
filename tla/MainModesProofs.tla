--------------------------- MODULE MainModesProofs ---------------------------
(***************************************************************************)
(* Proofs about MainModes, for every number of callbacks, threads and table *)
(* entries and each of the three modes.                                     *)
(***************************************************************************)
EXTENDS MainModes, FiniteSetTheorems, TLAPS

Pending == Stage \ {"unsubmitted", "done"}

\* Every counter is the number of callbacks in some stages of the work.
Counts ==
  /\ CountersAgree
  /\ mode = "group" => pending = Cardinality(InStages(Pending))
  /\ mode # "group" => pending = 0

\* The stages of a callback whose update_max is over.
Accounted == {"record", "posted", "flying", "finish", "leave", "done"}

\* A callback past update_max is accounted for in the maximum, and the maximum
\* is no callback's invention.
Peak ==
  /\ \A w \in Worker :
       /\ seen[w] = 0 <=> at[w] \in {"unsubmitted", "queued", "enter"}
       /\ current[w] <= max_inflight
       /\ at[w] \in Accounted => seen[w] <= max_inflight
  /\ max_inflight = 0 \/ \E w \in Worker : seen[w] = max_inflight

\* The table of threads does not outgrow its array.
Table == IsFiniteSet(threads) /\ Cardinality(threads) <= MaxThreads

\* Only the modes with a group leave one, and a notification is registered by
\* a root worker that has armed every timer.
Rooted ==
  /\ notify => mode = "group" /\ root = "done"
  /\ root = "done" => \A w \in Worker : at[w] # "unsubmitted"
  /\ mode # "group" => \A w \in Worker : at[w] # "leave"

\* What the reporting callback has read by now is still so.
Reported ==
  /\ QuietWhileRead
  /\ reads # "none" /\ mode # "group" => record.completed = requested
  /\ reads \in {"max_inflight", "main_thread_callbacks", "unique_threads",
               "emit"} => record.completed = requested
  /\ reads \in {"main_thread_callbacks", "unique_threads", "emit"} =>
       record.max_inflight = max_inflight
  /\ ~running => reads = "emit" /\ record.verdict = "ok"

IInv == TypeOK /\ Counts /\ Peak /\ Table /\ Rooted /\ Reported

-----------------------------------------------------------------------------
(* Counting the callbacks in a set of stages.                               *)

LEMMA CountType ==
  ASSUME NEW f, NEW S
  PROVE  /\ IsFiniteSet({v \in Worker : f[v] \in S})
         /\ Cardinality({v \in Worker : f[v] \in S}) \in 0..requested
<1> DEFINE F == {v \in Worker : f[v] \in S}
<1>1. IsFiniteSet(Worker)
  BY WorkersAssumption
<1>2. F \in SUBSET Worker
  OBVIOUS
<1> HIDE DEF F
<1>3. /\ IsFiniteSet(F) /\ Cardinality(F) <= Cardinality(Worker)
  BY <1>1, <1>2, FS_Subset
<1>4. Cardinality(F) \in Nat /\ Cardinality(Worker) \in Nat
  BY <1>1, <1>3, FS_CardinalityType
<1>5. IsFiniteSet(F) /\ Cardinality(F) \in 0..requested
  BY <1>3, <1>4 DEF requested
<1> QED
  BY <1>5 DEF F

LEMMA CountMove ==
  ASSUME NEW f \in [Worker -> Stage], NEW w \in Worker, NEW s \in Stage, NEW S
  PROVE  LET before == {v \in Worker : f[v] \in S}
             after_move == {v \in Worker : [f EXCEPT ![w] = s][v] \in S}
         IN /\ f[w] \notin S /\ s \in S =>
                 Cardinality(after_move) = Cardinality(before) + 1
            /\ f[w] \in S /\ s \notin S =>
                 Cardinality(after_move) = Cardinality(before) - 1
            /\ (f[w] \in S <=> s \in S) =>
                 Cardinality(after_move) = Cardinality(before)
<1> DEFINE F == {v \in Worker : f[v] \in S}
           G == {v \in Worker : [f EXCEPT ![w] = s][v] \in S}
<1>1. IsFiniteSet(F)
  BY CountType
<1>2. f[w] \notin S /\ s \in S => w \notin F /\ G = F \cup {w}
  OBVIOUS
<1>3. f[w] \in S /\ s \notin S => w \in F /\ G = F \ {w}
  OBVIOUS
<1>4. (f[w] \in S <=> s \in S) => G = F
  OBVIOUS
<1> HIDE DEF F, G
<1>5. /\ w \notin F => Cardinality(F \cup {w}) = Cardinality(F) + 1
      /\ w \in F => Cardinality(F \ {w}) = Cardinality(F) - 1
  BY <1>1, FS_AddElement, FS_RemoveElement
<1>6. /\ f[w] \notin S /\ s \in S => Cardinality(G) = Cardinality(F) + 1
      /\ f[w] \in S /\ s \notin S => Cardinality(G) = Cardinality(F) - 1
      /\ (f[w] \in S <=> s \in S) => Cardinality(G) = Cardinality(F)
  BY <1>2, <1>3, <1>4, <1>5
<1> QED
  BY <1>6 DEF F, G

\* What a step of one callback does to the number of callbacks in S.
LEMMA GotoCounts ==
  ASSUME at \in [Worker -> Stage], NEW w \in Worker, NEW s \in Stage,
         Goto(w, s), NEW S
  PROVE  /\ at' \in [Worker -> Stage]
         /\ at[w] \notin S /\ s \in S =>
              Cardinality(InStages(S)') = Cardinality(InStages(S)) + 1
         /\ at[w] \in S /\ s \notin S =>
              Cardinality(InStages(S)') = Cardinality(InStages(S)) - 1
         /\ (at[w] \in S <=> s \in S) =>
              Cardinality(InStages(S)') = Cardinality(InStages(S))
<1>1. at' = [at EXCEPT ![w] = s]
  BY DEF Goto
<1>2. at' \in [Worker -> Stage]
  BY <1>1
<1> QED
  BY <1>1, <1>2, CountMove DEF InStages

-----------------------------------------------------------------------------
(* The steps that move no callback.                                         *)

\* The loads and the end of the root worker leave the callbacks alone; the
\* start of a block on the main queue records the thread.
LEMMA MainLeavesWorkers ==
  ASSUME Main \/ Ended \/ UNCHANGED vars
  PROVE  UNCHANGED <<at, callbackVars, counterVars, mode, pending>>
BY DEF Main, RootRecords, Notified, RootEnds, EmitAndExit, ReadCounter, Ended,
       vars, workerVars, modeVars

\* What a callback does outside the main queue's bookkeeping.
LEMMA CallbackLeavesMode ==
  ASSUME NEW w \in Worker, Callback(w)
  PROVE  UNCHANGED modeVars
BY DEF Callback

\* The counters follow the callbacks.
LEMMA CountsStep ==
  ASSUME TypeOK, Counts, Rooted, [Next]_vars
  PROVE  Counts' /\ at' \in [Worker -> Stage]
<1>1. /\ at \in [Worker -> Stage]
      /\ started \in Nat /\ inflight \in Nat /\ completed \in Nat
      /\ pending \in Nat
  BY DEF TypeOK, WorkersTypeOK, requested
<1>2. /\ started = Cardinality(InStages(Begun))
      /\ inflight = Cardinality(InStages(InFlight))
      /\ completed = Cardinality(InStages(Completed))
  BY DEF Counts, CountersAgree
<1>3. /\ mode = "group" => pending = Cardinality(InStages(Pending))
      /\ mode # "group" => pending = 0
  BY DEF Counts
<1> USE <1>1
<1> DEFINE Numbers == /\ at' \in [Worker -> Stage]
                      /\ started' = Cardinality(InStages(Begun)')
                      /\ inflight' = Cardinality(InStages(InFlight)')
                      /\ completed' = Cardinality(InStages(Completed)')
           Group == /\ mode' = "group" =>
                         pending' = Cardinality(InStages(Pending)')
                    /\ mode' # "group" => pending' = 0
<1> SUFFICES Numbers /\ Group
  BY DEF Counts, CountersAgree
<1>4. ASSUME NEW w \in Worker, Arm(w)
      PROVE  Numbers /\ Group
  <2>1. at[w] = "unsubmitted" /\ Goto(w, "queued") /\ "queued" \in Stage
    BY <1>4 DEF Arm, Stage
  <2>2. /\ UNCHANGED counterVars /\ UNCHANGED mode
        /\ pending' = IF mode = "group" THEN pending + 1 ELSE pending
    BY <1>4 DEF Arm
  <2>3. Numbers
    BY <1>2, <2>1, <2>2, GotoCounts
       DEF Begun, InFlight, Completed, Stage, counterVars
  <2>4. Cardinality(InStages(Pending)') = Cardinality(InStages(Pending)) + 1
    BY <2>1, GotoCounts DEF Pending, Stage
  <2> QED
    BY <1>3, <2>2, <2>3, <2>4
<1>5. ASSUME NEW w \in Worker, Leave(w)
      PROVE  Numbers /\ Group
  <2>1. at[w] = "leave" /\ Goto(w, "done") /\ "done" \in Stage
    BY <1>5 DEF Leave, Stage
  <2>2. /\ UNCHANGED counterVars /\ UNCHANGED mode /\ mode = "group"
        /\ pending' = pending - 1
    BY <1>5, <2>1 DEF Leave, Rooted
  <2>3. Numbers
    BY <1>2, <2>1, <2>2, GotoCounts
       DEF Begun, InFlight, Completed, Stage, counterVars
  <2>4. Cardinality(InStages(Pending)') = Cardinality(InStages(Pending)) - 1
    BY <2>1, GotoCounts DEF Pending, Stage
  <2> QED
    BY <1>3, <2>2, <2>3, <2>4
<1>6. ASSUME NEW w \in Worker, Callback(w)
      PROVE  Numbers /\ Group
  <2>0. pending' = pending /\ mode' = mode
    BY <1>6, CallbackLeavesMode DEF modeVars
  <2>1. ASSUME NEW t \in PoolThreads, Begin(w, t)
        PROVE  Numbers /\ Group
    <3>1. at[w] = "queued" /\ Goto(w, "enter") /\ "enter" \in Stage
      BY <2>1 DEF Begin, Stage
    <3> QED
      BY <1>2, <1>3, <2>0, <2>1, <3>1, GotoCounts
         DEF Begin, Begun, InFlight, Completed, Pending, Stage
  <2>2. CASE EnterFlight(w)
    <3>1. at[w] = "enter" /\ Goto(w, "load") /\ "load" \in Stage
      BY <2>2 DEF EnterFlight, Stage
    <3> QED
      BY <1>2, <1>3, <2>0, <2>2, <3>1, GotoCounts
         DEF EnterFlight, Begun, InFlight, Completed, Pending, Stage
  <2>3. CASE LoadMax(w)
    <3>1. at[w] = "load" /\ Goto(w, "swap") /\ "swap" \in Stage
      BY <2>3 DEF LoadMax, Stage
    <3> QED
      BY <1>2, <1>3, <2>0, <2>3, <3>1, GotoCounts
         DEF LoadMax, Begun, InFlight, Completed, Pending, Stage, counterVars
  <2>4. CASE SwapMax(w)
    <3>1. /\ at[w] = "swap" /\ "record" \in Stage
          /\ UNCHANGED at \/ Goto(w, "record")
          /\ UNCHANGED <<started, inflight, completed>>
      BY <2>4 DEF SwapMax, Stage
    <3>2. CASE UNCHANGED at
      BY <1>2, <1>3, <2>0, <3>1, <3>2 DEF InStages
    <3>3. CASE Goto(w, "record")
      BY <1>2, <1>3, <2>0, <3>1, <3>3, GotoCounts
         DEF Begun, InFlight, Completed, Pending, Stage
    <3> QED
      BY <3>1, <3>2, <3>3
  <2>5. ASSUME NEW s \in {"posted", "flying"}, Record(w, s)
        PROVE  Numbers /\ Group
    <3>1. at[w] = "record" /\ Goto(w, s) /\ s \in Stage
      BY <2>5 DEF Record, Stage
    <3> QED
      BY <1>2, <1>3, <2>0, <2>5, <3>1, GotoCounts
         DEF Record, Begun, InFlight, Completed, Pending, Stage, counterVars
  <2>6. ASSUME NEW t \in PoolThreads, Hop(w, t)
        PROVE  Numbers /\ Group
    <3>1. at[w] = "posted" /\ Goto(w, "flying") /\ "flying" \in Stage
      BY <2>6 DEF Hop, Stage
    <3> QED
      BY <1>2, <1>3, <2>0, <2>6, <3>1, GotoCounts
         DEF Hop, Begun, InFlight, Completed, Pending, Stage, counterVars
  <2>7. CASE LeaveFlight(w)
    <3>1. at[w] = "flying" /\ Goto(w, "finish") /\ "finish" \in Stage
      BY <2>7 DEF LeaveFlight, Stage
    <3> QED
      BY <1>2, <1>3, <2>0, <2>7, <3>1, GotoCounts
         DEF LeaveFlight, Begun, InFlight, Completed, Pending, Stage
  <2> QED
    BY <1>6, <2>1, <2>2, <2>3, <2>4, <2>5, <2>6, <2>7
       DEF Callback, CallbackStep
<1>7. ASSUME NEW w \in Worker, CompleteOnMain(w)
      PROVE  Numbers /\ Group
  <2>1. /\ at[w] = "finish" /\ Goto(w, "done") /\ "done" \in Stage
        /\ completed' = completed + 1
        /\ UNCHANGED <<started, inflight, mode, pending>> /\ mode # "group"
    BY <1>7 DEF CompleteOnMain, Complete, Stage
  <2> QED
    BY <1>2, <1>3, <2>1, GotoCounts
       DEF Begun, InFlight, Completed, Stage
<1>8. ASSUME NEW w \in Worker, CompleteInGroup(w)
      PROVE  Numbers /\ Group
  <2>1. /\ at[w] = "finish" /\ Goto(w, "leave") /\ "leave" \in Stage
        /\ completed' = completed + 1
        /\ UNCHANGED <<started, inflight, mode, pending>>
    BY <1>8 DEF CompleteInGroup, Complete, Stage, modeVars
  <2> QED
    BY <1>2, <1>3, <2>1, GotoCounts
       DEF Begun, InFlight, Completed, Pending, Stage
<1>9. CASE Main \/ Ended \/ UNCHANGED vars
  <2>1. UNCHANGED <<at, callbackVars, counterVars, mode, pending>>
    BY <1>9, MainLeavesWorkers
  <2> QED
    BY <1>2, <1>3, <2>1 DEF counterVars, InStages
<1> QED
  BY <1>4, <1>5, <1>6, <1>7, <1>8, <1>9 DEF Next, Work

-----------------------------------------------------------------------------
\* The table of threads grows by one at most, and not beyond its array.
LEMMA RecordThread ==
  ASSUME Table, NEW t, record_thread(t)
  PROVE  Table' /\ threads' \subseteq threads \cup {t}
<1>1. MaxThreads \in Nat
  BY WorkersAssumption
<1>2. IsFiniteSet(threads) /\ Cardinality(threads) \in Nat
  BY FS_CardinalityType DEF Table
<1>3. CASE Cardinality(threads) < MaxThreads
  <2>1. threads' = threads \cup {t}
    BY <1>3 DEF record_thread
  <2>2. /\ IsFiniteSet(threads \cup {t})
        /\ Cardinality(threads \cup {t}) <= Cardinality(threads) + 1
    BY <1>2, FS_AddElement DEF Table
  <2>3. Cardinality(threads \cup {t}) \in Nat
    BY <2>2, FS_CardinalityType
  <2>4. Cardinality(threads \cup {t}) <= MaxThreads
    BY <1>1, <1>2, <1>3, <2>2, <2>3
  <2> QED
    BY <2>1, <2>2, <2>4 DEF Table
<1>4. CASE ~(Cardinality(threads) < MaxThreads)
  BY <1>4 DEF record_thread, Table
<1> QED
  BY <1>3, <1>4

LEMMA TableStep ==
  ASSUME Table, [Next]_vars
  PROVE  Table'
<1>1. ASSUME NEW w \in Worker, NEW s, Record(w, s)
      PROVE  Table'
  <2>1. record_thread(thread[w])
    BY <1>1 DEF Record, record_common
  <2> QED
    BY <2>1, RecordThread
<1>2. ASSUME NEW t, RootRecords(t) \/ Notified(t)
      PROVE  Table'
  <2>1. record_thread(t)
    BY <1>2 DEF RootRecords, Notified, record_common
  <2> QED
    BY <2>1, RecordThread
<1>3. ASSUME NEW w \in Worker, NEW t, Hop(w, t)
      PROVE  Table'
  <2>1. record_thread(t)
    BY <1>3 DEF Hop, record_common
  <2> QED
    BY <2>1, RecordThread
<1>4. ASSUME NEW w \in Worker, Work(w),
             \A s : ~Record(w, s), \A t : ~Hop(w, t)
      PROVE  Table'
  BY <1>4 DEF Work, Callback, CallbackStep, Begin, EnterFlight, LoadMax, SwapMax,
       LeaveFlight, Arm, CompleteOnMain, CompleteInGroup, Complete, Leave,
       tableVars, Table
<1>5. CASE RootEnds \/ EmitAndExit \/ (\E c \in Counter : ReadCounter(c))
             \/ Ended \/ UNCHANGED vars
  BY <1>5 DEF RootEnds, EmitAndExit, ReadCounter, Ended, vars, workerVars,
       tableVars, Table
<1> QED
  BY <1>1, <1>2, <1>3, <1>4, <1>5 DEF Next, Main

-----------------------------------------------------------------------------
(* The type of the state. The bounds on the counters come from what they    *)
(* count.                                                                   *)

CountsBounded == {started, inflight, completed, pending} \subseteq 0..requested

LEMMA CountsBounds == Counts => CountsBounded
<1>1. ASSUME NEW S
      PROVE  Cardinality(InStages(S)) \in 0..requested
  BY CountType DEF InStages
<1>2. requested \in Nat
  BY WorkersAssumption, FS_CardinalityType DEF requested
<1>3. Counts => pending \in 0..requested
  <2>1. CASE mode = "group"
    BY <1>1, <2>1 DEF Counts
  <2>2. CASE mode # "group"
    BY <1>2, <2>2 DEF Counts
  <2> QED
    BY <2>1, <2>2
<1> QED
  BY <1>1, <1>3 DEF Counts, CountersAgree, CountsBounded

\* The variables of the callbacks and the table of threads.
LEMMA WorkersTypeStep ==
  ASSUME IInv, [Next]_vars
  PROVE  WorkersTypeOK' /\ pending' \in 0..requested
<1>1. Counts' /\ at' \in [Worker -> Stage]
  BY CountsStep DEF IInv
<1>0. CountsBounded'
  BY <1>1, CountsBounds, PTL
<1>2. {started', inflight', completed', pending'} \subseteq 0..requested
  BY <1>0 DEF CountsBounded
<1>3. WorkersTypeOK
  BY DEF IInv, TypeOK
<1>4. ASSUME NEW w \in Worker, Work(w)
      PROVE  WorkersTypeOK'
  <2>1. /\ thread' \in [Worker -> Thread \cup {MainThread}]
        /\ main_thread_callbacks' \in Nat
        /\ threads' \subseteq Thread \cup {MainThread}
    BY <1>3, <1>4
       DEF Work, Callback, CallbackStep, WorkersTypeOK, Begin, EnterFlight,
           LoadMax, SwapMax, Record, Hop, LeaveFlight, Complete, Arm, Leave,
           CompleteOnMain, CompleteInGroup, record_common, record_thread,
           callbackVars, counterVars, tableVars, PoolThreads, FreeThreads
  <2>2. seen' \in [Worker -> 0..requested]
    BY <1>2, <1>3, <1>4
       DEF Work, Callback, CallbackStep, WorkersTypeOK, Begin, EnterFlight,
           LoadMax, SwapMax, Record, Hop, LeaveFlight, Complete, Arm, Leave,
           CompleteOnMain, CompleteInGroup, callbackVars
  <2>3. current' \in [Worker -> 0..requested]
    BY <1>3, <1>4
       DEF Work, Callback, CallbackStep, WorkersTypeOK, Begin, EnterFlight,
           LoadMax, SwapMax, Record, Hop, LeaveFlight, Complete, Arm, Leave,
           CompleteOnMain, CompleteInGroup, callbackVars
  <2>4. max_inflight' \in 0..requested
    BY <1>3, <1>4
       DEF Work, Callback, CallbackStep, WorkersTypeOK, Begin, EnterFlight,
           LoadMax, SwapMax, Record, Hop, LeaveFlight, Complete, Arm, Leave,
           CompleteOnMain, CompleteInGroup, counterVars
  <2> QED
    BY <1>1, <1>2, <2>1, <2>2, <2>3, <2>4 DEF WorkersTypeOK
<1>5. CASE Main \/ Ended \/ UNCHANGED vars
  <2>1. UNCHANGED <<at, callbackVars, counterVars>>
    BY <1>5, MainLeavesWorkers
  <2>2. /\ main_thread_callbacks' \in Nat
        /\ threads' \subseteq Thread \cup {MainThread}
    BY <1>3, <1>5
       DEF Main, RootRecords, Notified, RootEnds, EmitAndExit, ReadCounter, Ended,
           vars, workerVars, tableVars, WorkersTypeOK, record_common,
           record_thread, PoolThreads, FreeThreads
  <2>3. UNCHANGED <<at, thread, seen, current, started, inflight,
                    max_inflight, completed>>
    BY <2>1 DEF callbackVars, counterVars
  <2>4. max_inflight' \in 0..requested
    BY <1>3, <2>3 DEF WorkersTypeOK
  <2> QED
    BY <1>2, <1>3, <2>2, <2>3, <2>4 DEF WorkersTypeOK, requested
<1> QED
  BY <1>2, <1>4, <1>5 DEF Next

\* What a load of each counter yields, and which follows.
LEMMA Loads ==
  /\ value("started") = started
  /\ value("completed") = completed
  /\ value("max_inflight") = max_inflight
  /\ value("main_thread_callbacks") = main_thread_callbacks
  /\ value("unique_threads") = Cardinality(threads)
  /\ next_read("started") \in {"completed", "max_inflight"}
  /\ mode = "group" => next_read("started") = "completed"
  /\ mode # "group" => next_read("started") = "max_inflight"
  /\ next_read("completed") = "max_inflight"
  /\ next_read("max_inflight") = "main_thread_callbacks"
  /\ next_read("main_thread_callbacks") = "unique_threads"
  /\ next_read("unique_threads") = "emit"
<1>1. /\ after("started") = "completed"
      /\ after("completed") = "max_inflight"
      /\ after("max_inflight") = "main_thread_callbacks"
      /\ after("main_thread_callbacks") = "unique_threads"
      /\ after("unique_threads") = "emit"
  BY DEF after
<1> QED
  BY <1>1 DEF value, next_read

\* The record and what the main queue does with it.
LEMMA TypeStep ==
  ASSUME IInv, [Next]_vars
  PROVE  TypeOK'
<1>1. WorkersTypeOK' /\ pending' \in 0..requested
  BY WorkersTypeStep
<1>2. /\ WorkersTypeOK
      /\ mode \in {"main", "roundtrip", "group"}
      /\ root \in {"record", "arm", "done"}
      /\ notify \in BOOLEAN
      /\ reads \in Counter \cup {"none", "emit"}
      /\ drainer \in Thread \cup {MainThread}
      /\ record \in RecordType
      /\ status \in {"running", "exited"}
  BY DEF IInv, TypeOK
<1>3. MaxThreads \in Nat /\ Cardinality(threads) \in 0..MaxThreads
  BY WorkersAssumption, FS_CardinalityType DEF IInv, Table
<1>4. /\ {started, completed, max_inflight, completed'} \subseteq 0..requested
      /\ main_thread_callbacks \in Nat
  BY <1>1, <1>2 DEF WorkersTypeOK
<1> SUFFICES /\ mode' \in {"main", "roundtrip", "group"}
             /\ root' \in {"record", "arm", "done"}
             /\ notify' \in BOOLEAN
             /\ reads' \in Counter \cup {"none", "emit"}
             /\ drainer' \in Thread \cup {MainThread}
             /\ record' \in RecordType
             /\ status' \in {"running", "exited"}
  BY <1>1 DEF TypeOK
<1>5. ASSUME NEW w \in Worker, CompleteOnMain(w)
      PROVE  /\ UNCHANGED <<mode, root, notify, drainer, status>>
             /\ reads' \in Counter \cup {"none", "emit"}
             /\ record' \in RecordType
  BY <1>2, <1>4, <1>5 DEF CompleteOnMain, Counter, RecordType
<1>6. ASSUME NEW w \in Worker, Arm(w) \/ Leave(w) \/ Callback(w)
                                \/ CompleteInGroup(w)
      PROVE  UNCHANGED <<mode, root, notify, reads, drainer, record, status>>
  BY <1>6 DEF Arm, Leave, Callback, CompleteInGroup, modeVars
<1>7. ASSUME NEW c \in Counter, ReadCounter(c)
      PROVE  /\ UNCHANGED <<mode, root, notify, drainer, status>>
             /\ reads' \in Counter \cup {"none", "emit"}
             /\ record' \in RecordType
  <2>1. /\ record' = [record EXCEPT ![c] = value(c)]
        /\ reads' = next_read(c)
        /\ UNCHANGED <<mode, root, notify, drainer, status>>
    BY <1>7 DEF ReadCounter
  <2>2. reads' \in Counter \cup {"none", "emit"}
    BY <2>1, Loads DEF Counter
  <2>3. CASE c = "started"
    BY <1>2, <1>4, <2>1, <2>2, <2>3, Loads DEF RecordType
  <2>4. CASE c = "completed"
    BY <1>2, <1>4, <2>1, <2>2, <2>4, Loads DEF RecordType
  <2>5. CASE c = "max_inflight"
    BY <1>2, <1>4, <2>1, <2>2, <2>5, Loads DEF RecordType
  <2>6. CASE c = "main_thread_callbacks"
    BY <1>2, <1>4, <2>1, <2>2, <2>6, Loads DEF RecordType
  <2>7. CASE c = "unique_threads"
    BY <1>2, <1>3, <2>1, <2>2, <2>7, Loads DEF RecordType
  <2> QED
    BY <2>3, <2>4, <2>5, <2>6, <2>7 DEF Counter
<1>8. CASE (\E t \in PoolThreads : RootRecords(t) \/ Notified(t)) \/ RootEnds
             \/ EmitAndExit
  BY <1>2, <1>8 DEF RootRecords, Notified, RootEnds, EmitAndExit, PoolThreads,
       FreeThreads, Counter, RecordType
<1>9. CASE Ended \/ UNCHANGED vars
  BY <1>2, <1>9 DEF Ended, vars, modeVars
<1> QED
  BY <1>2, <1>5, <1>6, <1>7, <1>8, <1>9 DEF Next, Main, Work

-----------------------------------------------------------------------------
\* Whatever way the loops of update_max interleave, none loses a maximum: the
\* maximum never falls, and a callback leaves its loop only below it.
LEMMA PeakStep ==
  ASSUME TypeOK, Peak, [Next]_vars
  PROVE  Peak'
<1>1. /\ at \in [Worker -> Stage]
      /\ seen \in [Worker -> Nat]
      /\ current \in [Worker -> Nat]
      /\ inflight \in Nat /\ max_inflight \in Nat
  BY WorkersAssumption, FS_CardinalityType DEF TypeOK, WorkersTypeOK, requested
<1>2. ASSUME NEW w \in Worker, Callback(w)
      PROVE  Peak'
  <2>1. ASSUME NEW t \in PoolThreads, Begin(w, t)
        PROVE  Peak'
    BY <1>1, <2>1 DEF Begin, Goto, Accounted, Peak
  <2>2. CASE EnterFlight(w)
    <3>1. /\ at[w] = "enter" /\ at' = [at EXCEPT ![w] = "load"]
          /\ seen' = [seen EXCEPT ![w] = inflight + 1]
          /\ UNCHANGED <<current, max_inflight>>
      BY <2>2 DEF EnterFlight, Goto
    <3>2. seen[w] = 0
      BY <3>1 DEF Accounted, Peak
    <3>3. ASSUME max_inflight # 0
          PROVE  \E v \in Worker : seen'[v] = max_inflight'
      <4>1. PICK v \in Worker : seen[v] = max_inflight
        BY <3>3 DEF Accounted, Peak
      <4>2. v # w
        BY <3>2, <3>3, <4>1
      <4>3. seen'[v] = max_inflight'
        BY <1>1, <3>1, <4>1, <4>2
      <4> QED
        BY <4>3
    <3>4. \A v \in Worker :
            /\ seen'[v] = 0 <=> at'[v] \in {"unsubmitted", "queued", "enter"}
            /\ current'[v] <= max_inflight'
            /\ at'[v] \in Accounted =>
                 seen'[v] <= max_inflight'
      BY <1>1, <3>1 DEF Accounted, Peak
    <3> QED
      BY <3>1, <3>3, <3>4 DEF Accounted, Peak
  <2>3. CASE LoadMax(w)
    BY <1>1, <2>3 DEF LoadMax, Goto, counterVars, Accounted, Peak
  <2>4. CASE SwapMax(w)
    <3>1. at[w] = "swap" /\ UNCHANGED seen
      BY <2>4 DEF SwapMax
    <3>2. CASE seen[w] > current[w] /\ max_inflight # current[w]
      BY <1>1, <2>4, <3>1, <3>2 DEF SwapMax, Accounted, Peak
    <3>3. CASE seen[w] > current[w] /\ max_inflight = current[w]
      <4>1. /\ at' = [at EXCEPT ![w] = "record"]
            /\ max_inflight' = seen[w] /\ UNCHANGED current
        BY <2>4, <3>3 DEF SwapMax, Goto
      <4> QED
        BY <1>1, <3>1, <3>3, <4>1 DEF Accounted, Peak
    <3>4. CASE ~(seen[w] > current[w])
      <4>1. /\ at' = [at EXCEPT ![w] = "record"]
            /\ UNCHANGED <<max_inflight, current>>
        BY <2>4, <3>4 DEF SwapMax, Goto
      <4>2. seen[w] <= max_inflight
        BY <1>1, <3>4 DEF Accounted, Peak
      <4> QED
        BY <1>1, <3>1, <4>1, <4>2 DEF Accounted, Peak
    <3> QED
      BY <3>2, <3>3, <3>4
  <2>5. ASSUME NEW s \in {"posted", "flying"}, Record(w, s)
        PROVE  Peak'
    BY <1>1, <2>5 DEF Record, Goto, callbackVars, counterVars, Accounted, Peak
  <2>6. ASSUME NEW t \in PoolThreads, Hop(w, t)
        PROVE  Peak'
    BY <1>1, <2>6 DEF Hop, Goto, counterVars, Accounted, Peak
  <2>7. CASE LeaveFlight(w)
    BY <1>1, <2>7 DEF LeaveFlight, Goto, callbackVars, Accounted, Peak
  <2> QED
    BY <1>2, <2>1, <2>2, <2>3, <2>4, <2>5, <2>6, <2>7
       DEF Callback, CallbackStep
<1>3. ASSUME NEW w \in Worker, Arm(w) \/ Leave(w) \/ CompleteOnMain(w)
                                \/ CompleteInGroup(w)
      PROVE  Peak'
  BY <1>1, <1>3 DEF Arm, Leave, CompleteOnMain, CompleteInGroup, Complete, Goto,
       callbackVars, counterVars, Accounted, Peak
<1>4. CASE Main \/ Ended \/ UNCHANGED vars
  BY <1>4, MainLeavesWorkers DEF callbackVars, counterVars, Peak
<1> QED
  BY <1>2, <1>3, <1>4 DEF Next, Work

-----------------------------------------------------------------------------
(* Which callback reports.                                                  *)

LEMMA EmptyGroup ==
  ASSUME TypeOK, Counts, mode = "group", pending = 0,
         \A w \in Worker : at[w] # "unsubmitted"
  PROVE  \A w \in Worker : at[w] = "done"
<1>1. IsFiniteSet(InStages(Pending)) /\ Cardinality(InStages(Pending)) = 0
  BY CountType DEF InStages, Counts
<1>2. InStages(Pending) = {}
  BY <1>1, FS_EmptySet
<1> QED
  BY <1>2 DEF InStages, Pending, TypeOK, WorkersTypeOK

\* A callback that counts itself last leaves none behind.
AllCounted == completed = requested => \A w \in Worker : at[w] \in Completed

LEMMA CountedAll == Counts => AllCounted
<1> SUFFICES ASSUME Counts, completed = requested, NEW w \in Worker
             PROVE  at[w] \in Completed
  BY DEF AllCounted
<1>1. /\ InStages(Completed) \in SUBSET Worker
      /\ Cardinality(InStages(Completed)) = Cardinality(Worker)
  BY DEF InStages, Counts, CountersAgree, requested
<1>2. InStages(Completed) = Worker
  BY <1>1, WorkersAssumption, FS_Subset
<1> QED
  BY <1>2 DEF InStages

\* A callback that is done does nothing more.
LEMMA DoneStays ==
  ASSUME NEW w \in Worker, Work(w)
  PROVE  at[w] # "done"
BY DEF Work, Callback, CallbackStep, Begin, EnterFlight, LoadMax, SwapMax,
       Record, Hop, LeaveFlight, Complete, CompleteOnMain, CompleteInGroup,
       Leave, Arm

LEMMA RootedStep ==
  ASSUME TypeOK, Rooted, [Next]_vars
  PROVE  Rooted'
<1>1. at \in [Worker -> Stage]
  BY DEF TypeOK, WorkersTypeOK
<1>2. ASSUME NEW w \in Worker, Arm(w)
      PROVE  Rooted'
  BY <1>1, <1>2 DEF Arm, Goto, Rooted
<1>3. ASSUME NEW w \in Worker,
             Callback(w) \/ CompleteOnMain(w) \/ CompleteInGroup(w) \/ Leave(w)
      PROVE  Rooted'
  <2>1. UNCHANGED <<mode, root, notify>>
    BY <1>3 DEF Callback, CompleteOnMain, CompleteInGroup, Leave, modeVars
  <2>2. \A v \in Worker : at[v] # "unsubmitted" => at'[v] # "unsubmitted"
    BY <1>1, <1>3
       DEF Callback, CallbackStep, Begin, EnterFlight, LoadMax, SwapMax, Record,
           Hop, LeaveFlight, Complete, CompleteOnMain, CompleteInGroup, Leave,
           Goto
  <2>3. mode # "group" =>
          \A v \in Worker : at[v] # "leave" => at'[v] # "leave"
    BY <1>1, <1>3
       DEF Callback, CallbackStep, Begin, EnterFlight, LoadMax, SwapMax, Record,
           Hop, LeaveFlight, Complete, CompleteOnMain, CompleteInGroup, Leave,
           Goto
  <2> QED
    BY <2>1, <2>2, <2>3 DEF Rooted
<1>4. CASE Main \/ Ended \/ UNCHANGED vars
  <2>1. UNCHANGED <<at, mode>>
    BY <1>4, MainLeavesWorkers
  <2>2. CASE RootEnds
    BY <2>1, <2>2 DEF RootEnds, Rooted
  <2>3. CASE ~RootEnds
    BY <1>4, <2>1, <2>3 DEF Main, RootRecords, Notified, EmitAndExit, ReadCounter,
         Ended, vars, modeVars, Rooted
  <2> QED
    BY <2>2, <2>3
<1> QED
  BY <1>2, <1>3, <1>4 DEF Next, Work

\* As soon as one callback reports, no callback moves, and what it has read
\* stays so.
LEMMA ReportedStep ==
  ASSUME IInv, [Next]_vars
  PROVE  Reported'
<1>1. TypeOK' /\ Counts' /\ Rooted'
  BY TypeStep, CountsStep, RootedStep DEF IInv
<1>2. record \in RecordType
  BY DEF IInv, TypeOK
<1>3. ASSUME NEW w \in Worker, Work(w), ~CompleteOnMain(w)
      PROVE  Reported'
  <2>1. reads = "none" /\ running
    BY <1>3, DoneStays DEF IInv, Reported, QuietWhileRead
  <2>2. UNCHANGED <<reads, record, status>>
    BY <1>3 DEF Work, Arm, Callback, CompleteInGroup, Leave, modeVars
  <2> QED
    BY <2>1, <2>2 DEF Reported, QuietWhileRead, running
<1>4. ASSUME NEW w \in Worker, CompleteOnMain(w)
      PROVE  Reported'
  <2>1. reads = "none" /\ running
    BY <1>4, DoneStays DEF IInv, Reported, QuietWhileRead, Work
  <2>2. UNCHANGED <<mode, status>> /\ mode # "group"
    BY <1>4 DEF CompleteOnMain
  <2>3. CASE completed' = requested
    <3>1. /\ record' = [record EXCEPT !.completed = completed']
          /\ reads' = "started"
      BY <1>4, <2>3 DEF CompleteOnMain, is_last
    <3>2. record'.completed = requested
      BY <1>2, <2>3, <3>1 DEF RecordType
    <3>3. AllCounted'
      BY <1>1, CountedAll, PTL
    <3>4. \A v \in Worker : at'[v] = "done"
      BY <1>1, <2>2, <2>3, <3>3 DEF AllCounted, Completed, Rooted, requested
    <3> QED
      BY <2>1, <2>2, <3>1, <3>2, <3>4 DEF Reported, QuietWhileRead, running, requested
  <2>4. CASE completed' # requested
    BY <1>4, <2>1, <2>2, <2>4
       DEF CompleteOnMain, is_last, Reported, QuietWhileRead, running
  <2> QED
    BY <2>3, <2>4
<1>5. CASE Main
  <2>1. UNCHANGED <<at, counterVars, mode>>
    BY <1>5, MainLeavesWorkers
  <2>2. ASSUME NEW t \in PoolThreads, RootRecords(t)
        PROVE  Reported'
    BY <2>1, <2>2 DEF RootRecords, IInv, Reported, QuietWhileRead, running,
         counterVars
  <2>3. CASE RootEnds
    BY <2>1, <2>3 DEF RootEnds, IInv, Reported, QuietWhileRead, running,
         counterVars
  <2>4. ASSUME NEW t \in PoolThreads, Notified(t)
        PROVE  Reported'
    <3>1. /\ notify /\ pending = 0 /\ reads' = "started"
          /\ running /\ UNCHANGED <<record, status>>
      BY <2>4 DEF Notified
    <3>2. mode = "group" /\ \A w \in Worker : at[w] # "unsubmitted"
      BY <3>1 DEF IInv, Rooted
    <3>3. \A w \in Worker : at[w] = "done"
      BY <3>1, <3>2, EmptyGroup DEF IInv
    <3> QED
      BY <2>1, <3>1, <3>2, <3>3 DEF Reported, QuietWhileRead, running
  <2>5. ASSUME NEW c \in Counter, ReadCounter(c)
        PROVE  Reported'
    <3>1. /\ record' = [record EXCEPT ![c] = value(c)]
          /\ reads = c /\ reads' = next_read(c)
          /\ running /\ UNCHANGED status /\ UNCHANGED max_inflight
      BY <2>1, <2>5 DEF ReadCounter, counterVars
    <3>2. \A w \in Worker : at[w] = "done"
      BY <3>1 DEF IInv, Reported, QuietWhileRead, Counter
    <3>3. completed = requested
      <4>1. InStages(Completed) = Worker
        BY <3>2 DEF InStages, Completed
      <4> QED
        BY <4>1 DEF IInv, Counts, CountersAgree, requested
    <3>4. QuietWhileRead' /\ running'
      BY <2>1, <3>1, <3>2 DEF QuietWhileRead, running
    <3>5. /\ reads # "none" /\ mode # "group" => record.completed = requested
          /\ reads \in {"max_inflight", "main_thread_callbacks",
                       "unique_threads", "emit"} => record.completed = requested
          /\ reads \in {"main_thread_callbacks", "unique_threads", "emit"} =>
               record.max_inflight = max_inflight
      BY DEF IInv, Reported
    <3> SUFFICES /\ mode # "group" => record'.completed = requested
                 /\ reads' \in {"max_inflight", "main_thread_callbacks",
                                "unique_threads", "emit"} =>
                      record'.completed = requested
                 /\ reads' \in {"main_thread_callbacks", "unique_threads",
                                "emit"} =>
                      record'.max_inflight = max_inflight
      BY <2>1, <3>1, <3>4 DEF Reported, requested
    <3>6. CASE c = "started"
      BY <1>2, <3>1, <3>5, <3>6, Loads DEF RecordType
    <3>7. CASE c = "completed"
      BY <1>2, <3>1, <3>3, <3>5, <3>7, Loads DEF RecordType
    <3>8. CASE c = "max_inflight"
      BY <1>2, <3>1, <3>5, <3>8, Loads DEF RecordType
    <3>9. CASE c \in {"main_thread_callbacks", "unique_threads"}
      BY <1>2, <3>1, <3>5, <3>9, Loads DEF RecordType
    <3> QED
      BY <3>6, <3>7, <3>8, <3>9 DEF Counter
  <2>6. CASE EmitAndExit
    <3>1. /\ reads = "emit" /\ UNCHANGED reads /\ status' = "exited"
          /\ record' = [record EXCEPT !.verdict =
                          IF record.completed = requested THEN "ok" ELSE "error"]
      BY <2>6 DEF EmitAndExit
    <3>2. record.completed = requested
      BY <3>1 DEF IInv, Reported
    <3> QED
      BY <1>2, <2>1, <3>1, <3>2
         DEF IInv, Reported, QuietWhileRead, RecordType, counterVars, requested
  <2> QED
    BY <1>5, <2>2, <2>3, <2>4, <2>5, <2>6 DEF Main
<1>6. CASE Ended \/ UNCHANGED vars
  BY <1>6 DEF Ended, vars, modeVars, workerVars, counterVars, IInv, Reported,
       QuietWhileRead, running
<1> QED
  BY <1>3, <1>4, <1>5, <1>6 DEF Next

-----------------------------------------------------------------------------
\* IInv is inductive.
LEMMA InvariantInit == Init => IInv
<1> SUFFICES ASSUME Init PROVE IInv
  OBVIOUS
<1>1. requested \in Nat /\ MaxThreads \in Nat
  BY WorkersAssumption, FS_CardinalityType DEF requested
<1>2. IsFiniteSet({}) /\ Cardinality({}) = 0
  BY FS_EmptySet
<1>3. TypeOK
  <2>1. WorkersTypeOK
    BY <1>1 DEF Init, WorkersInit, WorkersTypeOK, Stage
  <2>2. record \in RecordType /\ pending \in 0..requested
    BY <1>1 DEF Init, NoRecord, RecordType
  <2> QED
    BY <2>1, <2>2 DEF Init, TypeOK
<1>4. /\ InStages(Begun) = {} /\ InStages(InFlight) = {}
      /\ InStages(Completed) = {} /\ InStages(Pending) = {}
  BY DEF Init, WorkersInit, InStages, Begun, InFlight, Completed, Pending, Stage
<1>5. Counts
  BY <1>2, <1>4 DEF Init, WorkersInit, Counts, CountersAgree
<1>6. Peak
  BY DEF Init, WorkersInit, Peak, Accounted
<1>7. Table
  BY <1>1, <1>2 DEF Init, WorkersInit, Table
<1>8. Rooted /\ Reported
  BY DEF Init, WorkersInit, NoRecord, Rooted, Reported, QuietWhileRead, running
<1> QED
  BY <1>3, <1>5, <1>6, <1>7, <1>8 DEF IInv

LEMMA InvariantStep == IInv /\ [Next]_vars => IInv'
<1> SUFFICES ASSUME IInv, [Next]_vars PROVE IInv'
  OBVIOUS
<1>1. TypeOK'
  BY TypeStep
<1>2. Counts'
  BY CountsStep DEF IInv
<1>3. Peak'
  BY PeakStep DEF IInv
<1>4. Table'
  BY TableStep DEF IInv
<1>5. Rooted'
  BY RootedStep DEF IInv
<1>6. Reported'
  BY ReportedStep
<1> QED
  BY <1>1, <1>2, <1>3, <1>4, <1>5, <1>6 DEF IInv

LEMMA Invariant == Spec => []IInv
BY InvariantInit, InvariantStep, PTL DEF Spec

\* Type correctness: every counter and every field of the record stays within
\* the number of callbacks, and the table of threads within its array.
THEOREM TypeCorrect == Spec => []TypeOK
<1>1. IInv => TypeOK
  BY DEF IInv
<1> QED
  BY <1>1, Invariant, PTL

\* The callback that reports comes after everything every other callback does,
\* in all three modes: the loads of the record need no lock.
THEOREM QuietCorrect == Spec => []QuietWhileRead
<1>1. IInv => QuietWhileRead
  BY DEF IInv, Reported
<1> QED
  BY <1>1, Invariant, PTL

\* The process exits with an ok record and the true peak in it.
THEOREM ExitCorrect == Spec => []ExitRecordHasPeak
<1>1. IInv => ExitRecordHasPeak
  <2> SUFFICES ASSUME IInv, status = "exited"
               PROVE  /\ record.verdict = "ok"
                      /\ \A w \in Worker : seen[w] <= record.max_inflight
                      /\ \E w \in Worker : seen[w] = record.max_inflight
    BY DEF ExitRecordHasPeak
  <2>1. /\ record.verdict = "ok" /\ record.max_inflight = max_inflight
        /\ \A w \in Worker : at[w] = "done"
    BY DEF IInv, Reported, QuietWhileRead, running
  <2>2. \A w \in Worker : seen[w] <= max_inflight /\ seen[w] # 0
    BY <2>1 DEF IInv, Peak, Accounted
  <2>3. max_inflight # 0
    <3>1. PICK w \in Worker : TRUE
      BY WorkersAssumption
    <3>2. seen[w] \in Nat /\ seen[w] <= max_inflight /\ seen[w] # 0
      BY <2>2 DEF IInv, TypeOK, WorkersTypeOK
    <3> QED
      BY <3>2
  <2> QED
    BY <2>1, <2>2, <2>3 DEF IInv, Peak
<1> QED
  BY <1>1, Invariant, PTL
=============================================================================
