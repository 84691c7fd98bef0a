---------------------------- MODULE PressureProofs ----------------------------
(***************************************************************************)
(* Proofs about the pressure provider's three models: PressureBundle and    *)
(* BundleReplay, for every set of readings and every bound; SnapshotRead,   *)
(* for any set of buckets and any number of events; SnapshotSpi, for any    *)
(* callers and widths.                                                      *)
(***************************************************************************)
EXTENDS BundleReplay, SnapshotRead, SnapshotSpi, SumTheorems

-----------------------------------------------------------------------------
(*                       PressureBundle and BundleReplay                    *)

-----------------------------------------------------------------------------
(* The operators of PressureOps keep the types.                            *)

LEMMA DeltaType ==
  ASSUME NEW a \in Nat, NEW b \in Nat
  PROVE  delta_or_zero(a, b) \in Nat
BY DEF delta_or_zero

LEMMA AdapterType ==
  ASSUME NEW g \in Nat, NEW b \in Snapshot, NEW c \in Snapshot
  PROVE  adapter_build(g, b, c) \in View
BY DeltaType DEF adapter_build, narrow_total, visible, View, Snapshot, Counters

LEMMA SignalsType ==
  ASSUME NEW v \in View
  PROVE  signals_of(v) \in [Signals -> BOOLEAN]
BY DEF signals_of, Signals, View

LEMMA SequenceType ==
  ASSUME NEW q \in Sequencing, NEW v \in View
  PROVE  sequence_view(q, v) \in Sequencing
BY DEF sequence_view, Sequencing, View

LEMMA ObserverType ==
  ASSUME NEW o \in Observer, NEW v \in View
  PROVE  observer_update(o, v) \in Observer
<1>1. signals_of(v) \in [Signals -> BOOLEAN]
  BY SignalsType
<1>2. sequence_view(o.seq, v) \in Sequencing
  BY SequenceType DEF Observer
<1>3. \A s \in Signals :
        o.samples[s] + (IF signals_of(v)[s] THEN 1 ELSE 0) \in Nat
  BY <1>1 DEF Observer
<1>4. \A s \in {"pressure_visible", "quiescent"} : signals_of(v)[s] \in BOOLEAN
  BY <1>1 DEF Signals
<1> QED
  BY <1>2, <1>3, <1>4 DEF observer_update, Observer, max_u64, View

LEMMA TrackerType ==
  ASSUME NEW t \in Tracker, NEW v \in View
  PROVE  tracker_update(t, v) \in Tracker
<1>1. signals_of(v) \in [Signals -> BOOLEAN]
  BY SignalsType
<1>2. sequence_view(t.seq, v) \in Sequencing
  BY SequenceType DEF Tracker
<1>3. \A s \in Signals : t.rises[s] \in Nat /\ t.falls[s] \in Nat
  BY DEF Tracker
<1> QED
  BY <1>1, <1>2, <1>3 DEF tracker_update, Tracker, count_edge

\* The signals of a view the adapter built: pressure_visible is exactly the
\* disjunction of four others, and quiescent excludes non-idle.
LEMMA AdapterSignals ==
  ASSUME NEW g \in Nat, NEW b \in Snapshot, NEW c \in Snapshot
  PROVE  LET sig == signals_of(adapter_build(g, b, c))
         IN /\ sig["pressure_visible"] <=> \/ sig["nonidle"]
                                           \/ sig["request_backlog"]
                                           \/ sig["block_backlog"]
                                           \/ sig["narrow_feedback"]
            /\ ~(sig["quiescent"] /\ sig["nonidle"])
            /\ sig["narrow_feedback"] <=> c.counters.narrow > b.counters.narrow
<1> DEFINE v == adapter_build(g, b, c)
<1>1. v \in View
  BY AdapterType
<1>2. /\ b.counters.narrow \in Nat /\ c.counters.narrow \in Nat
      /\ c.counters.total \in Nat /\ c.counters.idle \in Nat
  BY DEF Snapshot, Counters
<1>3. /\ v.nonidle_workers = delta_or_zero(c.counters.total, c.counters.idle)
      /\ v.total_workers = c.counters.total
      /\ v.should_narrow = delta_or_zero(c.counters.narrow, b.counters.narrow)
      /\ v.pressure_visible <=> \/ v.request_backlog > 0
                                \/ v.block_backlog > 0
                                \/ v.should_narrow > 0
                                \/ v.nonidle_workers > 0
  BY DEF adapter_build, narrow_total, visible
<1> HIDE DEF v
<1>4. /\ signals_of(v)["pressure_visible"] <=> v.pressure_visible
      /\ signals_of(v)["nonidle"] <=> v.nonidle_workers > 0
      /\ signals_of(v)["request_backlog"] <=> v.request_backlog > 0
      /\ signals_of(v)["block_backlog"] <=> v.block_backlog > 0
      /\ signals_of(v)["narrow_feedback"] <=> v.should_narrow > 0
      /\ signals_of(v)["quiescent"] <=> /\ v.total_workers = 0
                                        /\ v.nonidle_workers = 0
  BY <1>1 DEF signals_of, Signals
<1>5. /\ signals_of(v)["pressure_visible"] <=>
           \/ signals_of(v)["nonidle"] \/ signals_of(v)["request_backlog"]
           \/ signals_of(v)["block_backlog"] \/ signals_of(v)["narrow_feedback"]
      /\ ~(signals_of(v)["quiescent"] /\ signals_of(v)["nonidle"])
  BY <1>1, <1>3, <1>4 DEF View
<1>6. signals_of(v)["narrow_feedback"] <=>
        c.counters.narrow > b.counters.narrow
  BY <1>2, <1>3, <1>4 DEF delta_or_zero
<1> QED
  BY <1>5, <1>6 DEF v

LEMMA InitialTypes ==
  /\ no_samples \in Sequencing
  /\ observer_init \in Observer
  /\ tracker_init \in Tracker
  /\ session_init \in Session
  /\ bundle_init \in Bundle
<1>1. no_samples \in Sequencing
  BY DEF no_samples, Sequencing
<1>2. zero_snapshot \in Snapshot
  BY DEF zero_snapshot, zero_counters, Snapshot, Counters
<1>3. zero_view \in View
  BY DEF zero_view, View
<1>4. session_init \in Session
  BY <1>2 DEF session_init, Session
<1>5. bundle_init \in Bundle
  BY <1>1, <1>3 DEF bundle_init, Bundle
<1> QED
  BY <1>1, <1>4, <1>5 DEF observer_init, Observer, tracker_init, Tracker

\* What a snapshot read returns.
LEMMA ReadType ==
  ASSUME TypeOK, NEW read \in Reads
  PROVE  /\ snapshot_of(read) \in Snapshot
         /\ read.counters \in Counters
         /\ read.clock \in Nat
         /\ \A f \in Cumulative : read.counters[f] >= kernel[f]
<1>1. PICK c \in Readings, k \in clock..MaxTime, failed \in BOOLEAN :
        /\ read = [counters |-> c, time |-> IF failed THEN 0 ELSE k,
                   clock |-> k]
        /\ \A f \in Cumulative : c[f] >= kernel[f]
  BY DEF Reads
<1>2. c \in Counters /\ k \in Nat
  BY ReadingsAssumption, BoundsAssumption DEF TypeOK
<1> QED
  BY <1>1, <1>2 DEF snapshot_of, Snapshot

-----------------------------------------------------------------------------
\* Every call keeps the types.
LEMMA TypeStep == TypeOK /\ [Next]_vars => TypeOK'
<1> SUFFICES ASSUME TypeOK, [Next]_vars PROVE TypeOK'
  OBVIOUS
<1>1. CASE BundleInit
  BY <1>1, InitialTypes DEF BundleInit, TypeOK
<1>2. CASE BundlePrime
  <2>1. PICK read \in Reads :
          /\ session' = [session_init EXCEPT !.primed = TRUE,
                                             !.base = snapshot_of(read)]
          /\ kernel' = read.counters
          /\ clock' = read.clock
    BY <1>2 DEF BundlePrime
  <2>2. session' \in Session
    BY <2>1, InitialTypes, ReadType DEF Session
  <2> QED
    BY <1>2, <2>1, <2>2, InitialTypes, ReadType DEF BundlePrime, TypeOK
<1>3. CASE BundlePrimeFails
  <2>1. CASE bundle.initialised
    BY <1>3, <2>1, InitialTypes DEF BundlePrimeFails, TypeOK
  <2>2. CASE ~bundle.initialised
    BY <1>3, <2>2, InitialTypes DEF BundlePrimeFails, TypeOK
  <2> QED
    BY <2>1, <2>2
<1>4. CASE BundlePoll
  <2>1. PICK read \in Reads :
          /\ observer' = observer_update(observer, session_view(read))
          /\ tracker' = tracker_update(tracker, session_view(read))
          /\ bundle' = bundle_update(session_view(read))
          /\ log' = Append(log, session_view(read))
          /\ kernel' = read.counters
          /\ clock' = read.clock
    BY <1>4 DEF BundlePoll
  <2>2. session_view(read) \in View
    BY AdapterType, ReadType DEF TypeOK, Session, session_view
  <2>3. session' \in Session
    BY <1>4 DEF BundlePoll, TypeOK, Session
  <2>4. observer' \in Observer /\ tracker' \in Tracker
    BY <2>1, <2>2, ObserverType, TrackerType DEF TypeOK
  <2>5. bundle' \in Bundle
    <3>1. signals_of(session_view(read)) \in [Signals -> BOOLEAN]
      BY <2>2, SignalsType
    <3>2. sequence_view(bundle.seq, session_view(read)) \in Sequencing
      BY <2>2, SequenceType DEF TypeOK, Bundle
    <3> QED
      BY <2>1, <2>2, <3>1, <3>2 DEF bundle_update, Bundle, Signals
  <2>6. log' \in Seq(View)
    BY <2>1, <2>2 DEF TypeOK
  <2> QED
    BY <1>4, <2>1, <2>3, <2>4, <2>5, <2>6, ReadType DEF BundlePoll, TypeOK
<1>5. CASE BundlePollRefused
  BY <1>5 DEF BundlePollRefused, TypeOK
<1>6. CASE BundlePollFails
  BY <1>6, ReadType DEF BundlePollFails, TypeOK
<1>7. CASE UNCHANGED vars
  BY <1>7 DEF vars, TypeOK
<1> QED
  BY <1>1, <1>2, <1>3, <1>4, <1>5, <1>6, <1>7 DEF Next

\* The initial states have the types.
LEMMA TypeInit == Init => TypeOK
<1> SUFFICES ASSUME Init PROVE TypeOK
  OBVIOUS
<1>1. session \in Session
  BY InitialTypes DEF Init, Session
<1>2. bundle \in Bundle
  BY InitialTypes DEF Init, Bundle
<1>3. kernel \in Counters
  BY DEF Init, Counters, zero_counters
<1>4. observer \in Observer /\ tracker \in Tracker
  BY InitialTypes DEF Init
<1> QED
  BY <1>1, <1>2, <1>3, <1>4 DEF Init, TypeOK

\* Type correctness of the bundle, for any readings and bounds.
THEOREM TypeCorrect == Spec => []TypeOK
BY TypeInit, TypeStep, PTL DEF Spec

-----------------------------------------------------------------------------
(* The safety invariant. EdgesBalance and NarrowLatches are not inductive:  *)
(* they need to know that a tracker without samples has its initial value,  *)
(* and that narrow feedback once seen means that the kernel's cumulative    *)
(* counter has passed the baseline of the session, for good.                *)

FreshTracker ==
  tracker.seq.sample_count = 0 =>
    \A s \in Signals : /\ ~tracker.initial[s] /\ ~tracker.final[s]
                       /\ tracker.rises[s] = 0 /\ tracker.falls[s] = 0

NarrowSinceBaseline ==
  session.primed /\ tracker.final["narrow_feedback"] =>
    kernel.narrow > session.base.counters.narrow

Safe ==
  /\ SummariesAgree
  /\ GenerationsAccounted
  /\ EdgesBalance
  /\ SamplesConsistent
  /\ NarrowLatches

IInv == TypeOK /\ Safe /\ FreshTracker /\ NarrowSinceBaseline

\* The state right after an initialisation or a successful prime.
Reset ==
  /\ observer = observer_init
  /\ tracker = tracker_init
  /\ bundle.seq = no_samples
  /\ bundle.current = bundle_init.current
  /\ log = <<>>
  /\ session.primed => session.next_generation = 1

\* Summaries that were just reset satisfy the invariant, whatever the reads.
LEMMA ResetSafe == Reset /\ TypeOK => IInv
<1> SUFFICES ASSUME Reset, TypeOK PROVE IInv
  OBVIOUS
<1> USE DEF Reset
<1>1. SummariesAgree
  BY DEF SummariesAgree, observer_init, tracker_init, bundle_init, Signals
<1>2. GenerationsAccounted
  BY DEF GenerationsAccounted, no_samples
<1>3. EdgesBalance
  BY DEF EdgesBalance, tracker_init, no_samples
<1>4. SamplesConsistent
  BY DEF SamplesConsistent, observer_init, no_samples, Signals
<1>5. NarrowLatches /\ FreshTracker /\ NarrowSinceBaseline
  BY DEF NarrowLatches, FreshTracker, NarrowSinceBaseline, tracker_init,
         Signals
<1> QED
  BY <1>1, <1>2, <1>3, <1>4, <1>5 DEF IInv, Safe

\* A call that leaves the summaries alone, and the session as it was or
\* unprimed, keeps the invariant: the kernel's counters only go up.
LEMMA KeptSafe ==
  ASSUME IInv, TypeOK',
         UNCHANGED <<observer, tracker, bundle, log>>,
         session' = session \/ ~session'.primed,
         kernel' = kernel \/ kernel'.narrow >= kernel.narrow
  PROVE  IInv'
<1>1. /\ SummariesAgree' /\ EdgesBalance' /\ SamplesConsistent'
      /\ NarrowLatches' /\ FreshTracker'
  BY DEF IInv, Safe, SummariesAgree, EdgesBalance, SamplesConsistent,
         NarrowLatches, FreshTracker
<1>2. GenerationsAccounted'
  BY DEF IInv, Safe, GenerationsAccounted
<1>3. /\ kernel.narrow \in Nat /\ kernel'.narrow \in Nat
      /\ session.base.counters.narrow \in Nat
  BY DEF IInv, TypeOK, Counters, Session, Snapshot
<1>4. NarrowSinceBaseline'
  <2>1. CASE ~session'.primed
    BY <2>1 DEF NarrowSinceBaseline
  <2>2. CASE session' = session
    <3> SUFFICES ASSUME session.primed, tracker.final["narrow_feedback"]
                 PROVE  kernel'.narrow > session.base.counters.narrow
      BY <2>2 DEF NarrowSinceBaseline
    <3>1. kernel.narrow > session.base.counters.narrow
      BY DEF IInv, NarrowSinceBaseline
    <3> QED
      BY <1>3, <3>1
  <2> QED
    BY <2>1, <2>2
<1> QED
  BY <1>1, <1>2, <1>4 DEF IInv, Safe

-----------------------------------------------------------------------------
ConsistentCounts(n) ==
  /\ \A s \in {"nonidle", "request_backlog", "block_backlog",
               "narrow_feedback"} : n[s] <= n["pressure_visible"]
  /\ n["pressure_visible"] <= n["nonidle"] + n["request_backlog"]
       + n["block_backlog"] + n["narrow_feedback"]

ConsistentSignals(sig) ==
  /\ sig["pressure_visible"] <=> \/ sig["nonidle"]
                                 \/ sig["request_backlog"]
                                 \/ sig["block_backlog"]
                                 \/ sig["narrow_feedback"]
  /\ ~(sig["quiescent"] /\ sig["nonidle"])

Counted(n, m, sig) ==
  \A s \in Signals : m[s] = n[s] + (IF sig[s] THEN 1 ELSE 0)

\* Counting one more sample whose signals fit keeps the counts consistent.
LEMMA CountsStep ==
  ASSUME NEW n \in [Signals -> Nat], NEW m, NEW k \in Nat,
         NEW sig \in [Signals -> BOOLEAN],
         ConsistentSignals(sig),
         Counted(n, m, sig),
         n["quiescent"] + n["nonidle"] <= k,
         ConsistentCounts(n)
  PROVE  /\ m["quiescent"] + m["nonidle"] <= k + 1
         /\ ConsistentCounts(m)
<1> USE DEF ConsistentSignals, Counted
<1>1. \A s \in Signals : /\ n[s] \in Nat
                         /\ m[s] \in {n[s], n[s] + 1}
                         /\ m[s] = n[s] + 1 <=> sig[s]
  BY DEF Signals
<1>2. m["quiescent"] + m["nonidle"] <= k + 1
  BY <1>1 DEF Signals
<1>3. \A s \in {"nonidle", "request_backlog", "block_backlog",
                "narrow_feedback"} : m[s] <= m["pressure_visible"]
  BY <1>1 DEF Signals, ConsistentCounts
<1>4. m["pressure_visible"] <= m["nonidle"] + m["request_backlog"]
        + m["block_backlog"] + m["narrow_feedback"]
  BY <1>1 DEF Signals, ConsistentCounts
<1> QED
  BY <1>2, <1>3, <1>4 DEF ConsistentCounts

\* What one poll does to the sequencing header, the counts and the edges.
LEMMA PollSafe ==
  ASSUME IInv, TypeOK', session.primed, NEW read \in Reads,
         session' = [session EXCEPT !.next_generation = @ + 1],
         observer' = observer_update(observer, session_view(read)),
         tracker' = tracker_update(tracker, session_view(read)),
         bundle' = bundle_update(session_view(read)),
         log' = Append(log, session_view(read)),
         kernel' = read.counters
  PROVE  IInv'
<1> DEFINE view == session_view(read)
           sig == signals_of(view)
<1> USE DEF IInv, Safe
<1>1. view \in View
  BY AdapterType, ReadType DEF TypeOK, Session, session_view
<1>2. sig \in [Signals -> BOOLEAN]
  BY <1>1, SignalsType
<1>3. /\ sig["pressure_visible"] <=> \/ sig["nonidle"]
                                     \/ sig["request_backlog"]
                                     \/ sig["block_backlog"]
                                     \/ sig["narrow_feedback"]
      /\ ~(sig["quiescent"] /\ sig["nonidle"])
      /\ sig["narrow_feedback"] <=>
           kernel'.narrow > session.base.counters.narrow
  BY AdapterSignals, ReadType DEF TypeOK, Session, session_view, snapshot_of
<1>4. view.generation = session.next_generation
  BY DEF session_view, adapter_build
<1>5. /\ observer'.seq = sequence_view(bundle.seq, view)
      /\ tracker'.seq = sequence_view(bundle.seq, view)
      /\ bundle'.seq = sequence_view(bundle.seq, view)
  BY DEF SummariesAgree, observer_update, tracker_update, bundle_update
<1>6. tracker'.final = sig
  BY DEF tracker_update
<1>7. /\ observer'.final = [s \in {"pressure_visible", "quiescent"} |-> sig[s]]
      /\ bundle'.current =
           [s \in {"pressure_visible", "quiescent", "narrow_feedback"} |-> sig[s]]
  BY DEF observer_update, bundle_update
<1>8. \A s \in Signals :
        /\ observer'.samples[s] =
             observer.samples[s] + (IF sig[s] THEN 1 ELSE 0)
        /\ tracker'.rises[s] = tracker.rises[s] +
             (IF tracker.seq.sample_count # 0 /\ ~tracker.final[s] /\ sig[s]
              THEN 1 ELSE 0)
        /\ tracker'.falls[s] = tracker.falls[s] +
             (IF tracker.seq.sample_count # 0 /\ tracker.final[s] /\ ~sig[s]
              THEN 1 ELSE 0)
        /\ tracker'.initial[s] = IF tracker.seq.sample_count = 0
                                 THEN sig[s] ELSE tracker.initial[s]
  BY DEF observer_update, tracker_update, count_edge
<1>9. bundle.seq \in Sequencing /\ tracker.seq = bundle.seq
  BY DEF TypeOK, Bundle, SummariesAgree
<1>10. sequence_view(bundle.seq, view).sample_count = bundle.seq.sample_count + 1
  BY DEF sequence_view
<1> HIDE DEF view, sig, IInv, Safe
<1>11. SummariesAgree'
  BY <1>5, <1>6, <1>7 DEF SummariesAgree, Signals
<1>12. GenerationsAccounted'
  <2>1. log \in Seq(View) /\ session.next_generation \in Nat
    BY DEF IInv, TypeOK, Session
  <2>2. Len(log') = Len(log) + 1
    BY <1>1, <2>1 DEF view
  <2>3. GenerationsAccounted
    BY DEF IInv, Safe
  <2>4. session'.next_generation = session.next_generation + 1
    BY DEF IInv, TypeOK, Session
  <2> QED
    BY <1>4, <1>5, <1>9, <2>1, <2>2, <2>3, <2>4
       DEF GenerationsAccounted, sequence_view, Sequencing
<1>13. EdgesBalance' /\ FreshTracker'
  <2>1. EdgesBalance /\ FreshTracker
    BY DEF IInv, Safe
  <2>2. \A s \in Signals :
          /\ tracker.rises[s] \in Nat /\ tracker.falls[s] \in Nat
          /\ tracker.initial[s] \in BOOLEAN /\ tracker.final[s] \in BOOLEAN
          /\ sig[s] \in BOOLEAN
    BY <1>2 DEF IInv, TypeOK, Tracker
  <2>5. /\ tracker.seq.sample_count \in Nat
        /\ tracker'.seq.sample_count = tracker.seq.sample_count + 1
    BY <1>5, <1>9, <1>10 DEF Sequencing
  <2>3. EdgesBalance'
    <3> SUFFICES ASSUME NEW s \in Signals
        PROVE  /\ tracker'.rises[s] + (IF tracker'.initial[s] THEN 1 ELSE 0) =
                    tracker'.falls[s] + (IF tracker'.final[s] THEN 1 ELSE 0)
               /\ tracker'.rises[s] + tracker'.falls[s]
                    < tracker'.seq.sample_count
      BY DEF EdgesBalance
    <3>1. CASE tracker.seq.sample_count = 0
      BY <1>6, <1>8, <2>1, <2>5, <3>1 DEF FreshTracker
    <3>2. CASE tracker.seq.sample_count > 0
      <4>1. /\ tracker.rises[s] + (IF tracker.initial[s] THEN 1 ELSE 0) =
                 tracker.falls[s] + (IF tracker.final[s] THEN 1 ELSE 0)
            /\ tracker.rises[s] + tracker.falls[s] < tracker.seq.sample_count
        BY <2>1, <3>2 DEF EdgesBalance
      <4>2. /\ tracker'.rises[s] = tracker.rises[s] +
                 (IF ~tracker.final[s] /\ sig[s] THEN 1 ELSE 0)
            /\ tracker'.falls[s] = tracker.falls[s] +
                 (IF tracker.final[s] /\ ~sig[s] THEN 1 ELSE 0)
            /\ tracker'.initial[s] = tracker.initial[s]
            /\ tracker'.final[s] = sig[s]
        BY <1>6, <1>8, <3>2
      <4> QED
        BY <2>2, <2>5, <4>1, <4>2
    <3> QED
      BY <2>5, <3>1, <3>2
  <2>4. FreshTracker'
    BY <1>5, <1>9, <1>10 DEF FreshTracker, Sequencing
  <2> QED
    BY <2>3, <2>4
<1>14. SamplesConsistent'
  <2>1. SamplesConsistent /\ observer.seq = bundle.seq
    BY DEF IInv, Safe, SummariesAgree
  <2>2. observer.samples \in [Signals -> Nat]
    BY DEF IInv, TypeOK, Observer
  <2>3. Counted(observer.samples, observer'.samples, sig)
    BY <1>8 DEF Counted
  <2>4. observer.seq.sample_count \in Nat
    BY <1>9, <2>1 DEF Sequencing
  <2>5. observer'.seq.sample_count = observer.seq.sample_count + 1
    BY <1>5, <1>10, <2>1
  <2>6. /\ observer.samples["quiescent"] + observer.samples["nonidle"]
             <= observer.seq.sample_count
        /\ ConsistentCounts(observer.samples)
    BY <2>1 DEF SamplesConsistent, ConsistentCounts
  <2>7. /\ observer'.samples["quiescent"] + observer'.samples["nonidle"]
             <= observer.seq.sample_count + 1
        /\ ConsistentCounts(observer'.samples)
    <3>1. ConsistentSignals(sig)
      BY <1>3 DEF ConsistentSignals
    <3> QED
      BY <1>2, <2>2, <2>3, <2>4, <2>6, <3>1, CountsStep
  <2> QED
    BY <2>5, <2>7 DEF SamplesConsistent, ConsistentCounts
<1>15. NarrowLatches' /\ NarrowSinceBaseline'
  <2> DEFINE nf == "narrow_feedback"
  <2>1. nf \in Signals /\ "pressure_visible" \in Signals
    BY DEF Signals
  <2>2. /\ kernel.narrow \in Nat /\ kernel'.narrow \in Nat
        /\ session.base.counters.narrow \in Nat
        /\ kernel'.narrow >= kernel.narrow
    BY ReadType DEF IInv, TypeOK, Counters, Session, Snapshot, Cumulative
  <2>3. /\ tracker.rises[nf] \in Nat /\ tracker.falls[nf] \in Nat
        /\ tracker.initial[nf] \in BOOLEAN /\ tracker.final[nf] \in BOOLEAN
        /\ sig[nf] \in BOOLEAN
    BY <1>2, <2>1 DEF IInv, TypeOK, Tracker
  <2>4. /\ EdgesBalance /\ NarrowLatches /\ NarrowSinceBaseline
    BY DEF IInv, Safe
  <2>5. tracker.final[nf] => sig[nf]
    BY <1>3, <2>2, <2>4 DEF NarrowSinceBaseline
  <2>6. ~tracker.final[nf] => tracker.rises[nf] = 0
    BY <2>1, <2>3, <2>4 DEF EdgesBalance, NarrowLatches
  <2>7. tracker'.falls[nf] = 0 /\ tracker'.rises[nf] <= 1
    <3>1. tracker.falls[nf] = 0 /\ tracker.rises[nf] <= 1
      BY <2>4 DEF NarrowLatches
    <3>2. tracker'.falls[nf] = tracker.falls[nf]
      BY <1>8, <2>1, <2>3, <2>5
    <3> DEFINE add == IF /\ tracker.seq.sample_count # 0
                         /\ ~tracker.final[nf] /\ sig[nf] THEN 1 ELSE 0
    <3>5. tracker'.rises[nf] = tracker.rises[nf] + add
      BY <1>8, <2>1
    <3>6. add \in {0, 1} /\ (tracker.final[nf] => add = 0)
      OBVIOUS
    <3> HIDE DEF add, nf
    <3>3. CASE tracker.final[nf]
      BY <2>3, <3>1, <3>2, <3>3, <3>5, <3>6
    <3>4. CASE ~tracker.final[nf]
      BY <2>3, <2>6, <3>1, <3>2, <3>4, <3>5, <3>6
    <3> QED
      BY <2>3, <3>3, <3>4
  <2>8. tracker'.final[nf] => tracker'.final["pressure_visible"]
    BY <1>3, <1>6
  <2>9. session'.base = session.base
    BY DEF IInv, TypeOK, Session
  <2>10. NarrowSinceBaseline'
    BY <1>3, <1>6, <2>9 DEF NarrowSinceBaseline
  <2> QED
    BY <2>7, <2>8, <2>10 DEF NarrowLatches
<1> QED
  BY <1>11, <1>12, <1>13, <1>14, <1>15 DEF IInv, Safe

-----------------------------------------------------------------------------
\* Every call keeps the invariant: it resets, keeps or extends the summaries.
LEMMA InvariantStep == IInv /\ [Next]_vars => IInv'
<1> SUFFICES ASSUME IInv, [Next]_vars PROVE IInv'
  OBVIOUS
<1>1. TypeOK'
  BY TypeStep DEF IInv
<1>2. Reset' => IInv'
  BY <1>1, ResetSafe, PTL
<1>3. CASE BundleInit
  BY <1>2, <1>3 DEF BundleInit, Reset, bundle_init, session_init
<1>4. CASE BundlePrime
  BY <1>2, <1>4 DEF BundlePrime, Reset, bundle_init, session_init
<1>5. CASE BundlePrimeFails
  <2>1. CASE bundle.initialised
    BY <1>1, <1>5, <2>1, KeptSafe DEF BundlePrimeFails, session_init
  <2>2. CASE ~bundle.initialised
    BY <1>2, <1>5, <2>2 DEF BundlePrimeFails, Reset, bundle_init, session_init
  <2> QED
    BY <2>1, <2>2
<1>6. CASE BundlePoll
  BY <1>1, <1>6, PollSafe DEF BundlePoll
<1>7. CASE BundlePollRefused
  BY <1>1, <1>7, KeptSafe DEF BundlePollRefused
<1>8. CASE BundlePollFails
  <2>1. kernel' = kernel \/ kernel'.narrow >= kernel.narrow
    BY <1>8, ReadType DEF BundlePollFails, IInv, Cumulative
  <2> QED
    BY <1>1, <1>8, <2>1, KeptSafe DEF BundlePollFails
<1>9. CASE UNCHANGED vars
  BY <1>1, <1>9, KeptSafe DEF vars
<1> QED
  BY <1>3, <1>4, <1>5, <1>6, <1>7, <1>8, <1>9 DEF Next

\* The safety properties of the bundle together, for any readings and bounds:
\* its summaries agree, account for every generation, balance their edges,
\* fit one set of samples, and latch narrow feedback.
THEOREM SafetyCorrect == Spec => [](SummariesAgree /\ GenerationsAccounted
                                    /\ CountsConsistent)
<1>1. Init => Reset
  BY DEF Init, Reset, bundle_init, session_init
<1>2. IInv => SummariesAgree /\ GenerationsAccounted /\ CountsConsistent
  BY DEF IInv, Safe, CountsConsistent
<1> QED
  BY <1>1, <1>2, TypeCorrect, ResetSafe, InvariantStep, PTL DEF Spec

\* The generations a session gives out are those of the views in the log,
\* in order and without a gap: a poll that fails uses none up.
THEOREM GenerationsCorrect == Spec => []GenerationsAccounted
BY SafetyCorrect, PTL

\* The counts of the observer and the edges of the tracker are those of one
\* sequence of views.
THEOREM CountsCorrect == Spec => []CountsConsistent
BY SafetyCorrect, PTL

\* A failing call never touches what the caller holds, and no view comes from
\* a session that is not primed.
THEOREM FailuresCorrect == Spec => FailuresKeepSummaries
<1> DEFINE A == /\ rc' # "0" /\ bundle.initialised
                     => UNCHANGED <<observer, tracker, bundle, log>>
                /\ rc' \in {"EIO", "ENXIO"} /\ ~session.primed
                     => ~session'.primed
                /\ Len(log') > Len(log)
                     => session.primed /\ session'.base = session.base
<1>1. TypeOK /\ [Next]_vars => [A]_vars
  <2> SUFFICES ASSUME TypeOK, Next PROVE A
    OBVIOUS
  <2>1. Len(log) \in Nat /\ Len(<<>>) = 0
    BY DEF TypeOK
  <2>2. CASE BundleInit
    BY <2>1, <2>2 DEF BundleInit
  <2>3. CASE BundlePrime
    BY <2>1, <2>3 DEF BundlePrime
  <2>4. CASE BundlePrimeFails
    BY <2>1, <2>4 DEF BundlePrimeFails, session_init
  <2>5. CASE BundlePoll
    BY <2>5 DEF BundlePoll, TypeOK, Session
  <2>6. CASE BundlePollRefused
    BY <2>1, <2>6 DEF BundlePollRefused
  <2>7. CASE BundlePollFails
    BY <2>1, <2>7 DEF BundlePollFails
  <2> QED
    BY <2>2, <2>3, <2>4, <2>5, <2>6, <2>7 DEF Next
<1> QED
  BY <1>1, TypeCorrect, PTL DEF Spec, FailuresKeepSummaries

-----------------------------------------------------------------------------
(* The replay. What the C code adds to a count, a maximum or a flag for one  *)
(* more view is what one more view adds to the replay of the whole list.    *)

\* The indexes of a list at which something holds; one more index adds itself.
LEMMA CountOneMore ==
  ASSUME NEW n \in Nat, NEW A, NEW B, NEW more \in BOOLEAN,
         A \subseteq 1..n,
         B = A \cup (IF more THEN {n + 1} ELSE {})
  PROVE  /\ IsFiniteSet(A)
         /\ Cardinality(A) \in Nat
         /\ Cardinality(B) = Cardinality(A) + (IF more THEN 1 ELSE 0)
<1>1. IsFiniteSet(1..n)
  BY FS_Interval
<1>2. IsFiniteSet(A) /\ Cardinality(A) \in Nat
  BY <1>1, FS_Subset, FS_CardinalityType
<1>3. n + 1 \notin A
  OBVIOUS
<1>4. CASE more
  BY <1>2, <1>3, <1>4, FS_AddElement
<1>5. CASE ~more
  <2>1. B = A
    BY <1>5
  <2> QED
    BY <1>2, <1>5, <2>1
<1> QED
  BY <1>2, <1>4, <1>5

\* The library's maximum is the one member that none exceeds.
LEMMA MaxIs ==
  ASSUME NEW S \in SUBSET Nat, NEW m \in S, \A x \in S : x <= m
  PROVE  Max(S) = m
<1>1. \E x \in S : \A y \in S : x >= y
  OBVIOUS
<1>2. Max(S) \in S /\ \A y \in S : Max(S) >= y
  BY <1>1 DEF Max
<1>3. Max(S) \in Nat /\ m \in Nat /\ Max(S) >= m /\ Max(S) <= m
  BY <1>2
<1> QED
  BY <1>3

\* The largest of a field's values so far, 0 before the first.
Largest(m, values) ==
  /\ \A x \in values : x <= m
  /\ values # {} => m \in values
  /\ values = {} => m = 0

FieldOf(views, field) == {views[i][field] : i \in 1..Len(views)}

\* Each part of the state is what the replay of the list of views gives. The
\* tracker's final signals are those of the last view, which the next edge is
\* counted from.
SamplesReplayed ==
  \A s \in Signals :
    observer.samples[s]
      = Cardinality({i \in 1..Len(log) : state_map(log[i])[s]})

EdgesReplayed ==
  /\ \A s \in Signals : /\ tracker.rises[s] = count_edges(log, s).rises
                        /\ tracker.falls[s] = count_edges(log, s).falls
  /\ log # <<>> => tracker.final = state_map(log[Len(log)])

MaximaReplayed ==
  /\ Largest(observer.max_nonidle, FieldOf(log, "nonidle_workers"))
  /\ Largest(observer.max_request_backlog, FieldOf(log, "request_backlog"))
  /\ Largest(observer.max_block_backlog, FieldOf(log, "block_backlog"))

SequenceReplayed ==
  LET n == Len(log)
      q == bundle.seq
  IN /\ q.sample_count = n
     /\ n > 0 => /\ q.generation_first = log[1].generation
                 /\ q.generation_last = log[n].generation
                 /\ q.time_first = log[1].time
                 /\ q.time_last = log[n].time
     /\ q.generation_contiguous <=>
          \A i \in 1..n : log[i].generation = log[1].generation + i - 1
     /\ q.monotonic_increasing <=>
          \A i \in 1..(n - 1) : log[i].time < log[i + 1].time

Replayed ==
  SamplesReplayed /\ EdgesReplayed /\ MaximaReplayed /\ SequenceReplayed

LEMMA ResetReplayed == Reset => Replayed
<1> SUFFICES ASSUME Reset PROVE Replayed
  OBVIOUS
<1>1. /\ Len(log) = 0 /\ 1..Len(log) = {} /\ 1..(Len(log) - 1) = {}
      /\ Cardinality({}) = 0
  BY FS_EmptySet DEF Reset
<1>2. SamplesReplayed
  <2>1. \A s \in Signals : {i \in 1..Len(log) : state_map(log[i])[s]} = {}
    BY <1>1
  <2> QED
    BY <1>1, <2>1 DEF SamplesReplayed, Reset, observer_init
<1>3. EdgesReplayed
  BY <1>1 DEF EdgesReplayed, count_edges, Reset, tracker_init
<1>4. MaximaReplayed
  BY <1>1 DEF MaximaReplayed, Largest, FieldOf, Reset, observer_init
<1>5. SequenceReplayed
  BY <1>1 DEF SequenceReplayed, Reset, no_samples
<1> QED
  BY <1>2, <1>3, <1>4, <1>5 DEF Replayed

\* A value more.
LEMMA LargestMore ==
  ASSUME NEW m \in Nat, NEW values \in SUBSET Nat, NEW x \in Nat,
         Largest(m, values)
  PROVE  Largest(max_u64(m, x), values \cup {x})
  BY DEF Largest, max_u64

LEMMA FieldMore ==
  ASSUME NEW views \in Seq(View), NEW view \in View,
         NEW field \in {"nonidle_workers", "request_backlog", "block_backlog"}
  PROVE  /\ FieldOf(views, field) \in SUBSET Nat
         /\ FieldOf(Append(views, view), field)
              = FieldOf(views, field) \cup {view[field]}
<1>1. \A v \in View : v[field] \in Nat
  BY DEF View
<1>2. \A i \in 1..Len(views) : views[i] \in View
  OBVIOUS
<1>3. FieldOf(views, field) \in SUBSET Nat
  BY <1>1, <1>2 DEF FieldOf
<1> DEFINE more == Append(views, view)
           n == Len(views)
<1>4. /\ n \in Nat /\ Len(more) = n + 1 /\ more[n + 1] = view
      /\ \A i \in 1..n : more[i] = views[i]
      /\ 1..(n + 1) = (1..n) \cup {n + 1}
  OBVIOUS
<1> HIDE DEF more, n
<1>5. {more[i][field] : i \in 1..(n + 1)}
        = {views[i][field] : i \in 1..n} \cup {view[field]}
  BY <1>4
<1>6. FieldOf(more, field) = FieldOf(views, field) \cup {view[field]}
  BY <1>4, <1>5 DEF FieldOf, n
<1> QED
  BY <1>3, <1>6 DEF more

\* One poll adds one view to the list and to everything that is replayed.
LEMMA PollReplayed ==
  ASSUME TypeOK, SummariesAgree, GenerationsAccounted, Replayed,
         NEW view \in View,
         observer' = observer_update(observer, view),
         tracker' = tracker_update(tracker, view),
         bundle' = bundle_update(view),
         log' = Append(log, view),
         view.generation = Len(log) + 1
  PROVE  Replayed'
<1> DEFINE n == Len(log)
           sig == signals_of(view)
<1>1. /\ n \in Nat /\ Len(log') = n + 1 /\ log'[n + 1] = view
      /\ \A i \in 1..n : log'[i] = log[i]
      /\ log \in Seq(View) /\ (log # <<>> <=> n > 0)
  BY DEF TypeOK
<1>2. sig \in [Signals -> BOOLEAN]
  BY SignalsType
<1>3. \A i \in 1..n : state_map(log[i]) \in [Signals -> BOOLEAN]
  BY <1>1, SignalsType DEF state_map
<1>4. tracker.seq = bundle.seq /\ observer.seq = bundle.seq
      /\ bundle.seq.sample_count = n
  BY DEF SummariesAgree, GenerationsAccounted
<1> HIDE DEF n
<1>5. SamplesReplayed'
  <2> SUFFICES ASSUME NEW s \in Signals
               PROVE  observer'.samples[s] =
                 Cardinality({i \in 1..Len(log') : state_map(log'[i])[s]})
    BY DEF SamplesReplayed
  <2> DEFINE A == {i \in 1..n : state_map(log[i])[s]}
             B == {i \in 1..(n + 1) : state_map(log'[i])[s]}
  <2>1. B = A \cup (IF sig[s] THEN {n + 1} ELSE {})
    BY <1>1 DEF state_map
  <2>2. A \subseteq 1..n /\ sig[s] \in BOOLEAN
    BY <1>2
  <2> HIDE DEF A, B, sig
  <2>3. Cardinality(B) = Cardinality(A) + (IF sig[s] THEN 1 ELSE 0)
    BY <1>1, <2>1, <2>2, CountOneMore
  <2>4. observer.samples[s] = Cardinality(A)
    BY DEF Replayed, SamplesReplayed, A, n
  <2>5. observer'.samples[s] = observer.samples[s] + (IF sig[s] THEN 1 ELSE 0)
    BY DEF observer_update, sig
  <2> QED
    BY <1>1, <2>3, <2>4, <2>5 DEF B
<1>6. EdgesReplayed'
  <2>1. tracker'.final = state_map(log'[Len(log')])
    BY <1>1 DEF tracker_update, state_map
  <2> SUFFICES ASSUME NEW s \in Signals
               PROVE  /\ tracker'.rises[s] = count_edges(log', s).rises
                      /\ tracker'.falls[s] = count_edges(log', s).falls
    BY <2>1 DEF EdgesReplayed
  <2> DEFINE on(i) == state_map(log[i])[s]
             now(i) == state_map(log'[i])[s]
             A == {i \in 1..(n - 1) : ~on(i) /\ on(i + 1)}
             B == {i \in 1..n : ~now(i) /\ now(i + 1)}
             C == {i \in 1..(n - 1) : on(i) /\ ~on(i + 1)}
             D == {i \in 1..n : now(i) /\ ~now(i + 1)}
             was == tracker.final[s]
  <2>2. /\ tracker.rises[s] = Cardinality(A) /\ tracker.falls[s] = Cardinality(C)
        /\ n > 0 => was = on(n)
    BY <1>1 DEF Replayed, EdgesReplayed, count_edges, n
  <2>3. /\ count_edges(log', s).rises = Cardinality(B)
        /\ count_edges(log', s).falls = Cardinality(D)
    <3>1. Len(log') - 1 = n
      BY <1>1
    <3> QED
      BY <3>1 DEF count_edges
  <2>4. \A i \in 1..n : now(i) = on(i)
    BY <1>1
  <2>5. now(n + 1) = sig[s]
    BY <1>1 DEF state_map
  <2>6. /\ tracker'.rises[s] = tracker.rises[s] +
             (IF n # 0 /\ ~was /\ sig[s] THEN 1 ELSE 0)
        /\ tracker'.falls[s] = tracker.falls[s] +
             (IF n # 0 /\ was /\ ~sig[s] THEN 1 ELSE 0)
    BY <1>4 DEF tracker_update, count_edge
  <2> HIDE DEF on, now, was, sig
  <2>7. CASE n = 0
    <3>1. A = {} /\ B = {} /\ C = {} /\ D = {}
      BY <2>7
    <3>2. Cardinality(A) = 0 /\ Cardinality(C) = 0
      BY <3>1, FS_EmptySet
    <3>3. tracker'.rises[s] = Cardinality(B) /\ tracker'.falls[s] = Cardinality(D)
      BY <2>2, <2>6, <2>7, <3>1, <3>2
    <3> QED
      BY <2>3, <3>3
  <2>8. CASE n # 0
    <3> DEFINE rise == ~was /\ sig[s]
               fall == was /\ ~sig[s]
    <3>1. /\ B = A \cup (IF rise THEN {(n - 1) + 1} ELSE {})
          /\ D = C \cup (IF fall THEN {(n - 1) + 1} ELSE {})
      <4>1. 1..n = (1..(n - 1)) \cup {n} /\ (n - 1) + 1 = n
        BY <1>1, <2>8
      <4>2. now(n) = was /\ now(n + 1) = sig[s]
        BY <1>1, <2>2, <2>4, <2>5, <2>8
      <4>3. \A i \in 1..(n - 1) : now(i) = on(i) /\ now(i + 1) = on(i + 1)
        BY <1>1, <2>4
      <4>4. n \notin 1..(n - 1)
        BY <1>1
      <4> QED
        BY <4>1, <4>2, <4>3, <4>4
    <3>2. rise \in BOOLEAN /\ fall \in BOOLEAN /\ n - 1 \in Nat
      BY <1>1, <2>8
    <3>3. A \subseteq 1..(n - 1) /\ C \subseteq 1..(n - 1)
      OBVIOUS
    <3> HIDE DEF A, B, C, D, rise, fall
    <3>4. /\ Cardinality(B) = Cardinality(A) + (IF rise THEN 1 ELSE 0)
          /\ Cardinality(D) = Cardinality(C) + (IF fall THEN 1 ELSE 0)
      BY <3>1, <3>2, <3>3, CountOneMore
    <3>5. /\ tracker'.rises[s] = tracker.rises[s] + (IF rise THEN 1 ELSE 0)
          /\ tracker'.falls[s] = tracker.falls[s] + (IF fall THEN 1 ELSE 0)
      BY <2>6, <2>8 DEF rise, fall
    <3> QED
      BY <2>2, <2>3, <3>4, <3>5
  <2> QED
    BY <2>7, <2>8
<1>7. MaximaReplayed'
  <2>1. /\ observer.max_nonidle \in Nat /\ observer.max_request_backlog \in Nat
        /\ observer.max_block_backlog \in Nat
        /\ view.nonidle_workers \in Nat /\ view.request_backlog \in Nat
        /\ view.block_backlog \in Nat
    BY DEF TypeOK, Observer, View
  <2>2. /\ observer'.max_nonidle
             = max_u64(observer.max_nonidle, view.nonidle_workers)
        /\ observer'.max_request_backlog
             = max_u64(observer.max_request_backlog, view.request_backlog)
        /\ observer'.max_block_backlog
             = max_u64(observer.max_block_backlog, view.block_backlog)
    BY DEF observer_update
  <2>3. MaximaReplayed
    BY DEF Replayed
  <2>4. /\ FieldOf(log', "nonidle_workers")
             = FieldOf(log, "nonidle_workers") \cup {view.nonidle_workers}
        /\ FieldOf(log', "request_backlog")
             = FieldOf(log, "request_backlog") \cup {view.request_backlog}
        /\ FieldOf(log', "block_backlog")
             = FieldOf(log, "block_backlog") \cup {view.block_backlog}
        /\ FieldOf(log, "nonidle_workers") \in SUBSET Nat
        /\ FieldOf(log, "request_backlog") \in SUBSET Nat
        /\ FieldOf(log, "block_backlog") \in SUBSET Nat
    BY <1>1, FieldMore
  <2>5. /\ Largest(observer.max_nonidle, FieldOf(log, "nonidle_workers"))
        /\ Largest(observer.max_request_backlog,
                   FieldOf(log, "request_backlog"))
        /\ Largest(observer.max_block_backlog, FieldOf(log, "block_backlog"))
    BY <2>3 DEF MaximaReplayed
  <2>6. Largest(observer'.max_nonidle, FieldOf(log', "nonidle_workers"))
    <3>1. Largest(max_u64(observer.max_nonidle, view.nonidle_workers),
                  FieldOf(log, "nonidle_workers") \cup {view.nonidle_workers})
      BY <2>1, <2>4, <2>5, LargestMore
    <3> QED
      BY <2>2, <2>4, <3>1
  <2>7. Largest(observer'.max_request_backlog, FieldOf(log', "request_backlog"))
    <3>1. Largest(max_u64(observer.max_request_backlog, view.request_backlog),
                  FieldOf(log, "request_backlog") \cup {view.request_backlog})
      BY <2>1, <2>4, <2>5, LargestMore
    <3> QED
      BY <2>2, <2>4, <3>1
  <2>8. Largest(observer'.max_block_backlog, FieldOf(log', "block_backlog"))
    <3>1. Largest(max_u64(observer.max_block_backlog, view.block_backlog),
                  FieldOf(log, "block_backlog") \cup {view.block_backlog})
      BY <2>1, <2>4, <2>5, LargestMore
    <3> QED
      BY <2>2, <2>4, <3>1
  <2> QED
    BY <2>6, <2>7, <2>8 DEF MaximaReplayed
<1>8. SequenceReplayed'
  <2> DEFINE q == bundle.seq
  <2>1. bundle'.seq = sequence_view(q, view)
    BY DEF bundle_update
  <2>2. SequenceReplayed /\ q.sample_count = n
    BY <1>4 DEF Replayed
  <2>3. /\ q.generation_contiguous /\ q.generation_last = n
        /\ n > 0 => q.generation_first = 1
    BY <1>4 DEF GenerationsAccounted, n
  <2>4. /\ n > 0 => /\ q.generation_first = log[1].generation
                    /\ q.generation_last = log[n].generation
                    /\ q.time_first = log[1].time
                    /\ q.time_last = log[n].time
        /\ \A i \in 1..n : log[i].generation = log[1].generation + i - 1
        /\ q.monotonic_increasing <=>
             \A i \in 1..(n - 1) : log[i].time < log[i + 1].time
    BY <2>2, <2>3 DEF SequenceReplayed, n
  <2>5. \A i \in 1..(n + 1) : log'[i].generation = i
    BY <1>1, <2>3, <2>4 DEF n
  <2>6. q.monotonic_increasing /\ (n = 0 \/ view.time > q.time_last) <=>
          \A i \in 1..n : log'[i].time < log'[i + 1].time
    <3>1. CASE n = 0
      BY <1>1, <2>4, <3>1
    <3>2. CASE n > 0
      <4>1. /\ 1..n = (1..(n - 1)) \cup {n}
            /\ log'[n].time = q.time_last /\ log'[n + 1].time = view.time
        BY <1>1, <2>4, <3>2
      <4>2. \A i \in 1..(n - 1) : log'[i] = log[i] /\ log'[i + 1] = log[i + 1]
        BY <1>1
      <4>3. view.time \in Nat /\ q.time_last \in Nat
        BY DEF View, TypeOK, Bundle, Sequencing
      <4>4. view.time > q.time_last <=> log'[n].time < log'[n + 1].time
        BY <4>1, <4>3
      <4> QED
        BY <1>1, <2>4, <3>2, <4>1, <4>2, <4>4
    <3> QED
      BY <1>1, <3>1, <3>2
  <2>7. /\ bundle'.seq.sample_count = n + 1
        /\ bundle'.seq.generation_first =
             (IF n = 0 THEN view.generation ELSE q.generation_first)
        /\ bundle'.seq.generation_last = view.generation
        /\ bundle'.seq.time_first =
             (IF n = 0 THEN view.time ELSE q.time_first)
        /\ bundle'.seq.time_last = view.time
        /\ bundle'.seq.generation_contiguous <=>
             /\ q.generation_contiguous
             /\ n = 0 \/ view.generation = q.generation_last + 1
        /\ bundle'.seq.monotonic_increasing <=>
             q.monotonic_increasing /\ (n = 0 \/ view.time > q.time_last)
    BY <2>1, <2>2 DEF sequence_view
  <2>8. bundle'.seq.generation_contiguous
    BY <2>3, <2>7 DEF n
  <2>9. /\ bundle'.seq.generation_first = log'[1].generation
        /\ bundle'.seq.generation_last = log'[n + 1].generation
        /\ bundle'.seq.time_first = log'[1].time
        /\ bundle'.seq.time_last = log'[n + 1].time
    BY <1>1, <2>4, <2>7
  <2>10. \A i \in 1..(n + 1) :
           log'[i].generation = log'[1].generation + i - 1
    BY <1>1, <2>5
  <2>11. (n + 1) - 1 = n
    BY <1>1
  <2> HIDE DEF q
  <2> QED
    BY <1>1, <2>6, <2>7, <2>8, <2>9, <2>10, <2>11 DEF SequenceReplayed
<1> QED
  BY <1>5, <1>6, <1>7, <1>8 DEF Replayed

\* Calls either reset the summaries and the list, keep both or extend both.
LEMMA ReplayedStep == IInv /\ Replayed /\ [Next]_vars => Replayed'
<1> SUFFICES ASSUME IInv, Replayed, [Next]_vars PROVE Replayed'
  OBVIOUS
<1>1. Reset' => Replayed'
  BY ResetReplayed, PTL
<1>2. UNCHANGED <<observer, tracker, bundle, log>> => Replayed'
  <2> SUFFICES ASSUME UNCHANGED <<observer, tracker, bundle, log>>
               PROVE  Replayed'
    OBVIOUS
  <2>1. SamplesReplayed'
    BY DEF Replayed, SamplesReplayed
  <2>2. EdgesReplayed'
    BY DEF Replayed, EdgesReplayed
  <2>3. MaximaReplayed'
    BY DEF Replayed, MaximaReplayed
  <2>4. SequenceReplayed'
    BY DEF Replayed, SequenceReplayed
  <2> QED
    BY <2>1, <2>2, <2>3, <2>4 DEF Replayed
<1>3. CASE BundleInit
  BY <1>1, <1>3 DEF BundleInit, Reset, bundle_init, session_init
<1>4. CASE BundlePrime
  BY <1>1, <1>4 DEF BundlePrime, Reset, bundle_init, session_init
<1>5. CASE BundlePrimeFails
  <2>1. CASE bundle.initialised
    BY <1>2, <1>5, <2>1 DEF BundlePrimeFails
  <2>2. CASE ~bundle.initialised
    BY <1>1, <1>5, <2>2 DEF BundlePrimeFails, Reset, bundle_init, session_init
  <2> QED
    BY <2>1, <2>2
<1>6. CASE BundlePoll
  <2>1. PICK read \in Reads :
          /\ observer' = observer_update(observer, session_view(read))
          /\ tracker' = tracker_update(tracker, session_view(read))
          /\ bundle' = bundle_update(session_view(read))
          /\ log' = Append(log, session_view(read))
    BY <1>6 DEF BundlePoll
  <2>2. session_view(read) \in View
    BY AdapterType, ReadType DEF IInv, TypeOK, Session, session_view
  <2>3. session_view(read).generation = Len(log) + 1
    BY <1>6 DEF BundlePoll, IInv, Safe, GenerationsAccounted, session_view,
                adapter_build
  <2> QED
    BY <2>1, <2>2, <2>3, PollReplayed DEF IInv, Safe
<1>7. CASE BundlePollRefused \/ BundlePollFails \/ UNCHANGED vars
  BY <1>2, <1>7 DEF BundlePollRefused, BundlePollFails, vars
<1> QED
  BY <1>3, <1>4, <1>5, <1>6, <1>7 DEF Next

\* The parts together are the summary the Python replay makes.
LEMMA ReplayedSummary == IInv /\ Replayed => OnlineMatchesReplay
<1> SUFFICES ASSUME IInv, Replayed, log # <<>>
             PROVE  bundle_summary = summarize_capture(log)
  BY DEF OnlineMatchesReplay
<1> DEFINE n == Len(log)
           q == bundle.seq
           Idx == 1..n
<1>1. /\ n \in Nat /\ n > 0 /\ \A i \in Idx : log[i] \in View
      /\ bundle.seq \in Sequencing /\ tracker \in Tracker /\ observer \in Observer
  BY DEF IInv, TypeOK, Bundle
<1>2. /\ Max({log[i].nonidle_workers : i \in Idx}) = observer.max_nonidle
      /\ Max({log[i].request_backlog : i \in Idx}) = observer.max_request_backlog
      /\ Max({log[i].block_backlog : i \in Idx}) = observer.max_block_backlog
  <2>1. ASSUME NEW m, NEW field \in {"nonidle_workers", "request_backlog",
                                     "block_backlog"},
               Largest(m, FieldOf(log, field))
        PROVE  Max(FieldOf(log, field)) = m
    <3>1. FieldOf(log, field) \in SUBSET Nat
      BY <1>1 DEF FieldOf, View
    <3>2. log[1][field] \in FieldOf(log, field)
      BY <1>1 DEF FieldOf
    <3> HIDE DEF FieldOf
    <3> QED
      BY <2>1, <3>1, <3>2, MaxIs DEF Largest
  <2>2. /\ Largest(observer.max_nonidle, FieldOf(log, "nonidle_workers"))
        /\ Largest(observer.max_request_backlog, FieldOf(log, "request_backlog"))
        /\ Largest(observer.max_block_backlog, FieldOf(log, "block_backlog"))
    BY DEF Replayed, MaximaReplayed
  <2>3. /\ Max(FieldOf(log, "nonidle_workers")) = observer.max_nonidle
        /\ Max(FieldOf(log, "request_backlog")) = observer.max_request_backlog
        /\ Max(FieldOf(log, "block_backlog")) = observer.max_block_backlog
    BY <2>1, <2>2
  <2> QED
    BY <2>3 DEF FieldOf
<1>3. observer.samples
        = [s \in Signals |-> Cardinality({i \in Idx : state_map(log[i])[s]})]
  BY <1>1 DEF Replayed, SamplesReplayed, Observer
<1>4. [s \in Signals |-> [rises |-> tracker.rises[s], falls |-> tracker.falls[s]]]
        = [s \in Signals |-> count_edges(log, s)]
  BY DEF Replayed, EdgesReplayed, count_edges
<1>5. tracker.final = state_map(log[n])
  BY DEF Replayed, EdgesReplayed
<1>6. /\ q.sample_count = n
      /\ q.generation_first = log[1].generation
      /\ q.generation_last = log[n].generation
      /\ q.time_first = log[1].time
      /\ q.time_last = log[n].time
      /\ q.generation_contiguous =
           \A i \in Idx : log[i].generation = log[1].generation + i - 1
      /\ q.monotonic_increasing =
           \A i \in 1..(n - 1) : log[i].time < log[i + 1].time
  BY <1>1 DEF Replayed, SequenceReplayed, Sequencing
<1> HIDE DEF q
<1> QED
  BY <1>2, <1>3, <1>4, <1>5, <1>6 DEF bundle_summary, summarize_capture, q

\* On every list of views a session can deliver, the C code's incremental
\* summary is the one the Python replay recomputes from the whole list.
THEOREM ReplayCorrect == Spec => []OnlineMatchesReplay
<1>1. Init => Reset
  BY DEF Init, Reset, bundle_init, session_init
<1>2. Init => IInv /\ Replayed
  BY <1>1, TypeInit, ResetSafe, ResetReplayed
<1> QED
  BY <1>2, InvariantStep, ReplayedStep, ReplayedSummary, PTL DEF Spec

-----------------------------------------------------------------------------
(*                                SnapshotRead                              *)

\* The counters of a capture are bounded by the kernel's, and those of the
\* base by those of any later capture.
ReadsBounded ==
  \A f \in Field, b \in Bucket :
    /\ reading[f][b] <= counted[f][b]
    /\ base # none => base.counts[f][b] <= reading[f][b]

\* The reads after which the settled counter of a pair is that of the running
\* capture.
past(i) ==
  IF i = "bucket_req_total"
  THEN {"bucket_switch_block_total", "bucket_switch_unblock_total", "done"}
  ELSE {"done"}

\* A pair that has been read shows what was owed, but for what came late; while
\* it is being read, what came late is what the kernel has counted since.
PairsRead ==
  \A i \in Issued, b \in Bucket :
    /\ next = settled_of(i) => counted[i][b] = reading[i][b] + late[i][b]
    /\ next \in past(i) =>
         owed[i][b] = reading[i][b] - reading[settled_of(i)][b] + late[i][b]

\* What the session keeps is a capture of which that holds.
Tear(capture) ==
  \A i \in Issued, b \in Bucket :
    capture.owed[i][b] = capture.counts[i][b] - capture.counts[settled_of(i)][b]
                           + capture.late[i][b]

TearsKept == (base # none => Tear(base)) /\ (current # none => Tear(current))

\* A capture is kept only beside the base it is compared with.
CaptureHasBase == current # none => base # none

\* No counter of a later capture is below the base's: the saturating
\* subtraction of the adapter never hides a regress.
CountersNeverRegress ==
  current # none =>
    \A f \in Field, b \in Bucket : base.counts[f][b] <= current.counts[f][b]

\* The properties speak of finished captures only; while one runs, what they
\* promise rests on the part of it read so far.
ReadInv ==
  /\ ReadTypeOK
  /\ ReadsBounded
  /\ PairsRead
  /\ CaptureHasBase
  /\ TearsKept
  /\ CountersNeverRegress

-----------------------------------------------------------------------------
\* The initial state satisfies the invariant.
LEMMA ReadInitInv == ReadInit => ReadInv
<1> SUFFICES ASSUME ReadInit PROVE ReadInv
  OBVIOUS
<1> USE DEF ReadInit
<1>1. ReadTypeOK
  BY DEF ReadTypeOK, Counts, PerIssued, zero, none, Field, Issued, Settled,
     settled_of
<1>2. ReadsBounded
  BY DEF ReadsBounded, zero, none
<1>3. PairsRead
  BY DEF PairsRead, past, settled_of
<1>4. CaptureHasBase /\ TearsKept /\ CountersNeverRegress
  BY DEF CaptureHasBase, TearsKept, CountersNeverRegress
<1> QED
  BY <1>1, <1>2, <1>3, <1>4 DEF ReadInv

\* The two pairs have different counters.
LEMMA Pairs ==
  /\ \A i \in Issued : i \in Field /\ settled_of(i) \in Field /\ i # settled_of(i)
  /\ \A i, j \in Issued : settled_of(i) = settled_of(j) => i = j
  /\ \A i, j \in Issued : settled_of(i) # j
  /\ \A i \in Issued : settled_of(i) \notin past(i)
  BY DEF Issued, Settled, Field, settled_of, past

\* What the session keeps is not disturbed by a running capture.
LEMMA KeptStays ==
  ASSUME ReadInv, UNCHANGED <<base, current>>
  PROVE  CaptureHasBase' /\ TearsKept' /\ CountersNeverRegress'
BY DEF ReadInv, CaptureHasBase, TearsKept, Tear, CountersNeverRegress

\* A counter grows, and only up to what it settles: the running capture keeps
\* all it has read, and what is issued between its two reads is late.
LEMMA CountsInv ==
  ASSUME ReadInv, NEW f \in Field, NEW b \in Bucket, KernelCounts(f, b)
  PROVE  ReadInv'
<1> USE DEF KernelCounts, ReadInv
<1>1. counted' \in Counts
  BY DEF ReadTypeOK, Counts
<1>2. \A g \in Field, c \in Bucket :
        /\ counted[g][c] \in Nat
        /\ counted'[g][c] = IF g = f /\ c = b THEN counted[g][c] + 1
                           ELSE counted[g][c]
  BY DEF ReadTypeOK, Counts
<1>3. ASSUME NEW i \in Issued, NEW c \in Bucket
      PROVE  counted'[settled_of(i)][c] <= counted'[i][c]
  <2>1. counted[settled_of(i)][c] <= counted[i][c]
    BY DEF ReadTypeOK
  <2>2. f = settled_of(i) => counted[f][b] < counted[i][b]
    OBVIOUS
  <2> QED
    BY <1>2, <2>1, <2>2, Pairs
<1>4. \A i \in Issued, c \in Bucket :
        /\ late[i][c] \in Nat
        /\ late'[i][c] = IF i = f /\ next = settled_of(f) /\ c = b
                        THEN late[i][c] + 1 ELSE late[i][c]
  BY DEF ReadTypeOK, PerIssued
<1>5. ReadTypeOK'
  <2>1. late' \in PerIssued
    <3>1. CASE f \in Issued /\ next = settled_of(f)
      BY <3>1 DEF ReadTypeOK, PerIssued
    <3>2. CASE ~(f \in Issued /\ next = settled_of(f))
      BY <3>2 DEF ReadTypeOK
    <3> QED
      BY <3>1, <3>2
  <2> QED
    BY <1>1, <1>3, <2>1 DEF ReadTypeOK
<1>6. ReadsBounded'
  BY <1>2 DEF ReadsBounded, ReadTypeOK, Counts
<1>7. PairsRead'
  <2> SUFFICES ASSUME NEW i \in Issued, NEW c \in Bucket
               PROVE  /\ next = settled_of(i) =>
                           counted'[i][c] = reading[i][c] + late'[i][c]
                      /\ next \in past(i) =>
                           owed[i][c] = reading[i][c]
                             - reading[settled_of(i)][c] + late'[i][c]
    BY DEF PairsRead
  <2>1. /\ reading[i][c] \in Nat
        /\ counted'[i][c] = IF i = f /\ c = b THEN counted[i][c] + 1
                           ELSE counted[i][c]
    BY <1>2, Pairs DEF ReadTypeOK, Counts
  <2>2. next \in past(i) => late'[i][c] = late[i][c]
    BY <1>4, Pairs
  <2>3. next = settled_of(i) =>
          late'[i][c] = IF i = f /\ c = b THEN late[i][c] + 1 ELSE late[i][c]
    BY <1>4
  <2>4. /\ next = settled_of(i) => counted[i][c] = reading[i][c] + late[i][c]
        /\ next \in past(i) =>
             owed[i][c] = reading[i][c] - reading[settled_of(i)][c] + late[i][c]
    BY DEF PairsRead
  <2> QED
    BY <1>2, <1>4, <2>1, <2>2, <2>3, <2>4
<1> QED
  BY <1>5, <1>6, <1>7, KeptStays

\* Reading an issued counter opens its pair, reading the settled one closes it:
\* between the two, what was issued has only grown, by what is late.
LEMMA ReadBucketsInv ==
  ASSUME ReadInv, NEW f \in Field, ReadBuckets(f)
  PROVE  ReadInv'
<1> USE DEF ReadBuckets, ReadInv
<1>1. \A g \in Field, c \in Bucket :
        /\ counted[g][c] \in Nat /\ reading[g][c] \in Nat
        /\ reading'[g][c] = IF g = f THEN counted[g][c] ELSE reading[g][c]
  BY DEF ReadTypeOK, Counts
<1>2. \A i \in Issued, c \in Bucket :
        /\ owed'[i][c] = IF f = settled_of(i) THEN counted[i][c] - counted[f][c]
                        ELSE owed[i][c]
        /\ late'[i][c] = IF f = i THEN 0 ELSE late[i][c]
        /\ late[i][c] \in Nat
  BY DEF ReadTypeOK, PerIssued
<1>3. ReadTypeOK'
  <2>1. reading' \in Counts
    BY DEF ReadTypeOK, Counts
  <2>2. \A i \in Issued, c \in Bucket :
          f = settled_of(i) => counted[i][c] - counted[f][c] \in Nat
    BY <1>1, Pairs DEF ReadTypeOK
  <2>3. owed' \in PerIssued /\ late' \in PerIssued
    BY <2>2 DEF ReadTypeOK, PerIssued
  <2>4. next' \in Field \cup {"done"}
    BY DEF following, Field, Issued, Settled
  <2> QED
    BY <2>1, <2>3, <2>4 DEF ReadTypeOK
<1>4. ReadsBounded'
  <2> SUFFICES ASSUME NEW g \in Field, NEW c \in Bucket
               PROVE  /\ reading'[g][c] <= counted'[g][c]
                      /\ base' # none => base'.counts[g][c] <= reading'[g][c]
    BY DEF ReadsBounded
  <2>1. /\ reading[g][c] <= counted[g][c]
        /\ base # none => base.counts[g][c] <= reading[g][c]
    BY DEF ReadsBounded
  <2>2. base' = base /\ counted' = counted
    OBVIOUS
  <2>3. base # none => base.counts[g][c] \in Nat
    BY DEF ReadTypeOK, Captures, Counts
  <2> HIDE DEF ReadBuckets, ReadInv
  <2> QED
    BY <1>1, <2>1, <2>2, <2>3
<1>5. ASSUME NEW i \in Issued, NEW c \in Bucket
      PROVE  /\ next' = settled_of(i) =>
                  counted[i][c] = reading'[i][c] + late'[i][c]
             /\ next' \in past(i) =>
                  owed'[i][c] = reading'[i][c] - reading'[settled_of(i)][c]
                                  + late'[i][c]
  <2>1. CASE f = i
    <3>1. next' = settled_of(i) /\ next' \notin past(i)
      BY <2>1, Pairs DEF following, settled_of, Issued
    <3> QED
      BY <1>1, <1>2, <2>1, <3>1, Pairs
  <2>2. CASE f = settled_of(i)
    <3>1. next' # settled_of(i)
      BY <2>2 DEF following, settled_of, Issued
    <3>2. counted[i][c] = reading[i][c] + late[i][c]
      BY <2>2 DEF PairsRead
    <3>3. /\ reading'[i][c] = reading[i][c]
          /\ reading'[settled_of(i)][c] = counted[f][c]
          /\ late'[i][c] = late[i][c]
          /\ owed'[i][c] = counted[i][c] - counted[f][c]
      BY <1>1, <1>2, <2>2, Pairs
    <3> QED
      BY <1>1, <1>2, <2>2, <3>1, <3>2, <3>3, Pairs
  <2>3. CASE f # i /\ f # settled_of(i)
    <3>1. next' # settled_of(i) /\ (next' \in past(i) => next \in past(i))
      BY <2>3 DEF past, following, settled_of, Field, Issued, Settled
    <3>2. /\ reading'[i][c] = reading[i][c]
          /\ reading'[settled_of(i)][c] = reading[settled_of(i)][c]
      BY <1>1, <2>3, Pairs
    <3> QED
      BY <1>2, <2>3, <3>1, <3>2 DEF PairsRead
  <2> QED
    BY <2>1, <2>2, <2>3
<1>6. PairsRead'
  BY <1>5 DEF PairsRead
<1> QED
  BY <1>3, <1>4, <1>6, KeptStays

\* A finished capture has read both pairs, and nothing in it is below the base.
LEMMA EndsInv ==
  ASSUME ReadInv, NEW primes \in BOOLEAN, CaptureEnds(primes)
  PROVE  ReadInv'
<1> USE DEF CaptureEnds, ReadInv
<1>1. /\ next = "done" /\ next' = "bucket_req_total"
      /\ UNCHANGED <<counted, events, reading, owed, late>>
  OBVIOUS
<1>2. PairsRead'
  BY <1>1 DEF PairsRead, past, settled_of
<1>3. /\ finished \in Captures
      /\ finished # none
      /\ Tear(finished)
      /\ finished.counts = reading
  <2>1. \A i \in Issued : next \in past(i)
    BY <1>1 DEF past
  <2>2. Tear(finished)
    BY <2>1 DEF PairsRead, Tear, finished
  <2>3. finished # none
    <3>1. DOMAIN finished = {"counts", "owed", "late"}
      BY DEF finished
    <3>2. DOMAIN none = {}
      BY DEF none
    <3> QED
      BY <3>1, <3>2
  <2> QED
    BY <2>2, <2>3 DEF finished, Captures, ReadTypeOK
<1> HIDE DEF finished
<1>4. \A f \in Field, b \in Bucket : reading[f][b] \in Nat
  BY DEF ReadTypeOK, Counts
<1>5. CASE primes
  <2>1. base' = finished /\ current' = none
    BY <1>5
  <2>2. ReadTypeOK'
    BY <1>1, <1>3, <2>1 DEF ReadTypeOK, Field, Issued
  <2>3. ReadsBounded'
    <3>1. base'.counts = reading
      BY <1>3, <2>1
    <3>2. \A f \in Field, b \in Bucket : base'.counts[f][b] <= reading'[f][b]
      BY <1>1, <1>4, <3>1
    <3> QED
      BY <1>1, <3>2 DEF ReadsBounded
  <2>4. CaptureHasBase' /\ TearsKept' /\ CountersNeverRegress'
    BY <1>3, <2>1 DEF CaptureHasBase, TearsKept, Tear, CountersNeverRegress
  <2> QED
    BY <1>2, <2>2, <2>3, <2>4
<1>6. CASE ~primes
  <2>1. base # none /\ base' = base /\ current' = finished
    BY <1>6
  <2>2. ReadTypeOK'
    BY <1>1, <1>3, <2>1 DEF ReadTypeOK, Field, Issued
  <2>3. ReadsBounded'
    BY <1>1, <2>1 DEF ReadsBounded
  <2>4. CaptureHasBase' /\ TearsKept' /\ CountersNeverRegress'
    BY <1>3, <2>1
       DEF ReadsBounded, CaptureHasBase, TearsKept, Tear, CountersNeverRegress
  <2> QED
    BY <1>2, <2>2, <2>3, <2>4
<1> QED
  BY <1>5, <1>6

\* A failed capture leaves nothing behind that a later one would count on.
LEMMA FailsInv ==
  ASSUME ReadInv, NEW primes \in BOOLEAN, CaptureFails(primes)
  PROVE  ReadInv'
<1> USE DEF CaptureFails, ReadInv
<1>1. /\ next' = "bucket_req_total"
      /\ UNCHANGED <<counted, events, reading, owed, late>>
  OBVIOUS
<1>2. \/ base' = none /\ current' = none
      \/ base' = base /\ current' = current
  OBVIOUS
<1>3. ReadTypeOK'
  BY <1>1, <1>2 DEF ReadTypeOK, Field, Issued
<1>4. ReadsBounded'
  BY <1>1, <1>2 DEF ReadsBounded
<1>5. PairsRead'
  BY <1>1 DEF PairsRead, past, settled_of
<1>6. CaptureHasBase' /\ TearsKept' /\ CountersNeverRegress'
  BY <1>2, KeptStays DEF CaptureHasBase, TearsKept, CountersNeverRegress
<1> QED
  BY <1>3, <1>4, <1>5, <1>6

\* Every step preserves the invariant.
LEMMA ReadStepInv == ReadInv /\ [ReadNext]_readVars => ReadInv'
<1> SUFFICES ASSUME ReadInv, [ReadNext]_readVars PROVE ReadInv'
  OBVIOUS
<1>1. CASE UNCHANGED readVars
  <2>1. ReadTypeOK' /\ ReadsBounded' /\ PairsRead'
    BY <1>1 DEF readVars, ReadInv, ReadTypeOK, ReadsBounded, PairsRead
  <2> QED
    BY <1>1, <2>1, KeptStays DEF readVars, ReadInv
<1>2. CASE ReadNext
  BY <1>2, CountsInv, ReadBucketsInv, EndsInv, FailsInv DEF ReadNext
<1> QED
  BY <1>1, <1>2

-----------------------------------------------------------------------------
\* The counters keep their types, and the kernel settles no more than was
\* issued.
THEOREM ReadTypeCorrect == ReadSpec => []ReadTypeOK
<1>1. ReadInv => ReadTypeOK
  BY DEF ReadInv
<1> QED
  BY <1>1, ReadInitInv, ReadStepInv, PTL DEF ReadSpec

\* What came late is not shown.
LEMMA NeverOverstated ==
  ASSUME ReadTypeOK, TearsKept
  PROVE  CaptureNeverOverstates
<1> SUFFICES ASSUME current # none, NEW i \in Issued, NEW b \in Bucket
             PROVE  current.counts[i][b] - current.counts[settled_of(i)][b]
                      <= current.owed[i][b]
  BY DEF CaptureNeverOverstates
<1>1. /\ current.counts[i][b] \in Nat /\ current.counts[settled_of(i)][b] \in Nat
      /\ current.late[i][b] \in Nat
  BY Pairs DEF ReadTypeOK, Captures, Counts, PerIssued
<1> QED
  BY <1>1 DEF TearsKept, Tear

\* A capture of twq_pressure_provider_read_snapshot_v1, torn as it is, never
\* shows more work outstanding than there was when it read what was settled.
THEOREM NeverOverstates == ReadSpec => []CaptureNeverOverstates
<1>1. ReadInv => CaptureNeverOverstates
  BY NeverOverstated DEF ReadInv
<1> QED
  BY <1>1, ReadInitInv, ReadStepInv, PTL DEF ReadSpec

\* The sum of a function over the buckets.
LEMMA BucketSum ==
  ASSUME NEW f \in [Bucket -> Nat]
  PROVE  /\ FoldFunction(+, 0, f) = SumFunctionOnSet(f, Bucket)
         /\ FoldFunction(+, 0, f) \in Nat
<1>1. FoldFunction(+, 0, f) = SumFunctionOnSet(f, Bucket)
  BY DEF FoldFunction, SumFunctionOnSet
<1>2. SumFunctionOnSet(f, Bucket) \in Int
  BY SumInt, ReadAssumption
<1>3. SumFunctionOnSet([b \in Bucket |-> 0], Bucket) <= SumFunctionOnSet(f, Bucket)
  BY SumMonotone, ReadAssumption
<1>4. SumFunctionOnSet([b \in Bucket |-> 0], Bucket) = 0
  BY SumZero, ReadAssumption
<1>5. SumFunctionOnSet(f, Bucket) \in Nat
  BY <1>2, <1>3, <1>4
<1> QED
  BY <1>1, <1>5, Zenon

\* In every bucket the base settles no more than it issues, and the capture
\* shows no more outstanding than was owed: so do the sums.
LEMMA BacklogBounded ==
  ReadInv => BacklogIsReal
<1> SUFFICES ASSUME ReadTypeOK, CaptureHasBase, CaptureNeverOverstates,
                    CountersNeverRegress,
                    current # none, coherent(base.counts), NEW i \in Issued
             PROVE  backlog(i, base.counts, current.counts)
                      <= FoldFunction(+, 0, current.owed[i])
  BY NeverOverstated DEF BacklogIsReal, ReadInv
<1> DEFINE s == settled_of(i)
           now == current.counts
           old == base.counts
           rise(f) == [b \in Bucket |-> delta_or_zero(now[f][b], old[f][b])]
           owing == current.owed[i]
           both == [b \in Bucket |-> rise(s)[b] + owing[b]]
           Sum(f) == SumFunctionOnSet(f, Bucket)
<1>1. /\ s \in Field /\ i \in Field
      /\ owing \in [Bucket -> Nat]
      /\ now \in Counts
  BY Pairs DEF ReadTypeOK, Captures, PerIssued
<1>2. old \in Counts
  BY DEF ReadTypeOK, Captures, CaptureHasBase
<1>3. ASSUME NEW b \in Bucket
      PROVE  /\ rise(i)[b] \in Nat /\ rise(s)[b] \in Nat /\ owing[b] \in Nat
             /\ rise(i)[b] <= both[b] /\ both[b] \in Nat
  <2>1. /\ now[i][b] \in Nat /\ now[s][b] \in Nat
        /\ old[i][b] \in Nat /\ old[s][b] \in Nat /\ owing[b] \in Nat
    BY <1>1, <1>2 DEF Counts
  <2>2. /\ now[i][b] - now[s][b] <= owing[b]
        /\ old[i][b] <= now[i][b] /\ old[s][b] <= now[s][b]
        /\ old[s][b] <= old[i][b]
    BY <1>1 DEF CaptureNeverOverstates, CountersNeverRegress, coherent
  <2>3. /\ rise(i)[b] = now[i][b] - old[i][b]
        /\ rise(s)[b] = now[s][b] - old[s][b]
    BY <2>1, <2>2 DEF delta_or_zero
  <2>4. both[b] = rise(s)[b] + owing[b]
    OBVIOUS
  <2> HIDE DEF now, old, owing, s, rise, both
  <2> QED
    BY <2>1, <2>2, <2>3, <2>4
<1>4. /\ rise(i) \in [Bucket -> Nat] /\ rise(s) \in [Bucket -> Nat]
      /\ both \in [Bucket -> Nat]
  BY <1>3
<1>5. /\ sum_bucket_deltas(i, old, now) = Sum(rise(i))
      /\ sum_bucket_deltas(s, old, now) = Sum(rise(s))
      /\ Sum(rise(i)) \in Nat /\ Sum(rise(s)) \in Nat /\ Sum(owing) \in Nat
  <2>1. /\ sum_bucket_deltas(i, old, now) = FoldFunction(+, 0, rise(i))
        /\ sum_bucket_deltas(s, old, now) = FoldFunction(+, 0, rise(s))
    BY DEF sum_bucket_deltas
  <2> HIDE DEF rise, owing, now, old, s
  <2> QED
    BY <1>1, <1>4, <2>1, BucketSum
<1>6. FoldFunction(+, 0, owing) = Sum(owing)
  BY <1>1, BucketSum
<1>7. backlog(i, old, now) = delta_or_zero(Sum(rise(i)), Sum(rise(s)))
  BY <1>5 DEF backlog
<1> HIDE DEF rise, owing, now, old, s, both, Sum
<1>8. Sum(rise(i)) <= Sum(both)
  BY <1>3, SumMonotone, ReadAssumption DEF Sum
<1>9. Sum(both) = Sum(rise(s)) + Sum(owing)
  <2>1. \A b \in Bucket : both[b] = rise(s)[b] + owing[b]
    BY DEF both
  <2> QED
    BY <1>3, <2>1, SumPlus, ReadAssumption DEF Sum
<1>10. backlog(i, old, now) <= Sum(owing)
  BY <1>5, <1>7, <1>8, <1>9 DEF delta_or_zero
<1> QED
  BY <1>10, <1>6, Zenon DEF now, old, owing

\* What a view reports as backlog against a coherent base was outstanding: two
\* saturating sums over the buckets of twq_pressure_provider_adapter.c.
THEOREM BacklogReal == ReadSpec => []BacklogIsReal
<1>1. ReadInv => BacklogIsReal
  BY BacklogBounded DEF ReadInv
<1> QED
  BY <1>1, ReadInitInv, ReadStepInv, PTL DEF ReadSpec

\* How the pieces of a pair add up in a bucket, and so in all of them.
LEMMA TearBounded ==
  ReadInv => TearBoundsView
<1> SUFFICES ASSUME ReadTypeOK, CaptureHasBase, TearsKept, CountersNeverRegress,
                    current # none, NEW i \in Issued
             PROVE  /\ backlog(i, base.counts, current.counts)
                         <= FoldFunction(+, 0, current.owed[i])
                              + FoldFunction(+, 0, base.late[i])
                    /\ FoldFunction(+, 0, current.owed[i])
                         <= backlog(i, base.counts, current.counts)
                              + FoldFunction(+, 0, base.owed[i])
                              + FoldFunction(+, 0, current.late[i])
  BY DEF TearBoundsView, ReadInv
<1> DEFINE s == settled_of(i)
           now == current.counts
           old == base.counts
           rise(f) == [b \in Bucket |-> delta_or_zero(now[f][b], old[f][b])]
           owing == current.owed[i]
           owing_then == base.owed[i]
           late_now == current.late[i]
           late_then == base.late[i]
           risen == [b \in Bucket |-> rise(i)[b] + late_now[b]]
           left == [b \in Bucket |-> risen[b] + owing_then[b]]
           settled == [b \in Bucket |-> rise(s)[b] + owing[b]]
           right == [b \in Bucket |-> settled[b] + late_then[b]]
           Sum(f) == SumFunctionOnSet(f, Bucket)
           Sums == [Bucket -> Nat]
<1>1. /\ s \in Field /\ i \in Field /\ now \in Counts /\ old \in Counts
      /\ owing \in Sums /\ owing_then \in Sums
      /\ late_now \in Sums /\ late_then \in Sums
  BY Pairs DEF ReadTypeOK, Captures, PerIssued, CaptureHasBase
<1>2. ASSUME NEW b \in Bucket
      PROVE  /\ rise(i)[b] \in Nat /\ rise(s)[b] \in Nat
             /\ rise(i)[b] + late_now[b] + owing_then[b]
                  = rise(s)[b] + owing[b] + late_then[b]
  <2>1. /\ now[i][b] \in Nat /\ now[s][b] \in Nat
        /\ old[i][b] \in Nat /\ old[s][b] \in Nat
        /\ owing[b] \in Nat /\ owing_then[b] \in Nat
        /\ late_now[b] \in Nat /\ late_then[b] \in Nat
    BY <1>1 DEF Counts
  <2>2. /\ owing[b] = now[i][b] - now[s][b] + late_now[b]
        /\ owing_then[b] = old[i][b] - old[s][b] + late_then[b]
        /\ old[i][b] <= now[i][b] /\ old[s][b] <= now[s][b]
    BY <1>1 DEF CaptureHasBase, TearsKept, Tear, CountersNeverRegress
  <2>3. /\ rise(i)[b] = now[i][b] - old[i][b]
        /\ rise(s)[b] = now[s][b] - old[s][b]
    BY <2>1, <2>2 DEF delta_or_zero
  <2> HIDE DEF now, old, owing, owing_then, late_now, late_then, s, rise
  <2> QED
    BY <2>1, <2>2, <2>3
<1>3. rise(i) \in Sums /\ rise(s) \in Sums
  BY <1>2
<1>4. /\ FoldFunction(+, 0, owing) = Sum(owing)
      /\ FoldFunction(+, 0, owing_then) = Sum(owing_then)
      /\ FoldFunction(+, 0, late_now) = Sum(late_now)
      /\ FoldFunction(+, 0, late_then) = Sum(late_then)
      /\ Sum(owing) \in Nat /\ Sum(owing_then) \in Nat
      /\ Sum(late_now) \in Nat /\ Sum(late_then) \in Nat
      /\ Sum(rise(i)) \in Nat /\ Sum(rise(s)) \in Nat
      /\ FoldFunction(+, 0, rise(i)) = Sum(rise(i))
      /\ FoldFunction(+, 0, rise(s)) = Sum(rise(s))
  <2> HIDE DEF rise, owing, owing_then, late_now, late_then, now, old, s
  <2> QED
    BY <1>1, <1>3, BucketSum
<1>5. backlog(i, old, now) = delta_or_zero(Sum(rise(i)), Sum(rise(s)))
  BY <1>4 DEF backlog, sum_bucket_deltas
<1> HIDE DEF rise, owing, owing_then, late_now, late_then, now, old, s, Sum
<1>6. /\ risen \in Sums /\ left \in Sums /\ settled \in Sums /\ right \in Sums
  BY <1>1, <1>3
<1>7. left = right
  <2>1. \A b \in Bucket : left[b] = right[b]
    BY <1>2
  <2> QED
    BY <1>6, <2>1
<1>8. /\ Sum(risen) = Sum(rise(i)) + Sum(late_now)
      /\ Sum(left) = Sum(risen) + Sum(owing_then)
      /\ Sum(settled) = Sum(rise(s)) + Sum(owing)
      /\ Sum(right) = Sum(settled) + Sum(late_then)
  <2>1. \A b \in Bucket : /\ risen[b] = rise(i)[b] + late_now[b]
                         /\ left[b] = risen[b] + owing_then[b]
                         /\ settled[b] = rise(s)[b] + owing[b]
                         /\ right[b] = settled[b] + late_then[b]
    OBVIOUS
  <2> HIDE DEF risen, left, settled, right
  <2>2. Sum(risen) = Sum(rise(i)) + Sum(late_now)
    BY <1>1, <1>3, <1>6, <2>1, SumPlus, ReadAssumption DEF Sum
  <2>3. Sum(left) = Sum(risen) + Sum(owing_then)
    BY <1>1, <1>3, <1>6, <2>1, SumPlus, ReadAssumption DEF Sum
  <2>4. Sum(settled) = Sum(rise(s)) + Sum(owing)
    BY <1>1, <1>3, <1>6, <2>1, SumPlus, ReadAssumption DEF Sum
  <2>5. Sum(right) = Sum(settled) + Sum(late_then)
    BY <1>1, <1>3, <1>6, <2>1, SumPlus, ReadAssumption DEF Sum
  <2> QED
    BY <2>2, <2>3, <2>4, <2>5
<1> HIDE DEF risen, left, settled, right
<1>9. Sum(rise(i)) + Sum(late_now) + Sum(owing_then)
        = Sum(rise(s)) + Sum(owing) + Sum(late_then)
  BY <1>7, <1>8
<1>10. /\ backlog(i, old, now) <= Sum(owing) + Sum(late_then)
       /\ Sum(owing) <= backlog(i, old, now) + Sum(owing_then) + Sum(late_now)
  <2>1. \A a, b, c, d, e, f \in Nat :
          a + b + c = d + e + f =>
            /\ delta_or_zero(a, d) <= e + f
            /\ e <= delta_or_zero(a, d) + c + b
    BY DEF delta_or_zero
  <2> DEFINE a == Sum(rise(i))
             b == Sum(late_now)
             c == Sum(owing_then)
             d == Sum(rise(s))
             e == Sum(owing)
             f == Sum(late_then)
  <2>2. a \in Nat /\ b \in Nat /\ c \in Nat /\ d \in Nat /\ e \in Nat /\ f \in Nat
    BY <1>4
  <2>3. a + b + c = d + e + f /\ backlog(i, old, now) = delta_or_zero(a, d)
    BY <1>5, <1>9
  <2> HIDE DEF a, b, c, d, e, f
  <2>4. /\ delta_or_zero(a, d) <= e + f
        /\ e <= delta_or_zero(a, d) + c + b
    BY <2>1, <2>2, <2>3
  <2> QED
    BY <2>3, <2>4 DEF b, c, e, f
<1> QED
  BY <1>4, <1>10, Zenon DEF now, old, owing, owing_then, late_now, late_then

\* A view of twq_pressure_provider_adapter.c, against whatever base: it reports
\* no more than was outstanding and what the base tore, and leaves out no more
\* than the prime had outstanding and the capture tore, for any number of
\* buckets and events.
THEOREM TearCorrect == ReadSpec => []TearBoundsView
<1>1. ReadInv => TearBoundsView
  BY TearBounded DEF ReadInv
<1> QED
  BY <1>1, ReadInitInv, ReadStepInv, PTL DEF ReadSpec

-----------------------------------------------------------------------------
(*                                SnapshotSpi                               *)

\* A power of two is a number of subsets.
LEMMA PowerPositive ==
  ASSUME NEW n \in Nat
  PROVE  2^n \in Nat \ {0}
<1>1. IsFiniteSet(1..n) /\ Cardinality(1..n) = n
  BY FS_Interval
<1>2. IsFiniteSet(SUBSET (1..n)) /\ Cardinality(SUBSET (1..n)) = 2^n
  BY <1>1, FS_SUBSET
<1>3. 2^n \in Nat /\ (2^n = 0 <=> SUBSET (1..n) = {})
  BY <1>2, FS_CardinalityType, FS_EmptySet
<1> QED
  BY <1>3

LEMMA Division ==
  ASSUME NEW m \in Nat \ {0}, NEW a \in Int
  PROVE  /\ a \div m \in Int
         /\ a % m \in 0..(m - 1)
         /\ a = m * (a \div m) + (a % m)
OBVIOUS

LEMMA Multiples ==
  ASSUME NEW m \in Nat \ {0}, NEW j \in Int
  PROVE  /\ m * j \in Int
         /\ j >= 1 => m * j >= m
         /\ j <= -1 => m * j <= -m
OBVIOUS

\* Below the modulus a remainder is determined.
LEMMA Remainder ==
  ASSUME NEW m \in Nat \ {0}, NEW k \in Int, NEW d \in 0..(m - 1),
         NEW x \in Int, x = m * k + d
  PROVE  x % m = d
<1> DEFINE q == x \div m
           r == x % m
<1>1. q \in Int /\ r \in 0..(m - 1) /\ x = m * q + r
  BY Division
<1> HIDE DEF q, r
<1>2. m * (k - q) = r - d
  <2>1. m * (k - q) = m * k - m * q
    BY <1>1
  <2> QED
    BY <1>1, <2>1, Multiples
<1>3. k - q = 0
  BY <1>1, <1>2, Multiples
<1>4. r = d
  BY <1>1, <1>2, <1>3
<1> QED
  BY <1>4 DEF r

-----------------------------------------------------------------------------
\* Generations that were given out lie below the next one, and nobody else has
\* the one in a caller's snapshot.
Generations ==
  \A c \in Caller :
    /\ snapshot[c].generation < next_generation
    /\ kept[c].generation < next_generation
    /\ at[c] = "delta" => kept[c].generation < snapshot[c].generation
    /\ \A d \in Caller \ {c} :
         snapshot[c].generation # 0 =>
           /\ snapshot[c].generation # snapshot[d].generation
           /\ snapshot[c].generation # kept[d].generation

\* What a caller captures was captured after what it keeps.
Order ==
  \A c \in Caller :
    /\ kept[c].of.capture <= captures
    /\ kept[c].of.requested <= requested
    /\ at[c] = "fill" => /\ kept[c].of.capture < preview[c].capture
                         /\ preview[c].capture <= captures
                         /\ kept[c].of.requested <= preview[c].requested
                         /\ preview[c].requested <= requested
    /\ at[c] = "delta" => /\ kept[c].of.capture < snapshot[c].of.capture
                            /\ snapshot[c].of.capture <= captures
                            /\ kept[c].of.requested <= snapshot[c].of.requested
                            /\ snapshot[c].of.requested <= requested

\* The counters of a snapshot are the low bits of those it was made of.
LowBits ==
  \A c \in Caller :
    /\ snapshot[c].requested_workers = low(snapshot[c].of.requested)
    /\ kept[c].requested_workers = low(kept[c].of.requested)

SpiInv == SpiTypeOK /\ Generations /\ Order /\ LowBits

-----------------------------------------------------------------------------
LEMMA LowType ==
  ASSUME NEW x \in Nat
  PROVE  low(x) \in 0 .. 2^Width - 1
<1>1. 2^Width \in Nat \ {0}
  BY PowerPositive, SpiAssumption
<1> DEFINE m == 2^Width
<1>2. m \in Nat \ {0} /\ low(x) = x % m
  BY <1>1 DEF low
<1> HIDE DEF m
<1>3. low(x) \in 0..(m - 1)
  BY <1>2, Division
<1> QED
  BY <1>3 DEF m

LEMMA LowZero == low(0) = 0 /\ 0 \in 0 .. 2^Width - 1
<1>1. 2^Width \in Nat \ {0}
  BY PowerPositive, SpiAssumption
<1>2. \A m \in Nat \ {0} : 0 % m = 0
  BY Remainder
<1> QED
  BY <1>1, <1>2 DEF low

LEMMA NoSnapshotType == no_snapshot \in Snapshots /\ no_reading \in PreviewReadings
BY LowZero, SpiAssumption DEF no_snapshot, no_reading, Snapshots, PreviewReadings

LEMMA SpiInvariantInit == SpiInit => SpiInv
<1> SUFFICES ASSUME SpiInit PROVE SpiInv
  OBVIOUS
<1>1. SpiTypeOK
  BY NoSnapshotType, SpiAssumption DEF SpiInit, SpiTypeOK
<1>2. Generations
  <2>1. next_generation = 1 /\ no_snapshot.generation = 0
    BY DEF SpiInit, no_snapshot
  <2>2. no_snapshot.generation < next_generation
    BY <2>1
  <2>3. \A c \in Caller : /\ at[c] # "delta" /\ snapshot[c] = no_snapshot
                          /\ kept[c] = no_snapshot
    BY DEF SpiInit
  <2> QED
    BY <2>1, <2>2, <2>3 DEF Generations
<1>3. Order
  <2>1. /\ no_snapshot.of.capture <= captures
        /\ no_snapshot.of.requested <= requested
    BY DEF SpiInit, no_snapshot, no_reading
  <2>2. \A c \in Caller : at[c] # "delta" /\ at[c] # "fill"
                          /\ kept[c] = no_snapshot
    BY DEF SpiInit
  <2> QED
    BY <2>1, <2>2 DEF Order
<1>4. LowBits
  BY LowZero DEF SpiInit, LowBits, no_snapshot, no_reading
<1> QED
  BY <1>1, <1>2, <1>3, <1>4 DEF SpiInv

LEMMA KernelStep ==
  ASSUME SpiInv, KernelRequests
  PROVE  SpiInv'
<1>1. /\ requested' \in 0..MaxRequests /\ requested <= requested'
      /\ UNCHANGED <<captures, next_generation, at, preview, snapshot, kept>>
  BY SpiAssumption DEF SpiInv, SpiTypeOK, KernelRequests
<1>2. SpiTypeOK'
  BY <1>1 DEF SpiInv, SpiTypeOK
<1>3. Generations' /\ LowBits'
  BY <1>1 DEF SpiInv, Generations, LowBits, low
<1>4. Order'
  <2>1. \A c \in Caller : /\ kept[c].of.requested \in Nat
                          /\ preview[c].requested \in Nat
                          /\ snapshot[c].of.requested \in Nat
    BY DEF SpiInv, SpiTypeOK, Snapshots, PreviewReadings
  <2>2. requested \in Nat /\ requested' \in Nat
    BY <1>1, SpiAssumption DEF SpiInv, SpiTypeOK
  <2> QED
    BY <1>1, <2>1, <2>2 DEF SpiInv, Order
<1> QED
  BY <1>2, <1>3, <1>4 DEF SpiInv

LEMMA CaptureStep ==
  ASSUME SpiInv, NEW c \in Caller, Capture(c)
  PROVE  SpiInv'
<1> DEFINE now == [requested |-> requested, capture |-> captures']
<1>1. /\ captures < MaxCaptures /\ captures' = captures + 1
      /\ snapshot' = [snapshot EXCEPT ![c] = no_snapshot]
      /\ preview' = [preview EXCEPT ![c] = now]
      /\ at' = [at EXCEPT ![c] = "fill"]
      /\ UNCHANGED <<requested, next_generation, kept>>
  BY DEF Capture
<1>2. captures \in Nat /\ captures' \in 0..MaxCaptures
  BY <1>1, SpiAssumption DEF SpiInv, SpiTypeOK
<1>3. now \in PreviewReadings
  BY <1>2 DEF SpiInv, SpiTypeOK, PreviewReadings
<1>4. SpiTypeOK'
  BY <1>1, <1>2, <1>3, NoSnapshotType DEF SpiInv, SpiTypeOK
<1>5. \A d \in Caller : snapshot'[d] = IF d = c THEN no_snapshot ELSE snapshot[d]
  BY <1>1 DEF SpiInv, SpiTypeOK
<1>6. Generations'
  <2>1. no_snapshot.generation = 0 /\ 0 < next_generation
    BY DEF SpiInv, SpiTypeOK, no_snapshot
  <2>2. \A d \in Caller : at'[d] = "delta" => d # c /\ at[d] = "delta"
    BY <1>1 DEF SpiInv, SpiTypeOK
  <2> QED
    BY <1>1, <1>5, <2>1, <2>2 DEF SpiInv, Generations
<1>7. Order'
  <2>1. \A d \in Caller :
          /\ d # c => at'[d] = at[d] /\ preview'[d] = preview[d]
          /\ at'[c] = "fill" /\ preview'[c] = now
    BY <1>1 DEF SpiInv, SpiTypeOK
  <2>2. now.capture = captures + 1 /\ now.requested = requested
    BY <1>1
  <2>3. \A d \in Caller : /\ kept[d].of.capture \in Nat
                          /\ preview[d].capture \in Nat
                          /\ snapshot[d].of.capture \in Nat
    BY DEF SpiInv, SpiTypeOK, Snapshots, PreviewReadings
  <2>4. requested \in Nat
    BY DEF SpiInv, SpiTypeOK
  <2> HIDE DEF now
  <2> QED
    BY <1>1, <1>2, <1>5, <2>1, <2>2, <2>3, <2>4 DEF SpiInv, Order
<1>8. LowBits'
  <2>1. no_snapshot.requested_workers = low(no_snapshot.of.requested)
    BY LowZero DEF no_snapshot, no_reading
  <2> QED
    BY <1>1, <1>5, <2>1 DEF SpiInv, LowBits, low
<1> QED
  BY <1>4, <1>6, <1>7, <1>8 DEF SpiInv

LEMMA CaptureFailsStep ==
  ASSUME SpiInv, NEW c \in Caller, PreviewFails(c)
  PROVE  SpiInv'
<1>1. /\ at[c] = "call"
      /\ snapshot' = [snapshot EXCEPT ![c] = no_snapshot]
      /\ UNCHANGED <<requested, captures, next_generation, at, preview,
                     kept>>
  BY DEF PreviewFails
<1>2. SpiTypeOK'
  BY <1>1, NoSnapshotType DEF SpiInv, SpiTypeOK
<1>3. \A d \in Caller : snapshot'[d] = IF d = c THEN no_snapshot ELSE snapshot[d]
  BY <1>1 DEF SpiInv, SpiTypeOK
<1>4. Generations'
  <2>1. no_snapshot.generation = 0 /\ 0 < next_generation
    BY DEF SpiInv, SpiTypeOK, no_snapshot
  <2> QED
    BY <1>1, <1>3, <2>1 DEF SpiInv, Generations
<1>5. Order'
  BY <1>1, <1>3 DEF SpiInv, Order
<1>6. LowBits'
  <2>1. no_snapshot.requested_workers = low(no_snapshot.of.requested)
    BY LowZero DEF no_snapshot, no_reading
  <2> QED
    BY <1>1, <1>3, <2>1 DEF SpiInv, LowBits, low
<1> QED
  BY <1>2, <1>4, <1>5, <1>6 DEF SpiInv

LEMMA FillStep ==
  ASSUME SpiInv, NEW c \in Caller, Fill(c)
  PROVE  SpiInv'
<1> DEFINE new == [generation |-> next_generation,
                   requested_workers |-> low(preview[c].requested),
                   of |-> preview[c]]
<1>1. /\ at[c] = "fill"
      /\ snapshot' = [snapshot EXCEPT ![c] = new]
      /\ next_generation' = next_generation + 1
      /\ at' = [at EXCEPT ![c] = "delta"]
      /\ UNCHANGED <<requested, captures, preview, kept>>
  BY DEF Fill
<1>2. /\ preview[c] \in PreviewReadings /\ next_generation \in Nat \ {0}
      /\ preview[c].requested \in Nat
  BY DEF SpiInv, SpiTypeOK, PreviewReadings
<1>3. new \in Snapshots
  BY <1>2, LowType DEF Snapshots
<1>4. SpiTypeOK'
  BY <1>1, <1>2, <1>3 DEF SpiInv, SpiTypeOK
<1>5. /\ new.generation = next_generation /\ new.of = preview[c]
      /\ new.requested_workers = low(new.of.requested)
  OBVIOUS
<1> HIDE DEF new
<1>6. \A d \in Caller : /\ snapshot'[d] = IF d = c THEN new ELSE snapshot[d]
                        /\ at'[d] = IF d = c THEN "delta" ELSE at[d]
  BY <1>1 DEF SpiInv, SpiTypeOK
<1>7. Generations'
  <2>1. \A d \in Caller : snapshot[d].generation \in Nat
                          /\ kept[d].generation \in Nat
    BY DEF SpiInv, SpiTypeOK, Snapshots
  <2> QED
    BY <1>1, <1>2, <1>5, <1>6, <2>1 DEF SpiInv, Generations
<1>8. Order'
  BY <1>1, <1>5, <1>6 DEF SpiInv, Order
<1>9. LowBits'
  BY <1>1, <1>5, <1>6 DEF SpiInv, LowBits, low
<1> QED
  BY <1>4, <1>7, <1>8, <1>9 DEF SpiInv

LEMMA TakeDeltaStep ==
  ASSUME SpiInv, NEW c \in Caller, TakeDelta(c)
  PROVE  SpiInv'
<1>1. /\ at[c] = "delta"
      /\ kept' = [kept EXCEPT ![c] = snapshot[c]]
      /\ at' = [at EXCEPT ![c] = "call"]
      /\ UNCHANGED <<requested, captures, next_generation, preview, snapshot>>
  BY DEF TakeDelta
<1>2. snapshot[c] \in Snapshots
  BY DEF SpiInv, SpiTypeOK
<1>3. SpiTypeOK'
  BY <1>1, <1>2 DEF SpiInv, SpiTypeOK
<1>4. \A d \in Caller : /\ kept'[d] = IF d = c THEN snapshot[c] ELSE kept[d]
                        /\ at'[d] = IF d = c THEN "call" ELSE at[d]
  BY <1>1 DEF SpiInv, SpiTypeOK
<1>5. Generations'
  BY <1>1, <1>4 DEF SpiInv, Generations
<1>6. Order'
  BY <1>1, <1>4 DEF SpiInv, Order
<1>7. LowBits'
  BY <1>1, <1>4 DEF SpiInv, LowBits, low
<1> QED
  BY <1>3, <1>5, <1>6, <1>7 DEF SpiInv

LEMMA SpiInvariantStep == SpiInv /\ [SpiNext]_spiVars => SpiInv'
<1> SUFFICES ASSUME SpiInv, [SpiNext]_spiVars PROVE SpiInv'
  OBVIOUS
<1>1. CASE UNCHANGED spiVars
  BY <1>1 DEF spiVars, SpiInv, SpiTypeOK, Generations, Order, LowBits, low,
     Snapshots, PreviewReadings
<1> QED
  BY <1>1, KernelStep, CaptureStep, CaptureFailsStep, FillStep, TakeDeltaStep
     DEF SpiNext

LEMMA Invariant == SpiSpec => []SpiInv
BY SpiInvariantInit, SpiInvariantStep, PTL DEF SpiSpec

-----------------------------------------------------------------------------
\* The compact snapshots fit their width and the callers their bounds.
THEOREM SpiTypeCorrect == SpiSpec => []SpiTypeOK
<1>1. SpiInv => SpiTypeOK
  BY DEF SpiInv
<1> QED
  BY <1>1, Invariant, PTL

\* A generation names one snapshot of one caller, and a caller's snapshots come
\* in the order of their captures, for any number of threads in the SPI.
THEOREM SpiGenerationsCorrect == SpiSpec => []GenerationsNameSnapshots
<1>1. SpiInv => GenerationsNameSnapshots
  <2> SUFFICES ASSUME SpiInv, NEW c \in Caller
               PROVE  /\ at[c] # "delta" \/ snapshot[c].generation > 0
                      /\ at[c] = "delta" =>
                           /\ kept[c].generation < snapshot[c].generation
                           /\ kept[c].of.capture < snapshot[c].of.capture
                      /\ \A d \in Caller \ {c} :
                           snapshot[c].generation # 0 =>
                             snapshot[c].generation \notin
                               {snapshot[d].generation, kept[d].generation}
    BY DEF GenerationsNameSnapshots
  <2>1. kept[c].generation \in Nat /\ snapshot[c].generation \in Nat
    BY DEF SpiInv, SpiTypeOK, Snapshots
  <2> QED
    BY <2>1 DEF SpiInv, Generations, Order
<1> QED
  BY <1>1, Invariant, PTL

\* The delta of two compact snapshots is exact whether or not the counter
\* wrapped between them, for any width.
THEOREM DeltasCorrect == SpiSpec => []DeltasSurviveWrap
<1>1. SpiInv => DeltasSurviveWrap
  <2> SUFFICES ASSUME SpiInv, NEW c \in Caller, at[c] = "delta",
                      snapshot[c].of.requested - kept[c].of.requested < 2^Width
               PROVE  wrapping_delta(snapshot[c].requested_workers,
                                     kept[c].requested_workers)
                        = snapshot[c].of.requested - kept[c].of.requested
    BY DEF DeltasSurviveWrap
  <2> DEFINE m == 2^Width
             a == snapshot[c].of.requested
             b == kept[c].of.requested
  <2>1. m \in Nat \ {0}
    BY PowerPositive, SpiAssumption
  <2>2. a \in Nat /\ b \in Nat /\ b <= a /\ a - b < m
    BY DEF SpiInv, SpiTypeOK, Snapshots, PreviewReadings, Order
  <2>3. /\ snapshot[c].requested_workers = a % m
        /\ kept[c].requested_workers = b % m
    BY DEF SpiInv, LowBits, low
  <2>4. wrapping_delta(snapshot[c].requested_workers, kept[c].requested_workers)
          = ((a % m) + m - (b % m)) % m
    BY <2>3 DEF wrapping_delta
  <2> HIDE DEF m, a, b
  <2>5. ((a % m) + m - (b % m)) % m = a - b
    <3> DEFINE k == 1 + (b \div m) - (a \div m)
               x == (a % m) + m - (b % m)
    <3>1. /\ a \div m \in Int /\ a % m \in Int /\ a = m * (a \div m) + (a % m)
          /\ b \div m \in Int /\ b % m \in Int /\ b = m * (b \div m) + (b % m)
      BY <2>1, <2>2, Division
    <3>2. \A p, q, r, s \in Int :
            r + m - s = m * (1 + q - p) + ((m * p + r) - (m * q + s))
      BY <2>1
    <3>3. x = m * k + (a - b)
      <4> DEFINE p == a \div m
                 r == a % m
                 q == b \div m
                 s == b % m
      <4>1. /\ p \in Int /\ q \in Int /\ r \in Int /\ s \in Int
            /\ a = m * p + r /\ b = m * q + s
            /\ x = r + m - s /\ k = 1 + q - p
        BY <3>1
      <4> HIDE DEF p, q, r, s, x, k
      <4> QED
        BY <3>2, <4>1
    <3>4. k \in Int /\ x \in Int /\ a - b \in 0..(m - 1)
      BY <2>1, <2>2, <3>1
    <3> HIDE DEF k, x
    <3>5. x % m = a - b
      BY <2>1, <3>3, <3>4, Remainder
    <3> QED
      BY <3>5 DEF x
  <2> QED
    BY <2>4, <2>5 DEF a, b, m
<1> QED
  BY <1>1, Invariant, PTL
=============================================================================
