----------------------------- MODULE PressureOps -----------------------------
(***************************************************************************)
(* The data of the pressure-provider stack and the pure functions over it:  *)
(* two raw snapshots become a view (twq_pressure_provider_adapter.c), and a *)
(* view updates an observer, a tracker and the sequencing header that the   *)
(* observer, the tracker and the bundle each keep.                          *)
(*                                                                          *)
(* A snapshot's bucket arrays are kept as their sums: req, admit, block,    *)
(* unblock, narrow are cumulative, total and idle are current counts.       *)
(* uint64_t fields are naturals; the counters are far from 2^64.            *)
(***************************************************************************)
EXTENDS Naturals

Cumulative == {"req", "admit", "block", "unblock", "narrow"}

Counters == [req : Nat, admit : Nat, block : Nat, unblock : Nat, narrow : Nat,
             total : Nat, idle : Nat, bucket_count : Nat]

Snapshot == [counters : Counters, time : Nat]

View == [generation : Nat, time : Nat, request_backlog : Nat,
         block_backlog : Nat, should_narrow : Nat, total_workers : Nat,
         nonidle_workers : Nat, pressure_visible : BOOLEAN]

Signals == {"pressure_visible", "nonidle", "request_backlog",
            "block_backlog", "narrow_feedback", "quiescent"}

-----------------------------------------------------------------------------
(* Mutated forms, each a plausible bug of the definition it is named after;  *)
(* no specification uses them.                                              *)

max_u64_keeps_last(lhs, rhs) == rhs

count_edge_level(previous, current) == IF current THEN 1 ELSE 0

-----------------------------------------------------------------------------
\* Saturating subtraction, shared by the deltas, the backlogs and the
\* non-idle count.
delta_or_zero(current, base) == IF current < base THEN 0 ELSE current - base

\* Narrow decisions of the kernel since the baseline.
narrow_total(base, current) == delta_or_zero(current.narrow, base.narrow)

visible(request_backlog, block_backlog, narrow, nonidle) ==
  \/ request_backlog > 0
  \/ block_backlog > 0
  \/ narrow > 0
  \/ nonidle > 0

adapter_build(generation, base, current) ==
  LET b == base.counters
      c == current.counters
      request_backlog == delta_or_zero(delta_or_zero(c.req, b.req),
                                       delta_or_zero(c.admit, b.admit))
      block_backlog == delta_or_zero(delta_or_zero(c.block, b.block),
                                     delta_or_zero(c.unblock, b.unblock))
      narrow == narrow_total(b, c)
      nonidle == delta_or_zero(c.total, c.idle)
  IN [generation |-> generation, time |-> current.time,
      request_backlog |-> request_backlog, block_backlog |-> block_backlog,
      should_narrow |-> narrow, total_workers |-> c.total,
      nonidle_workers |-> nonidle,
      pressure_visible |->
        visible(request_backlog, block_backlog, narrow, nonidle)]

\* The six predicates over a view that the observer counts and the tracker
\* watches for edges.
signals_of(view) ==
  [s \in Signals |->
     \/ s = "pressure_visible" /\ view.pressure_visible
     \/ s = "nonidle" /\ view.nonidle_workers > 0
     \/ s = "request_backlog" /\ view.request_backlog > 0
     \/ s = "block_backlog" /\ view.block_backlog > 0
     \/ s = "narrow_feedback" /\ view.should_narrow > 0
     \/ s = "quiescent" /\ view.total_workers = 0 /\ view.nonidle_workers = 0]

-----------------------------------------------------------------------------
\* The sequencing fields repeated in observer, tracker and bundle.
Sequencing == [sample_count : Nat, generation_first : Nat,
               generation_last : Nat, time_first : Nat, time_last : Nat,
               generation_contiguous : BOOLEAN,
               monotonic_increasing : BOOLEAN]

no_samples ==
  [sample_count |-> 0, generation_first |-> 0, generation_last |-> 0,
   time_first |-> 0, time_last |-> 0, generation_contiguous |-> TRUE,
   monotonic_increasing |-> TRUE]

sequence_view(seq, view) ==
  LET first == seq.sample_count = 0
  IN [sample_count |-> seq.sample_count + 1,
      generation_first |->
        IF first THEN view.generation ELSE seq.generation_first,
      generation_last |-> view.generation,
      time_first |-> IF first THEN view.time ELSE seq.time_first,
      time_last |-> view.time,
      generation_contiguous |->
        /\ seq.generation_contiguous
        /\ first \/ view.generation = seq.generation_last + 1,
      monotonic_increasing |->
        /\ seq.monotonic_increasing
        /\ first \/ view.time > seq.time_last]

max_u64(lhs, rhs) == IF lhs >= rhs THEN lhs ELSE rhs

Observer == [seq : Sequencing, samples : [Signals -> Nat],
             max_nonidle : Nat, max_request_backlog : Nat,
             max_block_backlog : Nat,
             final : [{"pressure_visible", "quiescent"} -> BOOLEAN]]

observer_init ==
  [seq |-> no_samples, samples |-> [s \in Signals |-> 0],
   max_nonidle |-> 0, max_request_backlog |-> 0, max_block_backlog |-> 0,
   final |-> [s \in {"pressure_visible", "quiescent"} |-> FALSE]]

observer_update(observer, view) ==
  LET sig == signals_of(view)
  IN [seq |-> sequence_view(observer.seq, view),
      samples |-> [s \in Signals |->
                     observer.samples[s] + (IF sig[s] THEN 1 ELSE 0)],
      max_nonidle |-> max_u64(observer.max_nonidle, view.nonidle_workers),
      max_request_backlog |->
        max_u64(observer.max_request_backlog, view.request_backlog),
      max_block_backlog |->
        max_u64(observer.max_block_backlog, view.block_backlog),
      final |-> [s \in {"pressure_visible", "quiescent"} |-> sig[s]]]

Tracker == [seq : Sequencing, rises : [Signals -> Nat],
            falls : [Signals -> Nat], initial : [Signals -> BOOLEAN],
            final : [Signals -> BOOLEAN]]

tracker_init ==
  [seq |-> no_samples, rises |-> [s \in Signals |-> 0],
   falls |-> [s \in Signals |-> 0], initial |-> [s \in Signals |-> FALSE],
   final |-> [s \in Signals |-> FALSE]]

\* count_edge: what one sample adds to the rises (from FALSE to TRUE), and,
\* with the arguments swapped, to the falls.
count_edge(previous, current) == IF ~previous /\ current THEN 1 ELSE 0

tracker_update(tracker, view) ==
  LET sig == signals_of(view)
      first == tracker.seq.sample_count = 0
      Edge(from, to) == IF first THEN 0 ELSE count_edge(from, to)
  IN [seq |-> sequence_view(tracker.seq, view),
      rises |-> [s \in Signals |->
                   tracker.rises[s] + Edge(tracker.final[s], sig[s])],
      falls |-> [s \in Signals |->
                   tracker.falls[s] + Edge(sig[s], tracker.final[s])],
      initial |-> IF first THEN sig ELSE tracker.initial,
      final |-> sig]
=============================================================================
