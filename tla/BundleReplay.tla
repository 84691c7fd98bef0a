----------------------------- MODULE BundleReplay -----------------------------
(***************************************************************************)
(* The offline replay (extract-m15-pressure-provider-bundle-replay.py): it  *)
(* recomputes from the list of a session's views what the C bundle,         *)
(* observer and tracker accumulate one view at a time.                      *)
(***************************************************************************)
EXTENDS PressureBundle, FiniteSets, FiniteSetsExt

state_map(view) == signals_of(view)

\* How many neighbours in the list go from FALSE to TRUE, and back.
count_edges(views, key) ==
  LET Key(i) == state_map(views[i])[key]
      Pairs == 1..(Len(views) - 1)
  IN [rises |-> Cardinality({i \in Pairs : ~Key(i) /\ Key(i + 1)}),
      falls |-> Cardinality({i \in Pairs : Key(i) /\ ~Key(i + 1)})]

\* summarize_capture, for a list that is not empty and is in generation order.
summarize_capture(views) ==
  LET n == Len(views)
      Idx == 1..n
  IN [sample_count |-> n,
      generation_first |-> views[1].generation,
      generation_last |-> views[n].generation,
      time_first |-> views[1].time,
      time_last |-> views[n].time,
      generation_contiguous |->
        \A i \in Idx : views[i].generation = views[1].generation + i - 1,
      monotonic_increasing |->
        \A i \in 1..(n - 1) : views[i].time < views[i + 1].time,
      current |-> state_map(views[n]),
      samples |-> [s \in Signals |->
                     Cardinality({i \in Idx : state_map(views[i])[s]})],
      max_nonidle |-> Max({views[i].nonidle_workers : i \in Idx}),
      max_request_backlog |-> Max({views[i].request_backlog : i \in Idx}),
      max_block_backlog |-> Max({views[i].block_backlog : i \in Idx}),
      edges |-> [s \in Signals |-> count_edges(views, s)]]

\* The same summary, read off the bundle as bundle_probe prints it.
bundle_summary ==
  LET q == bundle.seq
  IN [sample_count |-> q.sample_count,
      generation_first |-> q.generation_first,
      generation_last |-> q.generation_last,
      time_first |-> q.time_first, time_last |-> q.time_last,
      generation_contiguous |-> q.generation_contiguous,
      monotonic_increasing |-> q.monotonic_increasing,
      current |-> tracker.final, samples |-> observer.samples,
      max_nonidle |-> observer.max_nonidle,
      max_request_backlog |-> observer.max_request_backlog,
      max_block_backlog |-> observer.max_block_backlog,
      edges |-> [s \in Signals |-> [rises |-> tracker.rises[s],
                                    falls |-> tracker.falls[s]]]]

\* The two implementations of the summary agree on every list of views a
\* session can deliver: the C code's incremental update of counts, maxima,
\* edges and continuity flags gives what the Python replay recomputes.
OnlineMatchesReplay == log # <<>> => bundle_summary = summarize_capture(log)
=============================================================================
