----------------------------- MODULE MacosReport -----------------------------
(***************************************************************************)
(* scripts/macos/extract-m14-introspection-report.py: from the logs of two  *)
(* workloads to a decision, stop tuning the main-queue seam or not.         *)
(*                                                                          *)
(* Of the fourteen counters the module keeps the four that decide anything: *)
(* main-queue pushes, slow pokes and continuation pushes on the default-    *)
(* overcommit root, and source pushes on the default root.                  *)
(***************************************************************************)
EXTENDS MacosLog

REQUIRED_METRICS == {"mainq", "poke", "source"}
EXTRA_METRICS == {"continuation"}
Metric == REQUIRED_METRICS \cup EXTRA_METRICS

\* FreeBSD's rates per round.
PRIMARY_FREEBSD_STEADY_STATE ==
  [mainq |-> [n |-> 321, d |-> 100], poke |-> [n |-> 321, d |-> 100]]
CONTROL_FREEBSD_STEADY_STATE == [mainq |-> Whole(0), poke |-> Whole(0)]

\* A dictionary of events by their round; the last of a round wins.
by_round(lines, events) ==
  [r \in {lines[i].data.round : i \in events} |->
     lines[Max({i \in events : lines[i].data.round = r})].data]

\* The events of a phase that have counters.
counter_events(lines, phase) ==
  {i \in phase_index(lines, phase) :
     REQUIRED_METRICS \cap DOMAIN lines[i].data # {}}

\* The counters of one such event, with its round.
metrics_of(data) ==
  Restrict(data, {"round"} \cup (Metric \cap DOMAIN data))

-----------------------------------------------------------------------------
(* Mutated forms, each a plausible bug; nothing uses them.                  *)

\* Rows made from the counters instead of their differences.
build_per_round_cumulative(lines) ==
  LET delta == by_round(lines, counter_events(lines, "round-ok-counters"))
      ok == by_round(lines, phase_index(lines, "round-ok"))
  IN [r \in DOMAIN delta |->
        With(Restrict(delta[r], Metric \cap DOMAIN delta[r]),
             IF r \in DOMAIN ok THEN Restrict(ok[r], {"elapsed_ns"})
             ELSE Nothing)]

\* A window that starts one round early.
steady_state_summary_early(rows, start_round) ==
  LET selected == {r \in DOMAIN rows : r >= start_round - 1}
      names == {key \in UNION {DOMAIN rows[r] : r \in selected} :
                  \A r \in selected : key \in DOMAIN rows[r]}
  IN [included |-> selected,
      metrics |-> [key \in names |->
                     Statistics([r \in selected |-> rows[r][key]])]]

\* The last event whether it has counters or not.
full_run_metrics_first(lines) ==
  LET counted == counter_events(lines, "round-ok-counters") IN
  IF counted = {} THEN Nothing ELSE metrics_of(lines[Min(counted)].data)

-----------------------------------------------------------------------------
\* last_counter_event: the last event that has counters; the Swift lane writes
\* two of this phase per round, one of them without.
full_run_metrics(lines) ==
  LET counted == counter_events(lines, "round-ok-counters") IN
  IF counted = {} THEN Nothing ELSE metrics_of(lines[Max(counted)].data)

\* One row per difference of counters, with the round's time if there is one.
build_per_round(lines) ==
  LET delta == by_round(lines, phase_index(lines, "round-ok-counters-delta"))
      ok == by_round(lines, phase_index(lines, "round-ok"))
  IN [r \in DOMAIN delta |->
        With(Restrict(delta[r], Metric \cap DOMAIN delta[r]),
             IF r \in DOMAIN ok THEN Restrict(ok[r], {"elapsed_ns"})
             ELSE Nothing)]

\* Only what every selected row has is summarised.
steady_state_summary(rows, start_round) ==
  LET selected == {r \in DOMAIN rows : r >= start_round}
      names == {key \in UNION {DOMAIN rows[r] : r \in selected} :
                  \A r \in selected : key \in DOMAIN rows[r]}
  IN [included |-> selected,
      metrics |-> [key \in names |->
                     Statistics([r \in selected |-> rows[r][key]])]]

\* A missing mean is read as zero.
mean_of(steady, metric) ==
  IF metric \in DOMAIN steady.metrics THEN steady.metrics[metric].mean
  ELSE Whole(0)

classify(full_run, steady) ==
  LET seen(metric) ==
        LET total == IF metric \in DOMAIN full_run THEN full_run[metric] ELSE 0
        IN IF Less(mean_of(steady, metric), Whole(total)) THEN Whole(total)
           ELSE mean_of(steady, metric)
  IN [default_receives_source_traffic |-> Less(Whole(0), seen("source")),
      default_overcommit_receives_mainq_traffic |->
        Less(Whole(0), seen("mainq")),
      default_overcommit_continuation_dominant |->
        Less(seen("mainq"), seen("continuation"))]

\* A ratio to FreeBSD's rate, or none when that is zero and macOS's is not.
ratio(macos, freebsd) ==
  IF freebsd.n # 0 THEN <<[n |-> macos.n * freebsd.d, d |-> macos.d * freebsd.n]>>
  ELSE IF macos.n = 0 THEN <<Whole(1)>> ELSE <<>>

compare_to_freebsd(steady, reference) ==
  [metric \in DOMAIN reference |->
     LET macos == mean_of(steady, metric)
         within(low, high) == \E q \in Range(ratio(macos, reference[metric])) :
                                AtMost(low, q) /\ AtMost(q, high)
     IN [macos_per_round |-> macos,
         within_1_5x |-> within([n |-> 2, d |-> 3], [n |-> 3, d |-> 2]),
         within_about_1_5x |->
           within([n |-> 60, d |-> 100], [n |-> 165, d |-> 100]),
         materially_lower_than_freebsd |->
           within(Whole(0), [n |-> 1, d |-> 2])]]

build_benchmark(lines, start_round, control) ==
  LET rows == build_per_round(lines)
      steady == steady_state_summary(rows, start_round)
      full_run == full_run_metrics(lines)
      spawned == phase_index(lines, "before-spawn")
  IN [dispatch_introspection_available |->
        spawned # {} /\ lines[Min(spawned)].data.available = 1,
      full_run |-> full_run,
      rows |-> rows,
      steady_state |-> steady,
      classification |-> classify(full_run, steady),
      terminal |-> terminal(lines),
      comparison_to_freebsd |->
        compare_to_freebsd(steady, IF control THEN CONTROL_FREEBSD_STEADY_STATE
                                   ELSE PRIMARY_FREEBSD_STEADY_STATE)]

build_decision(swift, c) ==
  LET class == swift.classification
      push == swift.comparison_to_freebsd.mainq
      poke == swift.comparison_to_freebsd.poke
      same_split == /\ class.default_receives_source_traffic
                    /\ class.default_overcommit_receives_mainq_traffic
                    /\ ~class.default_overcommit_continuation_dominant
      control_zeroish ==
        \A metric \in {"mainq", "poke"} :
          c.comparison_to_freebsd[metric].macos_per_round.n = 0
  IN [same_qualitative_split |-> same_split,
      control_supports_specificity |-> control_zeroish,
      outcome |->
        IF /\ same_split /\ control_zeroish
           /\ push.within_about_1_5x /\ poke.within_about_1_5x
          THEN "stop_tuning_this_seam"
        ELSE IF /\ push.materially_lower_than_freebsd
                /\ poke.materially_lower_than_freebsd
          THEN "freebsd_likely_still_has_coalescing_gap"
        ELSE "inconclusive"]

\* The file m14-report.json.
build_report(swift_log, c_log, start_round) ==
  LET swift == build_benchmark(swift_log, start_round, FALSE)
      c == build_benchmark(c_log, start_round, TRUE)
  IN [benchmarks |-> [swift |-> swift, c |-> c],
      decision |-> build_decision(swift, c)]
=============================================================================
