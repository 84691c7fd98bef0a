---------------------------- MODULE MacosRunJson ----------------------------
(***************************************************************************)
(* scripts/macos/extract-m14-run.py, which turns the logs of a pass into    *)
(* m14-run.json, and scripts/macos/summarize-m14-run.py, which prints it.   *)
(***************************************************************************)
EXTENDS MacosLog

-----------------------------------------------------------------------------
(* Mutated forms, each a plausible bug; nothing uses them.                  *)

\* A series kept though some events of the phase lack its key.
collect_round_metrics_gaps(lines) ==
  LET events == {i \in parse_json_lines(lines) :
                   lines[i].status = "progress" /\ "round" \in DOMAIN lines[i].data}
      of(phase) == {i \in events : lines[i].phase = phase}
  IN [phase \in {lines[i].phase : i \in events} |->
        [key \in UNION {DOMAIN lines[i].data : i \in of(phase)} |->
           [i \in {j \in of(phase) : key \in DOMAIN lines[j].data} |->
              lines[i].data[key]]]]

\* The first line of a log taken for its end.
parse_probe_log_status_first(lines) ==
  IF parse_json_lines(lines) = {} THEN "none" ELSE "ok"

-----------------------------------------------------------------------------
\* For each phase the series of each key that all its events have, in the
\* order of the rounds; the series of "round" tells which they are.
collect_round_metrics(lines) ==
  LET events == {i \in parse_json_lines(lines) :
                   lines[i].status = "progress" /\ "round" \in DOMAIN lines[i].data}
      of(phase) == {i \in events : lines[i].phase = phase}
      common(phase) ==
        {key \in UNION {DOMAIN lines[i].data : i \in of(phase)} :
           \A i \in of(phase) : key \in DOMAIN lines[i].data}
  IN [phase \in {lines[i].phase : i \in events} |->
        [key \in common(phase) |-> [i \in of(phase) |-> lines[i].data[key]]]]

\* What phase "round-ok" says of the rounds from start_round on. A name that
\* ends in _rounds is taken for the list of a phase's rounds and left out, and
\* that of completed_rounds ends so.
summarize_steady_state(round_metrics, start_round) ==
  IF "round-ok" \notin DOMAIN round_metrics THEN Nothing
  ELSE LET series == round_metrics["round-ok"]
           included == {i \in DOMAIN series.round :
                          series.round[i] >= start_round}
       IN IF included = {} THEN Nothing
          ELSE [included |-> {series.round[i] : i \in included},
                metrics |->
                  [key \in DOMAIN series \ {"completed_rounds"} |->
                     Statistics([i \in included |-> series[key][i]])]]

\* The status of the last line that is not progress, if any.
parse_probe_log_status(lines) ==
  IF terminal(lines) = Nothing THEN "none" ELSE terminal(lines).status

\* One benchmark of m14-run.json.
parse_probe_log(lines, start_round) ==
  [status |-> parse_probe_log_status(lines),
   terminal |-> terminal(lines),
   round_metrics |-> collect_round_metrics(lines),
   steady_state |->
     summarize_steady_state(collect_round_metrics(lines), start_round)]

\* The file m14-run.json: a benchmark for each log that exists.
build_run(logs, start_round, symbols) ==
  [stock_symbols |-> symbols,
   benchmarks |-> [lane \in DOMAIN logs |->
                     parse_probe_log(logs[lane], start_round)]]

\* The line printed for a benchmark; "-" is Nothing.
print_benchmark_summary(benchmark) ==
  [status |-> benchmark.status,
   completed_rounds |-> IF benchmark.terminal = Nothing THEN Nothing
                        ELSE <<benchmark.terminal.data.completed_rounds>>,
   elapsed |-> IF benchmark.steady_state = Nothing THEN Nothing
               ELSE Restrict(benchmark.steady_state.metrics, {"elapsed_ns"})]

\* What summarize-m14-run.py prints of m14-run.json.
build_summary(run) ==
  [traceability |-> run.stock_symbols.traceability,
   dtrace_accessible |-> run.stock_symbols.dtrace_accessible,
   benchmarks |-> [lane \in DOMAIN run.benchmarks |->
                     print_benchmark_summary(run.benchmarks[lane])]]
=============================================================================
