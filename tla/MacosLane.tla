------------------------------ MODULE MacosLane ------------------------------
(***************************************************************************)
(* A pass of the macOS lane, scripts/macos/run-m14-introspection.sh or      *)
(* run-m14-stock.sh: look at the host's symbols, run the Swift workload and *)
(* the C one, each into a log, and turn the logs into m14-run.json and a    *)
(* report or a summary.                                                     *)
(*                                                                          *)
(* The workloads (swiftsrc/twq_swift_dispatchmain_taskhandles_after_repeat  *)
(* .swift and csrc/twq_macos_dispatch_resume_repeat.c) are modelled by what *)
(* they write: at the start of each round the counters the hooks have       *)
(* reached, at its end its time, the counters again and their differences   *)
(* since its start. What the rounds do is in RepeatResume, where their sums *)
(* are right; here the C program may also find one wrong.                   *)
(***************************************************************************)
EXTENDS MacosSymbols, MacosRunJson, MacosReport

CONSTANTS
  Hosts,            \* the hosts a pass may run on
  RequestedRounds,  \* values of TWQ_REPEAT_ROUNDS
  DefaultRounds,    \* 64
  StartRound,       \* --steady-state-start-round, 8
  Traffic,          \* Traffic[lane]: what the hooks may count in a round
  Between,          \* what they may count between two rounds
  MaxLost           \* how many lines other output may run into

Lane == {"swift", "c"}

ASSUME BoundsAssumption ==
  /\ Hosts \subseteq HostType
  /\ RequestedRounds \subseteq Nat
  /\ DefaultRounds \in Nat \ {0} /\ StartRound \in Nat /\ MaxLost \in Nat
  /\ Traffic \in [Lane -> SUBSET [Metric -> Nat]]
  /\ Between \subseteq [Metric -> Nat]

VARIABLES
  pass,         \* "introspection" or "stock"
  host, hooks,  \* the host, and whether it has the introspection libraries
  requested,    \* TWQ_REPEAT_ROUNDS
  skipped,      \* lanes left out by --skip-swift and --skip-c
  stage,        \* what the script does next
  at,           \* where the workload that runs is
  counters,     \* what its hooks have counted
  round_start_counters,
  round,        \* rounds it has completed
  log,          \* log[lane]: the file the workload writes to
  lost,         \* lines that will not parse
  counted,      \* counted[lane]: what was counted in each round
  symbols, run, report, summary     \* the files written

workloadVars == <<at, counters, round_start_counters, round, log, lost, counted>>
fileVars == <<symbols, run, report, summary>>
argVars == <<pass, host, hooks, requested, skipped>>
macosVars == <<argVars, stage, workloadVars, fileVars>>

Zero == [metric \in Metric |-> 0]
Plus(a, b) == [metric \in Metric |-> a[metric] + b[metric]]
Minus(a, b) == [metric \in Metric |-> a[metric] - b[metric]]

MacosInit ==
  /\ pass \in {"introspection", "stock"}
  /\ host \in Hosts
  /\ hooks \in BOOLEAN
  /\ requested \in RequestedRounds
  /\ skipped \in IF pass = "stock" THEN SUBSET Lane ELSE {{}}
  /\ stage = "symbols"
  /\ at = "spawn"
  /\ counters = Zero /\ round_start_counters = Zero
  /\ round = 0
  /\ log = [lane \in Lane |-> <<>>]
  /\ lost = 0
  /\ counted = [lane \in Lane |-> <<>>]
  /\ symbols = Nothing /\ run = Nothing /\ report = Nothing /\ summary = Nothing

\* The stock libdispatch has no hooks to install.
available == pass = "introspection" /\ hooks

\* envInt takes what is not positive for unset; the C program takes it as it is.
rounds(lane) ==
  IF lane = "swift" /\ requested = 0 THEN DefaultRounds ELSE requested

\* What the clock says of a round; distinct for each.
elapsed_ns == round + 1

after(lane) == IF lane = "swift" THEN "c" ELSE "extract"

-----------------------------------------------------------------------------
(* The lines a workload writes.                                             *)

before_spawn ==
  <<Line("progress", "before-spawn",
         [available |-> IF available THEN 1 ELSE 0])>>

\* The Swift program has no FreeBSD counters on macOS and writes a line that
\* says so, under the phase of the line that follows it.
kernel_counters(lane, phase, head) ==
  IF lane = "swift"
  THEN <<Line("progress", phase, With(head, [sysctl_error |-> 1]))>>
  ELSE <<>>

\* At the start of a round, with now the counters the hooks have reached.
round_start(lane, now) ==
  LET head == [round |-> round, completed_rounds |-> round]
  IN <<Line("progress", "round-start", head)>>
       \o kernel_counters(lane, "round-start-counters", head)
       \o IF available
          THEN <<Line("progress", "round-start-counters", With(head, now))>>
          ELSE <<>>

\* At its end.
round_ok(lane, now) ==
  LET head == [round |-> round, completed_rounds |-> round + 1]
      dispatch ==
        IF available
        THEN <<Line("progress", "round-ok-counters", With(head, now)),
               Line("progress", "round-ok-counters-delta",
                    With(head, Minus(now, round_start_counters)))>>
        ELSE <<>>
  IN <<Line("progress", "round-ok", With(head, [elapsed_ns |-> elapsed_ns]))>>
       \o kernel_counters(lane, "round-ok-counters", head)
       \o dispatch

\* After them, when the C program finds the round's sum wrong.
round_error ==
  <<Line("error", "round-error",
         [round |-> round, completed_rounds |-> round + 1])>>

after_await(lane) ==
  <<Line("ok", "after-await", [completed_rounds |-> rounds(lane)])>>

\* The lines reach the file, one of them perhaps run into.
Write(lane, lines) ==
  \/ /\ log' = [log EXCEPT ![lane] = @ \o lines]
     /\ UNCHANGED lost
  \/ /\ lost < MaxLost
     /\ \E i \in DOMAIN lines :
          log' = [log EXCEPT ![lane] =
                    @ \o [lines EXCEPT ![i].readable = FALSE]]
     /\ lost' = lost + 1

\* The hooks count nothing until they are installed.
MayCount(traffic) == IF available THEN traffic ELSE {Zero}

-----------------------------------------------------------------------------
(* The script.                                                              *)

CheckSymbols ==
  /\ stage = "symbols"
  /\ symbols' = check_symbols(host)
  /\ stage' = "swift"
  /\ UNCHANGED <<argVars, workloadVars, run, report, summary>>

SkipLane(lane) ==
  /\ stage = lane
  /\ lane \in skipped
  /\ stage' = after(lane)
  /\ UNCHANGED <<argVars, workloadVars, fileVars>>

\* main up to the first round. Without a round the C program says "ok" at once.
Spawn(lane) ==
  /\ stage = lane
  /\ lane \notin skipped
  /\ at = "spawn"
  /\ IF rounds(lane) = 0
     THEN at' = "finish" /\ UNCHANGED <<log, lost>>
     ELSE at' = "start" /\ Write(lane, before_spawn)
  /\ UNCHANGED <<argVars, stage, counters, round_start_counters, round,
                 counted, fileVars>>

\* The snapshot at the start of a round.
BeginRound(lane) ==
  /\ stage = lane
  /\ at = "start"
  /\ \E more \in MayCount(Between) :
       /\ counters' = Plus(counters, more)
       /\ round_start_counters' = Plus(counters, more)
       /\ Write(lane, round_start(lane, Plus(counters, more)))
  /\ at' = "end"
  /\ UNCHANGED <<argVars, stage, round, counted, fileVars>>

\* The end of a round, after its tasks.
EndRound(lane) ==
  /\ stage = lane
  /\ at = "end"
  /\ \E more \in MayCount(Traffic[lane]) :
       /\ counters' = Plus(counters, more)
       /\ counted' = [counted EXCEPT ![lane] = Append(@, more)]
       /\ Write(lane, round_ok(lane, Plus(counters, more)))
  /\ round' = round + 1
  /\ at' = IF round' < rounds(lane) THEN "start" ELSE "finish"
  /\ UNCHANGED <<argVars, stage, round_start_counters, fileVars>>

Leave(next) ==
  /\ stage' = next
  /\ at' = "spawn"
  /\ counters' = Zero /\ round_start_counters' = Zero
  /\ round' = 0

Finish(lane) ==
  /\ stage = lane
  /\ at = "finish"
  /\ Write(lane, after_await(lane))
  /\ Leave(after(lane))
  /\ UNCHANGED <<argVars, counted, fileVars>>

\* The stock script goes on with what there is; set -e ends the other.
Fail(lane) == Leave(IF pass = "stock" THEN after(lane) ELSE "aborted")

\* The C program ends at a round whose sum is wrong.
RoundFails(lane) ==
  /\ stage = lane
  /\ lane = "c"
  /\ at = "end"
  /\ \E more \in MayCount(Traffic[lane]) :
       Write(lane, round_ok(lane, Plus(counters, more)) \o round_error)
  /\ Fail(lane)
  /\ UNCHANGED <<argVars, counted, fileVars>>

\* The lines that a workload writes next.
NextLines(lane) ==
  IF at = "start"
  THEN {round_start(lane, Plus(counters, more)) : more \in MayCount(Between)}
  ELSE {round_ok(lane, Plus(counters, more)) : more \in MayCount(Traffic[lane])}

\* The workload dies, perhaps in the middle of what it writes next.
Die(lane) ==
  /\ stage = lane
  /\ at \in {"start", "end"}
  /\ \/ UNCHANGED log
     \/ \E lines \in NextLines(lane) : \E k \in DOMAIN lines :
          log' = [log EXCEPT ![lane] = @ \o SubSeq(lines, 1, k)]
  /\ Fail(lane)
  /\ UNCHANGED <<argVars, counted, lost, fileVars>>

\* extract-m14-run.py; a lane that was skipped has no log.
Extract ==
  /\ stage = "extract"
  /\ run' = build_run(Restrict(log, Lane \ skipped), StartRound, symbols)
  /\ stage' = IF pass = "stock" THEN "summarize" ELSE "report"
  /\ UNCHANGED <<argVars, workloadVars, symbols, report, summary>>

\* extract-m14-introspection-report.py.
Report ==
  /\ stage = "report"
  /\ report' = build_report(log.swift, log.c, StartRound)
  /\ stage' = "done"
  /\ UNCHANGED <<argVars, workloadVars, symbols, run, summary>>

\* summarize-m14-run.py.
Summarize ==
  /\ stage = "summarize"
  /\ summary' = build_summary(run)
  /\ stage' = "done"
  /\ UNCHANGED <<argVars, workloadVars, symbols, run, report>>

MacosDone == stage \in {"done", "aborted"} /\ UNCHANGED macosVars

MacosNext ==
  \/ CheckSymbols
  \/ \E lane \in Lane : \/ SkipLane(lane) \/ Spawn(lane) \/ BeginRound(lane)
                        \/ EndRound(lane) \/ RoundFails(lane)
                        \/ Finish(lane) \/ Die(lane)
  \/ Extract \/ Report \/ Summarize
  \/ MacosDone

-----------------------------------------------------------------------------
(* Properties.                                                              *)

\* The rounds a lane has that the window asked for includes.
SteadyRounds(lane) == StartRound..(rounds(lane) - 1)

\* What was counted in some of a lane's rounds.
CountedIn(lane, included, metric) ==
  SumFunction([r \in included |-> counted[lane][r + 1][metric]])

\* The decision to stop tuning the seam rests on rounds that were run: the
\* Swift lane has steady rounds, all of them when no line was lost, what its
\* hooks counted in them is within 0.6 and 1.65 times FreeBSD's 3.21 a round,
\* and in the control's rounds that were read nothing was counted
\* (build_decision, compare_to_freebsd, steady_state_summary).
StopIsEarned ==
  (report # Nothing /\ report.decision.outcome = "stop_tuning_this_seam") =>
    LET included(lane) == report.benchmarks[lane].steady_state.included
        n == Cardinality(included("swift"))
    IN /\ n > 0
       /\ \A lane \in Lane :
            /\ included(lane) \subseteq SteadyRounds(lane)
            /\ lost = 0 => included(lane) = SteadyRounds(lane)
       /\ \A metric \in {"mainq", "poke"} :
            LET total == CountedIn("swift", included("swift"), metric) IN
            /\ 1926 * n <= 1000 * total /\ 10000 * total <= 52965 * n
            /\ CountedIn("c", included("c"), metric) = 0

\* The two extractors, which take their window from different lines and in
\* different ways, tell the same of the rounds' times: when the report has
\* them they are of rounds that m14-run.json has, of the same ones when no
\* line was lost, and then with the same statistics.
ExtractorsAgree ==
  report # Nothing =>
    \A lane \in Lane :
      LET here == report.benchmarks[lane].steady_state
          there == run.benchmarks[lane].steady_state
      IN "elapsed_ns" \in DOMAIN here.metrics =>
           /\ there # Nothing
           /\ here.included \subseteq there.included
           /\ lost = 0 =>
                /\ here.included = there.included
                /\ here.metrics.elapsed_ns = there.metrics.elapsed_ns

StartPhases == {"round-start", "round-start-counters"}

\* In m14-run.json a series can be read against its phase's "round" series:
\* it is as long, and its i-th value is the i-th line's round's, though the
\* Swift lane writes two kinds of line under "round-start-counters" and
\* "round-ok-counters" and lines may be lost (collect_round_metrics drops a key
\* that some line lacks). A line at a round's start does not count that round.
SeriesFollowRounds ==
  run # Nothing =>
    \A lane \in DOMAIN run.benchmarks :
      LET all == run.benchmarks[lane].round_metrics IN
      \A phase \in DOMAIN all : \A key \in DOMAIN all[phase] :
        LET series == all[phase][key]
            of == all[phase].round
        IN /\ DOMAIN series = DOMAIN of
           /\ key = "completed_rounds" =>
                \A i \in DOMAIN of :
                  series[i] = IF phase \in StartPhases THEN of[i] ELSE of[i] + 1
           /\ phase = "round-ok-counters-delta" /\ key \in Metric =>
                \A i \in DOMAIN of :
                  of[i] < Len(counted[lane]) =>
                    series[i] = counted[lane][of[i] + 1][key]

\* The report's two accounts of a lane fit together: no row has more than was
\* counted in its round, what the rows up to the last counters' round add up to
\* is not more than those counters, and when no line was lost that round is the
\* last row's (full_run_metrics, build_per_round).
CountersAddUp ==
  report # Nothing =>
    \A lane \in Lane :
      LET benchmark == report.benchmarks[lane]
          full == benchmark.full_run
          rows == benchmark.rows
      IN /\ \A r \in DOMAIN rows : \A metric \in Metric :
              rows[r][metric] = counted[lane][r + 1][metric]
         /\ (full # Nothing /\ DOMAIN rows # {}) =>
              /\ lost = 0 => full.round = Max(DOMAIN rows)
              /\ \A metric \in Metric :
                   SumFunction([r \in {q \in DOMAIN rows : q <= full.round} |->
                                  rows[r][metric]]) <= full[metric]

\* A lane that m14-run.json and the summary call "ok" ran all its rounds, not
\* those before it died, and when no line was lost its times are of all the
\* steady ones (terminal, summarize_steady_state, print_benchmark_summary).
OkMeansFinished ==
  run # Nothing =>
    \A lane \in DOMAIN run.benchmarks :
      LET benchmark == run.benchmarks[lane] IN
      benchmark.status = "ok" =>
        /\ Len(counted[lane]) = rounds(lane)
        /\ summary # Nothing =>
             summary.benchmarks[lane].completed_rounds = <<rounds(lane)>>
        /\ lost = 0 =>
             IF SteadyRounds(lane) = {} THEN benchmark.steady_state = Nothing
             ELSE benchmark.steady_state.included = SteadyRounds(lane)

\* A host on which more works is never told to offer less: SDK, stub names,
\* loader and dtrace can only raise a symbol's class (classify_traceability).
MoreAccessBetterClass ==
  symbols # Nothing =>
    \A other \in Hosts : \A symbol \in Symbol :
      Offers(other, host) =>
        Reach(symbols.traceability[symbol])
          <= Reach(check_symbols(other).traceability[symbol])

\* The gap to FreeBSD is measured: who reads "macOS is materially lower on
\* both" may think that macOS was looked at (build_decision's rationale).
GapIsMeasured ==
  (report # Nothing
     /\ report.decision.outcome = "freebsd_likely_still_has_coalescing_gap")
    => report.benchmarks["swift"].steady_state.included # {}

=============================================================================
