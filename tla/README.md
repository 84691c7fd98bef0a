# GCDX: specifications, model checking and proofs

GCDX brings Apple's `pthread_workqueue` to FreeBSD: a kernel interface (TWQ), a
`libthr` bridge, a `libdispatch` and a Swift runtime on top of them. The kernel,
`libthr` and `libdispatch` live elsewhere. This repository holds what measures,
observes and drives them: probe programs, the pressure provider (a stack of C
libraries that turns the kernel's counters into a view of thread pressure),
benchmarks, a harness that runs all of it in a virtual machine, and two kits of
scripts that compare the result with macOS.

This directory specifies the parts of the repository with behaviour of their own
in TLA+, checks them with TLC on small instances and proves the most important
results with TLAPS. All paths below are relative to `src/`; `twq_dispatch_probe.c`
is `csrc/twq_dispatch_probe.c`, and so on.

## 1. Inventory

### Pressure provider

A single caller owns every object; nothing in it is locked. What is hard is that
each call may fail halfway, and that the kernel counts on while it is read.

| Component | State | Operations | What makes it correct |
|---|---|---|---|
| Snapshot reader, `twq_pressure_provider_preview.c` | none but the caller's buffer | `read_snapshot_v1`: thirteen sysctls, one after the other | a torn snapshot does not show pressure that was never there |
| Adapter, `..._adapter.c` | none | `adapter_build_v1(base, current)`: saturating deltas and backlogs | what it leaves out or adds is no more than a torn base or capture explains |
| Session, `..._session.c` | baseline, next generation, primed | `init`, `prime`, `poll` | generations are neither skipped nor reused |
| Observer, `..._observer.c` | counts of samples, maxima, last flags | `init`, `update`, `poll` | counts and maxima are those of the views seen |
| Tracker, `..._tracker.c` | rising and falling edges, first and last flags | `init`, `update`, `poll` | no edge lost or counted twice |
| Bundle, `..._bundle.c` | session, observer, tracker and a current view | `init`, `prime`, `poll` | its three summaries agree, also after failures |
| Replay, `scripts/benchmarks/extract-m15-pressure-provider-bundle-replay.py` | none | recompute a summary from a list of views | equals what the C code accumulated |
| Compact snapshot SPI, `pthread_workqueue_pressure_snapshot_np.c` | an atomic generation shared by all threads | fill a snapshot with counters of 32 bits | a generation names one snapshot |
| Bridge demand, `tbbx_twq_bridge_demand.c` | none (a caller keeps the previous snapshot and demand) | the delta of a 32-bit counter; project a snapshot to a demand and two flags | deltas survive a wrap |

The session calls the reader and the adapter; the bundle calls the session and
passes its view to the observer and the tracker. The SPI calls the reader; the
bridge calls the SPI and the projection.

### Dispatch probe (`twq_dispatch_probe.c`)

One process, one mode a run. `struct dispatch_probe_state` is shared by all
callbacks: counters updated by atomic operations, a locked table of threads, and
a group pointer that is neither. Its modes:

* *group wait*: `basic`, `executor`, `after`, `executor-after` and its two
  variants, `worker-after-group`. Callbacks leave a dispatch group that the main
  thread waits for until a deadline.
* *main queue*: `main`, `main-after`, `main-roundtrip-after`, `main-group-after`.
  The last callback runs on the main queue, reports and exits.
* *repeat*: `main-executor-after-repeat` and `main-executor-resume-repeat`. Many
  rounds, each a fan-out of timers and a fan-in, through a `parent_scheduled` flag
  or a dispatch group.
* *contention*: `pressure`, `sustained`, `burst`, with a sampler thread.

Hard here: callbacks interleave at every atomic operation, timers may fire while
the loop that arms them still runs, deadlines pass while workers run on, and the
executor queue is concurrent. Correct means: what a record says is true of the
run, and the probe ends.

### Wake benchmark (`twq_workqueue_wake_bench.c`)

The main thread asks the kernel for one worker at a time; the callback publishes
under a mutex with a condition variable; main then waits until three sums, read
from three sysctls, show a pool of one idle worker. Hard: lost wake-ups, late
callbacks, a torn read of the sums. Correct: a sample is the latency of its own
request.

### macOS lane and vtable analysis (`scripts/macos`, `scripts/dtrace`)

Two kits that gather evidence on one question, whether the seam between the main
queue and the default-overcommit queue is worth tuning. The macOS lane looks at what the
host shows of the symbols, runs a Swift and a C workload under counting hooks into
log files, and turns the logs into `m14-run.json`, a summary and a report with a
decision. The D script prints addresses of root queues and objects; the analysis names them
after guessing where the library was loaded.

| Component | State and operations | What makes it correct |
|---|---|---|
| `check-m14-symbols.py` | a class for each symbol, from three tools that may be absent, fail or print nothing | more access never gives a worse class |
| `run-m14-introspection.sh`, `run-m14-stock.sh`, the workloads | the order of the steps; lanes skipped, workloads that die, log lines that other output runs into | an ok lane finished |
| `extract-m14-run.py`, `summarize-m14-run.py` | series by phase, a steady window | series fit their rounds |
| `extract-m14-introspection-report.py` | rows by round, means, ratios to FreeBSD's, a decision | "stop" is earned; both extractors agree |
| `m13-push-vtable.d`, `analyze-m13-vtable.py` | counts of addresses, an inferred slide, labels | labels are right |

Hard here: every step is a pure function, but of files that may be short, cut or missing,
and two programs read the same log in two ways.

### The rest

| Component | State and operations | Hard behaviour |
|---|---|---|
| Swift concurrency hooks, `twq_swift_concurrency_hooks.cpp` | a locked table of 256 jobs; hooks for enqueue and run, a wrapped `dispatch_async_f` | a full table, an address that is used again, a job read after it ran |
| Swift probes, `swiftsrc/` | one program per mode of Swift concurrency | the Swift runtime's scheduling |
| Workqueue and system call probes, `twq_workqueue_probe.c`, `zig/` | straight-line calls into the kernel | one thread result read after a fixed sleep |
| macOS hooks and their preparation, `twq_macos_dispatch_introspection.c` | atomic counters and a depth in interposed functions | none that the lane's results depend on but a torn snapshot |
| Elixir harness, `elixir/lib/twq_test` | a command with an inactivity time-out; the phases build, stage, run, validate | time-outs, one phase of several failing |
| Comparators and gates, `scripts/benchmarks` | pure functions of JSON files | none |
| Guest staging, donor preparation, `scripts/{bhyve,libthr,libdispatch,swift,dtrace}` | files | none |

`PROJECT.json` lists every component with its status, and under `hazards` each
place where one of these behaviours bites.

## 2. Modules

| Module | Models | Composed with |
|---|---|---|
| `PressureOps` | adapter, observer and tracker as operators on records | - |
| `PressureBundle` | session and bundle: init, prime, poll, with every refusal and failure | extends `PressureOps` |
| `BundleReplay` | the Python summary, as the reference for the C one | extends `PressureBundle` |
| `SnapshotRead` | the order in which a capture reads counters that move | extends `PressureOps` |
| `SnapshotSpi` | compact snapshots of several threads, and the deltas a thread takes between two of its own | - |
| `ProbeWorkers` | the state and the callback steps all probe modes share | - |
| `GroupWait` | a group of callbacks and the thread that waits for them | extends `ProbeWorkers` |
| `NestedWait` | all group-wait modes as processes: the wait in main, or in a root worker that main waits for | extends `GroupWait` |
| `MainModes` | main-queue modes | extends `ProbeWorkers` |
| `RepeatRounds` | abstract: rounds that each add the same sum, then "ok" | - |
| `RepeatResume`, `RepeatAfter` | the two repeat modes | each implements `RepeatRounds` |
| `WakeBench` | main thread, callbacks and kernel of the wake benchmark | - |
| `MacosSymbols` | `check-m14-symbols.py` | - |
| `MacosLog` | the lines of a log, and what both extractors make of one | - |
| `MacosReport`, `MacosRunJson` | the two extractors and the summary, as operators | extend `MacosLog` |
| `MacosLane` | a pass of either script | extends `MacosSymbols`, `MacosReport`, `MacosRunJson` |
| `VtableTrace` | the D script's trace and its analysis | - |
| `SeamEvidence` | a session with either kit | extends `MacosLane`, `VtableTrace` |
| `PressureProofs` | proofs about the bundle, its replay, the reader and the SPI | extends `BundleReplay`, `SnapshotRead`, `SnapshotSpi` |
| `GroupWaitProofs`, `MainModesProofs`, `RepeatAfterProofs`, `RepeatResumeProofs`, `WakeBenchProofs`, `SeamEvidenceProofs` | proofs | extend their component |
| `SumTheorems` | lemmas about sums over finite sets, for `PressureProofs` and `SeamEvidenceProofs` | - |
| `MC*` | symmetry and small constants for TLC | extend their component |

In each module the operators defined under "Mutated forms" are plausible bugs of
the definition they are named after. No specification uses them; they are there to
confirm that the properties notice such a bug.

### How the models correspond to the code

**Pressure.** The bucket arrays of a snapshot are kept as their sums, for the
views use nothing else. A call is one action, because one caller owns the bundle;
its failures are actions of their own (`BundlePrimeFails`, `BundlePollFails`,
`BundlePollRefused`), and the session is reset by a prime before the read that may
fail, as `session.c` does. A read returns any of `Readings` whose cumulative
counters are not below those read before; time may stand still or be 0 (the clock's
failure). `log` is a history of the views since the last successful prime.
`uint64_t` counters are naturals here; `SnapshotSpi` is the model where width
matters.

**SnapshotRead** takes the opposite view of the reader: the read of one counter is one
step, the kernel counts in between, and the values are those of the kernel. It
keeps the four cumulative bucket counters (requests, admissions, blocks,
unblocks). Two ghosts say what a capture should have seen: `owed`, what was really outstanding when the settled counter
was read, and `late`, what was issued between the capture's two reads of a pair. That the kernel never settles more than was issued is an assumption
about the kernel; every snapshot recorded under `benchmarks/baselines` agrees.

**Probe callbacks.** `ProbeWorkers` makes each atomic operation and each locked
region of `basic_worker`, `after_worker` and their kin one step, the loop of
`update_max` one step a turn. `at[w]` is the program counter of callback `w`, and a
callback runs on any thread not occupied by another. The modes put these steps in
order and add the submission loop, the group, the wait and the loads of the result
record, which are steps of their own since workers run on while they are read.
`group` in `GroupWait` is `state->group # NULL`: when the waiter clears it, a
late worker crashes. `NestedWait` adds who waits: the main thread, or a root worker that
occupies a pool thread while the main thread waits on a semaphore in its own stack
frame. Once the main thread has given up, what the root worker does with that frame and
semaphore either goes as before or crashes (`RootCrashes`). Of the record that the main
thread then prints only the verdict is kept.

**Repeat modes.** In `RepeatAfter` each step reads or writes shared fields once; the
plain fields (`current_task`, `round_sum`) are loaded and stored in separate steps,
which is an interleaving the compiler may produce. `Parents` is the number of parent
workers the concurrent executor queue runs at once. `overlapped` is a ghost: a parent has started beside
one that runs. Everything that finding 1 breaks holds until then, on a queue of any width.

**macOS lane.** A log is a sequence of lines, a line the fields that either extractor
reads, and a Python list of records that come from a log is the set of their line numbers; a workload is what it writes at the start
of each round (the counters so far) and at its end (a time, the counters,
their differences). The Swift program has a second line under each of the two phases with counters, without any. `Write` may lose
a line to other output in the same file, `Die` ends a
workload with part of these lines written, `RoundFails` with the error of the C program, whose round had a wrong sum
(`RepeatResume` shows that no sum is wrong; the lane does not rely on it). The stock script keeps the exit code and
goes on, `set -e` ends the other. `counted` is a ghost: what the hooks really counted in each
round. Of the fourteen counters four are kept, those that decide anything. The numbers in
`PRIMARY_FREEBSD_STEADY_STATE` and the thresholds are kept to the digit, as fractions. A host is
a record of what each tool answers, so that `MoreAccessBetterClass` compares the class on
the host with the classes on hosts that offer more.

**VtableTrace.** The trace is a bag of lines, as the analysis counts them. An object has a
vtable at an address of the library, or a small number (an inline continuation), and the
library is loaded at an unknown slide. Lines may be cut short.

**WakeBench.** The kernel's side (start a callback for a request on a new or idle
thread, retire idle threads but the last) is external, taken from how the benchmark
relies on it. The condition variable is `pc = "blocked"`, ended by a broadcast or the
deadline. Sums that cannot be read end the process without a report (`SettleFails`).

## 3. What the runs check

| Run | Instance | Shows |
|---|---|---|
| `bundle` | 9 readings, times to 3, 3 polls | The three summaries agree, generations are accounted for, counts and edges are consistent, failures change nothing the caller holds, and the C summary equals the Python replay. |
| `torn_snapshots` | 2 buckets, 4 events | A capture never overstates what is outstanding, a backlog against a coherent base is real, and against any base a view adds and leaves out no more than what moved between two reads explains. |
| `compact_snapshots` | 2 threads, 2 bits, 4 captures, 5 requests | Generations name snapshots, deltas survive the wrap. |
| `group_wait` | 3 callbacks, 2 threads, table of 2, both deadlines at any time, the wait in main or nested | A record not timed out is exact; an ok record has the true peak and as many threads; a late leave of a cleared group was reported; the exit code fits what was printed; without a time-out the probe ends with "ok". |
| `main_queue_modes` | 3 callbacks, 3 threads, each of the modes | The reporter reads counters nobody changes; the record has the true peak; the process exits. |
| `repeat_resume` | 3 rounds of 3 tasks | Every interleaving implements `RepeatRounds`, with an exact record, reusing no child early, and ends. |
| `repeat_after` | 2 rounds of 2 tasks, queue width 1 or 2 | The flag loses no completion and the probe ends even when parents overlap; as long as none have, no round ends before its timers and an ok record is exact; with width 1 it implements `RepeatRounds`. |
| `repeat_after_sum` | the same | **Violated**: an ok record may have the wrong sum (finding 1). |
| `wake_bench` | 1 warm-up, 2 samples, 2 threads | Requests start from a quiet pool, an ok run timed its own callbacks, a run without failures ends with "ok". |
| `wake_bench_stale` | the same | **Violated**: a sample after a time-out is timed with the late callback (finding 2). |
| `seam_evidence` | 0, 1 or 3 rounds, 5 hosts, 1 lost line; 3 libraries, traces of 4 lines | "Stop" rests on rounds that ran and on counts within its window; the extractors agree; series and totals fit what was counted; an ok lane finished; classes follow access; the slide is found when known vtables outnumber what speaks for another, and labels are those of the objects. |
| `seam_no_data` | the same | **Violated**: the report tells of a gap when nothing was measured (finding 3). |

### Why the bounds are enough

* `bundle`: three polls make a first, a middle and a last sample, hence a rise and a
  fall of one signal and both kinds of gap; the readings switch every one of the six
  signals on and off (but for narrow feedback, which latches), include a torn one,
  and one with another number of buckets. A re-prime can happen at any point.
* `torn_snapshots`: with four events something can be issued and settled both before the base
  and between any two reads of a capture, in one bucket or in two.
* `compact_snapshots`: with 2 bits five requests wrap a counter and count once more; four captures let
  each of two threads have a snapshot before and after; both bound the history only.
* `group_wait`, `main_queue_modes`: three callbacks are the fewest for which
  an update of the maximum can fail its exchange and find a value in between; a table
  of two fills up; with two threads callbacks outnumber threads, and a root worker that
  blocks one leaves one. `MainModesProofs` and `GroupWaitProofs` show the same for any numbers.
* Repeat modes: three rounds are a first, a middle and a last. `repeat_after` has two
  rounds of two tasks, the fewest for a parent to carry over a stale `current_task`; its
  proofs are for any numbers.
* `seam_evidence`: three rounds with a steady window from the second on have a round before
  the window and two in it, one round has none, and 0 is the value the lanes take
  differently (`DefaultRounds` is 3 for 64). The traffic lies below, within and above the
  window around FreeBSD's 3.21 (0, 3 and 7). One lost line can be any; a workload may die in
  any round, which cuts what it wrote at its start or its end at any line. A stock pass is tried on
  five hosts, an introspection pass, which does the same with a host, on the usual one.
  Four lines of a trace let a wrong slide tie with, or outvote, the right one.
* `wake_bench`: two samples let one that failed be followed by one that did not,
  and two threads let a late callback run beside a new one.

Symmetry is used only in runs without liveness properties, over callbacks, threads,
buckets or callers, none of which the modules order.

### Fairness

No safety property relies on fairness. For liveness each action that stands for a
thread that is able to run, a timer that has expired, or a block that libdispatch or
the kernel has been given is weakly fair, one condition per callback, so that one
callback cannot starve another: threads are scheduled, timers fire, queues are
drained. No strong fairness is used. Nothing makes a deadline of `NestedWait` pass, so its
`EndsOk` asks for the end with "ok" or a deadline that did; that of `WakeBench` is about the
initial states with `faults = FALSE`, in which no request is refused and no deadline
passes. In that model weak fairness on the kernel's choices also says that the kernel
goes on retiring idle threads, without which the quiescent wait would end at its
deadline.

## 4. What is proved

The theorems hold for all values of the constants that meet the assumptions named
`...Assumption` in the modules, each as weak as the code: e.g. `Worker` is finite and
not empty.

**`PressureProofs`** (from `ReadingsAssumption`, `BoundsAssumption`; `ReadAssumption`;
`SpiAssumption`)

* Bundle: `TypeCorrect`: `Spec => []TypeOK`.
* `SafetyCorrect`, `GenerationsCorrect`, `CountsCorrect`: `SummariesAgree`,
  `GenerationsAccounted` and `CountsConsistent` hold always. They are inductive together with `TypeOK`, `FreshTracker` (a tracker without
  samples has its initial value, so that its first sample makes no edge) and
  `NarrowSinceBaseline` (narrow feedback once seen means that the kernel's counter has
  passed the baseline of the session, where it stays: this is why the feedback latches).
* `FailuresCorrect`: the action property `FailuresKeepSummaries`.
* `ReplayCorrect`: `OnlineMatchesReplay`, for lists of views of any length. The replay counts
  with cardinalities of sets of positions and takes a maximum of a set, so that the invariant
  `Replayed` (what was accumulated so far is what the replay makes of `log`) is kept by
  appending a view: one position more, or none, in each set, the greater of two maxima, and an edge
  exactly where the tracker's final signals, those of the view before, differ.
* Reader: `ReadTypeCorrect`, `NeverOverstates` (`CaptureNeverOverstates`). The property speaks of a finished
  capture; the invariant adds what holds while one runs: no counter read is above the
  kernel's (`Bounded`), and a pair already read shows no more than was owed (`PairsRead`),
  because what was issued is read first and only grows.
* `BacklogReal`: `BacklogIsReal`. A backlog is a saturated difference of two sums over buckets of
  saturated differences. In each bucket what was issued since a coherent base is at most what was settled since
  and what was owed; the lemmas of `SumTheorems` carry that to the sums.
* `TearCorrect`: `TearBoundsView`, against any base. In each bucket what a capture shows outstanding and what was (`owed`) differ
  by what was issued between its two reads (`late`); and no counter of a capture is below the base's,
  so that the deltas saturate nowhere and the view's error is the sum of the base's and the capture's.
* SPI: `SpiTypeCorrect`, `SpiGenerationsCorrect` (`GenerationsNameSnapshots`), `DeltasCorrect`
  (`DeltasSurviveWrap`): for every width, from
  `2^Width > 0` and division with remainder. The invariant adds `Generations` (those
  in use are below the next one), `Order` (a caller's captures grow) and `LowBits`.

**`GroupWaitProofs`** (from `WorkersAssumption`, `ModeAssumption`)

* `TypeCorrect`, `CountersCorrect`: each counter is the number of callbacks that have
  passed its step. `TypeOK` alone is not inductive: that `inflight` stays a natural
  number needs `CountersAgree`.
* `RecordsCorrect`, `WaitedRecordsCorrect`, `LateLeavesCorrect`: `WaitedRecordIsExact`,
  `OkRecordHasPeak` and `LateLeaveWasReported`, for any number of callbacks, threads and any size of the table. The invariant `IInv` is
  `TypeOK`, `Counts` (each counter, and the group's, is the number of callbacks in some set of
  stages), `Peak` (the maximum is attained by some callback, and every callback past
  `update_max` saw no more), `Table` (the table of threads does not outgrow its array), and
  `Waiter` (once the group was empty all callbacks are done, and what the record holds is
  still what the counters hold).
* `NestedRecordsCorrect`, `ExitCodeCorrect`: `NestedWait` keeps that invariant, for what it adds to
  `GroupWait` touches only the table of threads and the status; and `NestedInv` says that the
  main thread reports only after its deadline and that the root worker stores its verdict
  before it signals.
* `ThreadsCorrect`: `PeakHasThreads`. The peak lies in the past when the record is read, and the
  callbacks that made it have moved on; the invariant keeps a witness. `Crowd`: for what each callback saw in
  flight there is a set of as many callbacks that have begun, on pairwise different threads (at the moment of
  the increment, those in flight; a callback keeps its thread afterwards). `OwnThread`: callbacks on
  a thread at the same time are on different ones. `Tabled`: the table holds the threads of all recorded
  callbacks or is full, and at most one other thread, the root worker's, which is none before it starts.
  `Counted`: the root worker is recorded before anything is submitted, so that nothing enters
  the table behind a record that was not timed out. The crowd of the peak then injects into the table.

**`MainModesProofs`** (from `WorkersAssumption`)

* `TypeCorrect`, `QuietCorrect` (`QuietWhileRead`), `ExitCorrect` (`ExitRecordHasPeak`), in each of the
  three modes. `Counts`, `Peak` and `Table` are as above, with the group's count only where
  there is a group. `Rooted` says that a notification is registered by a root worker that has
  armed every timer; with an empty group all callbacks are then done. In the modes without a
  group the callback whose increment makes `completed` the number requested finds, by
  `Counts`, that no other is left. `Reported` keeps what has been read equal to the counters.

**`RepeatAfterProofs`** (from `RoundsAssumption`, `ParentsAssumption`)

* `FlagCorrect`: `parent_scheduled` is set exactly while a parent is enqueued.
* `StrandedCorrect`: `NoCompletionStranded`.
* `AwaitsTimers` and `ExactCorrect`: `RoundAwaitsTimers` and `ExactUnlessOverlapped`, for a queue of any width, as long as no parent
  was started beside a running one: that start is the only way to the wrong sum of finding 1.
* `Implements`: with width 1, where no parent can be, every step is a step of `RepeatRounds` or a stutter. The invariant
  is the types, the two properties, `RoundsCounted` and, until parents overlap, `Alone` (the tasks a
  parent has walked past have finished, and `round_sum` is a triangular number) and `Exact` (the
  completed rounds have added the expected sum each).

**`RepeatResumeProofs`** (from `RoundsAssumption`)

* `TypeCorrect`, `NotifiedCorrect` (`NotifiedRoundIsComplete`), `RecordCorrect` (`OkRecordIsExact`),
  `ReuseCorrect` (`ChildrenReusedWhenLeft`), `Implements` (`ImplementsRounds`).
* Tasks add themselves to `round_sum` in any order. The sum of a set of tasks is stated as the
  cardinality of a set of pairs, so that adding one needs no induction; `RoundInv` says
  that the group counts the children to leave and the sum those that have added, `SeriesInv`
  what the completed rounds left behind.

**`WakeBenchProofs`** (from `BenchAssumption`)

* `TypeCorrect`, `QuietCorrect` (`RequestsFromQuiet`), `TimesCorrect` (`OkTimesOwnCallbacks`). As long
  as nothing has failed one request at most is out (`Served`); a pool with none out only
  shrinks, so that a total read earlier bounds it, which makes the torn read of three sums
  safe (`Pool`); and what was answered was timed with its own callback (`Timed`).

**`SumTheorems`** (no assumptions)

* What `SumFunctionOnSet` of the community modules does, for the sums over buckets, rounds and pushes: it is an
  integer, any term can be taken out, terms can be renamed (`SumImage`), split (`SumUnion`), dropped
  (`SumSubset`) and grouped by a key (`SumGroups`). The operator is a fold, that is a recursive function: `SumFcnExists`
  shows that the function exists, and `SumFcnLocal` that its value on a set does not depend on the
  domain it was defined on. The induction this takes is stated about a *set* (`NatSetInduction`, `SubsetInduction`:
  a set of subsets that contains the empty one, and with each also those with one element more,
  contains all), for the provers cannot instantiate an induction theorem over operators.

**`SeamEvidenceProofs`** (from `BoundsAssumption`, `TraceAssumption`)

The macOS lane, for any numbers of rounds and lost lines, any traffic and hosts. `MacosInv` says
of a lane's log which lines it has (`LogInv`): each is one that the lane writes and tells of its round what was
counted in it; the lines of a kind are in the order of their rounds; each round that was counted has its lines,
readable if none was lost; and only a workload that ran all its rounds has written the last line. The lines of a round's
start and its error say nothing that a reader could mistake for a result, but share the log and a key with those. Of the files it says that each
was made from the logs as they are now, for nothing is written to them after.

* `SeriesCorrect` (`SeriesFollowRounds`), `OkCorrect` (`OkMeansFinished`), `CountersCorrect`
  (`CountersAddUp`), `ExtractorsCorrect` (`ExtractorsAgree`), `StopCorrect` (`StopIsEarned`): each
  extractor's operator is first described in terms of `counted` (`SteadyIs`, `RowsAre`, `FullIs`, `SummaryIs`, `MeanIs`),
  from the lines that `LogInv` allows. `CountersCorrect` rests on the sum of the first rounds growing with each.
* `MoreAccessCorrect` (`MoreAccessBetterClass`): the classes are an order that follows what the tools answer.

The vtable analysis, for any library and any trace. `TraceInv` says that the whole push lines of the trace, counted,
are the pushes (the ghost `pushed`), whatever lines are cut short or about something else.

* `SlideCorrect` (`SlideIsRight`): a candidate's score is the sum of the counts of the vtables it
  maps to a known address. Grouped by vtable and then by object (`SumGroups`, `SumImage`), the true slide's is at least
  that of the objects with known vtables; another slide's is at most what is at equal distances (`Mistaken`) and
  the pushes of other objects.
* `LabelsCorrect` (`LabelsAreRight`): `nearest_symbol` at the true slide finds the name at the address. Two names may have
  one address, so the property asks for a name the vtable has, not for a particular one.

`TraceAssumption` includes what makes the tables meaningful: two objects differ in the word that is traced of
them, two roots in their address, and if `nm` lists the table of root queues it is where the library has it.

`tlapm <module>.tla` checks each of them. In the two refinements the fairness of the abstract
specification is not part of what is proved: `ImplementsRounds` is a statement about its
initial states and steps.

### Only model-checked

* Liveness (`EndsOk`, `Exits`): TLAPS does not reason about fairness and `ENABLED` here.
* All other properties of passing runs are theorems: every invariant, `FailuresKeepSummaries`, `ImplementsRounds` of
  both repeat modes as far as it speaks of initial states and steps, and the remaining action properties.

## 5. Findings

1. `repeat_after_sum`. `repeat_parent_worker` (`twq_dispatch_probe.c:1376`) clears
   `parent_scheduled` before it walks the tasks. On the concurrent executor queue a child that
   finishes meanwhile enqueues a second parent, and the two race on plain fields: both may finish
   one round, and the probe then prints "ok" with a `total_sum` other than the expected one
   beside it. The sibling mode checks that sum and fails (`:1692`). With one parent at a time
   all is well (`Implements` of `RepeatAfterProofs`).
2. `wake_bench_stale`. After a request that timed out the benchmark makes the next one without
   draining the late callback (`twq_workqueue_wake_bench.c:667`), which then satisfies the next
   wait. `elixir/lib/twq_test/workqueue_wake.ex:5` calls every sample the latency from a request to
   its callback. The run is reported with status "error", and `OkTimesOwnCallbacks` shows that
   an ok run is not affected.
3. `seam_no_data`. `compare_to_freebsd` (`scripts/macos/extract-m14-introspection-report.py:184`) reads a
   missing mean as 0.0, which is "materially lower" than 3.21: without hooks, or without a
   round in the window, the report answers that FreeBSD likely still has a gap.
   `scripts/macos/README.md:149` derives that outcome from a rate that was measured.

## 6. Not modelled

* The kernel, `libthr` and `libdispatch`: not in the repository; modelled from use.
* Text parsing of sysctls, JSON and option handling, statistics.
* The counters the repeat modes read from sysctls for their progress lines.
* The three arrays of current counts of a snapshot (their torn difference is a hazard
  listed without a property: no bound on it holds that is worth stating), and the gating of
  fields by `struct_size` in the SPI.
* Undefined behaviour of the data race in finding 1 beyond the interleaving of single
  loads and stores, and of a dead stack frame beyond a crash.
* The contention modes of the probe (`pressure`, `sustained`, `burst`, the sampler) and the Swift
  hooks' table: their hazards are listed without properties.
* The Elixir harness: a runner of one command and a fixed sequence of phases; its time-out
  is a hazard without a property.
* The macOS hooks' interposed functions, their depth counter and the preparation of the binaries;
  the Swift programs other than the repeat one, whose scheduling is the Swift runtime's.
* Comparators, gates, staging scripts, recorded data: pure functions or input and output, no
  state to model.

Three further remarks on the macOS lane, not pursued as findings: the rule in
`scripts/macos/README.md:149` says "push or poke rate" where the code
(`extract-m14-introspection-report.py:247`) asks for both; the report's text says "rounds 8-63" (`:255`)
whatever window it was given; and `summarize-m14-run.py:31` fails on the
null that `extract-m14-run.py:180` writes when it is given no symbol file, which the scripts always do.

## 7. Where it can grow

The modules were written in the order of importance: the provider, whose results everything else
rests on, the probe's modes, the benchmark, the two evidence kits. What would come next:

1. `burst` and `pressure` on `ProbeWorkers`: rounds that time out with workers still running, the
   gate on `high_ready`, the sampler's full table.
2. `JobTable`: the Swift hooks' table against jobs that are freed and allocated again.
3. A composition of `SnapshotRead` and `PressureBundle`: a session over torn captures implements
   the bundle's assumption on `Reads`.
