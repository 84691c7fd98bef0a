------------------------- MODULE SeamEvidenceProofs -------------------------
(***************************************************************************)
(* Proofs about SeamEvidence, for every number of rounds, every traffic,    *)
(* host, number of lost lines, library and length of a trace: MacosInv for  *)
(* the macOS lane, TraceInv for the vtable trace, and from the two of them  *)
(* each property, over logs and traces of any length.                       *)
(***************************************************************************)
EXTENDS SeamEvidence, SumTheorems, SequenceTheorems

USE DEF Lane

-----------------------------------------------------------------------------
(* The lines of a workload.                                                 *)

TimeKeys == {"round", "completed_rounds", "elapsed_ns"}
KernelKeys == {"round", "completed_rounds", "sysctl_error"}
CountKeys == {"round", "completed_rounds"} \cup Metric
DataKeys == TimeKeys \cup KernelKeys \cup CountKeys \cup {"available"}

Data == UNION {[keys -> Int] : keys \in SUBSET DataKeys}

\* The phases of the lines that are written beside a round's results.
BesidePhases == StartPhases \cup {"round-error"}

Phase == {"before-spawn", "round-ok", "round-ok-counters",
          "round-ok-counters-delta", "after-await"} \cup BesidePhases

LineType ==
  [readable: BOOLEAN, status: {"progress", "ok", "error"}, phase: Phase,
   data: Data]

Counters == [Metric -> Nat]

\* The counters that are kept, by name.
LEMMA MetricKeys == Metric = {"mainq", "poke", "source", "continuation"}
  BY DEF Metric, REQUIRED_METRICS, EXTRA_METRICS

\* The data of the lines about a round.
RoundHead == [round |-> round, completed_rounds |-> round + 1]
TimeLine == Line("progress", "round-ok",
                 With(RoundHead, [elapsed_ns |-> elapsed_ns]))
KernelLine == Line("progress", "round-ok-counters",
                   With(RoundHead, [sysctl_error |-> 1]))
TotalLine(now) == Line("progress", "round-ok-counters", With(RoundHead, now))
DeltaLine(now) == Line("progress", "round-ok-counters-delta",
                       With(RoundHead, Minus(now, round_start_counters)))

\* What round_ok writes: the time of a round ...
LEMMA TimeLineIs ==
  ASSUME round \in Nat
  PROVE  /\ TimeLine \in LineType /\ TimeLine.readable
         /\ TimeLine.status = "progress" /\ TimeLine.phase = "round-ok"
         /\ DOMAIN TimeLine.data = TimeKeys
         /\ TimeLine.data.round = round
         /\ TimeLine.data.completed_rounds = round + 1
         /\ TimeLine.data.elapsed_ns = round + 1
<1> DEFINE d == With(RoundHead, [elapsed_ns |-> elapsed_ns])
<1>1. d \in [TimeKeys -> Int] /\ d["round"] = round
      /\ d["completed_rounds"] = round + 1 /\ d["elapsed_ns"] = round + 1
  BY DEF With, RoundHead, elapsed_ns, TimeKeys
<1>2. d \in Data
  BY <1>1 DEF Data, DataKeys
<1> HIDE DEF d
<1> QED
  BY <1>1, <1>2 DEF TimeLine, Line, LineType, Phase, d

\* ... the first line under round-ok-counters, which has no counters ...
LEMMA KernelLineIs ==
  ASSUME round \in Nat
  PROVE  /\ KernelLine \in LineType /\ KernelLine.readable
         /\ KernelLine.status = "progress"
         /\ KernelLine.phase = "round-ok-counters"
         /\ DOMAIN KernelLine.data = KernelKeys
         /\ KernelLine.data.round = round
         /\ KernelLine.data.completed_rounds = round + 1
<1> DEFINE d == With(RoundHead, [sysctl_error |-> 1])
<1>1. d \in [KernelKeys -> Int] /\ d["round"] = round
      /\ d["completed_rounds"] = round + 1
  BY DEF With, RoundHead, KernelKeys
<1>2. d \in Data
  BY <1>1 DEF Data, DataKeys
<1> HIDE DEF d
<1> QED
  BY <1>1, <1>2 DEF KernelLine, Line, LineType, Phase, d

\* ... the second, which has the counters so far ...
LEMMA TotalLineIs ==
  ASSUME round \in Nat, NEW now \in Counters
  PROVE  /\ TotalLine(now) \in LineType /\ TotalLine(now).readable
         /\ TotalLine(now).status = "progress"
         /\ TotalLine(now).phase = "round-ok-counters"
         /\ DOMAIN TotalLine(now).data = CountKeys
         /\ TotalLine(now).data.round = round
         /\ TotalLine(now).data.completed_rounds = round + 1
         /\ \A metric \in Metric : TotalLine(now).data[metric] = now[metric]
<1> DEFINE d == With(RoundHead, now)
<1>1. d \in [CountKeys -> Int] /\ d["round"] = round
      /\ d["completed_rounds"] = round + 1
      /\ \A metric \in Metric : d[metric] = now[metric]
  BY MetricKeys DEF With, RoundHead, CountKeys, Counters
<1>2. d \in Data
  BY <1>1 DEF Data, DataKeys
<1> HIDE DEF d
<1> QED
  BY <1>1, <1>2 DEF TotalLine, Line, LineType, Phase, d

\* ... and what they rose by in the round.
LEMMA DeltaLineIs ==
  ASSUME round \in Nat, NEW more \in Counters, round_start_counters \in Counters,
         NEW now \in Counters,
         \A metric \in Metric :
           now[metric] = round_start_counters[metric] + more[metric]
  PROVE  /\ DeltaLine(now) \in LineType /\ DeltaLine(now).readable
         /\ DeltaLine(now).status = "progress"
         /\ DeltaLine(now).phase = "round-ok-counters-delta"
         /\ DOMAIN DeltaLine(now).data = CountKeys
         /\ DeltaLine(now).data.round = round
         /\ DeltaLine(now).data.completed_rounds = round + 1
         /\ \A metric \in Metric : DeltaLine(now).data[metric] = more[metric]
<1> DEFINE d == With(RoundHead, Minus(now, round_start_counters))
<1>1. Minus(now, round_start_counters) = more
  BY DEF Minus, Counters
<1>2. d \in [CountKeys -> Int] /\ d["round"] = round
      /\ d["completed_rounds"] = round + 1
      /\ \A metric \in Metric : d[metric] = more[metric]
  BY <1>1, MetricKeys DEF With, RoundHead, CountKeys, Counters
<1>3. d \in Data
  BY <1>2 DEF Data, DataKeys
<1> HIDE DEF d
<1> QED
  BY <1>2, <1>3 DEF DeltaLine, Line, LineType, Phase, d

\* Two lines of one kind, about what rounds did.
Similar(a, b) ==
  /\ a.phase = b.phase /\ a.phase \notin BesidePhases
  /\ DOMAIN a.data = DOMAIN b.data
  /\ "round" \in DOMAIN a.data

IsTime(line) == line.phase = "round-ok" /\ DOMAIN line.data = TimeKeys
IsKernel(line) ==
  line.phase = "round-ok-counters" /\ DOMAIN line.data = KernelKeys
IsTotal(line) ==
  line.phase = "round-ok-counters" /\ DOMAIN line.data = CountKeys
IsDelta(line) ==
  line.phase = "round-ok-counters-delta" /\ DOMAIN line.data = CountKeys

IsStart(line) == line.phase \in StartPhases /\ line.status = "progress"
IsFailure(line) == line.phase = "round-error" /\ line.status = "error"

\* A line written at the end of the round in which more was counted.
OfRound(line, now, more) ==
  /\ line \in LineType
  /\ line.status = "progress"
  /\ IsTime(line) \/ IsKernel(line) \/ IsTotal(line) \/ IsDelta(line)
  /\ "round" \in DOMAIN line.data
  /\ line.data.round = round
  /\ line.data.completed_rounds = round + 1
  /\ IsTime(line) => line.data.elapsed_ns = round + 1
  /\ IsTotal(line) =>
       available /\ \A metric \in Metric : line.data[metric] = now[metric]
  /\ IsDelta(line) =>
       available /\ \A metric \in Metric : line.data[metric] = more[metric]

Batch(lines, now, more) ==
  /\ lines \in Seq(LineType)
  /\ \A i \in DOMAIN lines : OfRound(lines[i], now, more)
  /\ \A i, j \in DOMAIN lines : i # j => ~Similar(lines[i], lines[j])

WholeBatch(lines) ==
  /\ \E i \in DOMAIN lines : IsTime(lines[i])
  /\ available => /\ \E i \in DOMAIN lines : IsTotal(lines[i])
                  /\ \E i \in DOMAIN lines : IsDelta(lines[i])

\* The kinds of lines are told apart by the fields they have.
LEMMA KeysDiffer ==
  /\ TimeKeys # KernelKeys /\ KernelKeys # CountKeys /\ TimeKeys # CountKeys
  /\ "round" \in TimeKeys \cap KernelKeys \cap CountKeys
  /\ "completed_rounds" \in TimeKeys \cap KernelKeys \cap CountKeys
  /\ "elapsed_ns" \in TimeKeys
  /\ Metric \cap TimeKeys = {} /\ Metric \cap KernelKeys = {}
  /\ Metric \subseteq CountKeys
<1>1. /\ "elapsed_ns" \in TimeKeys /\ "elapsed_ns" \notin KernelKeys
      /\ "elapsed_ns" \notin CountKeys
      /\ "sysctl_error" \in KernelKeys /\ "sysctl_error" \notin CountKeys
  BY MetricKeys DEF TimeKeys, KernelKeys, CountKeys
<1>2. TimeKeys # KernelKeys /\ KernelKeys # CountKeys /\ TimeKeys # CountKeys
  BY <1>1
<1> QED
  BY <1>1, <1>2, MetricKeys DEF TimeKeys, KernelKeys, CountKeys

\* What round_ok writes.
LEMMA RoundOk ==
  ASSUME NEW lane \in Lane, round \in Nat, NEW more \in Counters,
         round_start_counters \in Counters, NEW now \in Counters,
         \A metric \in Metric :
           now[metric] = round_start_counters[metric] + more[metric]
  PROVE  /\ Batch(round_ok(lane, now), now, more)
         /\ WholeBatch(round_ok(lane, now))
         /\ \A i \in DOMAIN round_ok(lane, now) : round_ok(lane, now)[i].readable
<1> DEFINE t == TimeLine
           k == KernelLine
           n == TotalLine(now)
           d == DeltaLine(now)
<1>t. OfRound(t, now, more) /\ IsTime(t) /\ t \in LineType /\ t.readable
      /\ t.phase = "round-ok"
  BY TimeLineIs, KeysDiffer DEF OfRound, IsTime, IsKernel, IsTotal, IsDelta
<1>k. OfRound(k, now, more) /\ IsKernel(k) /\ k \in LineType /\ k.readable
      /\ k.phase = "round-ok-counters" /\ DOMAIN k.data = KernelKeys
  BY KernelLineIs, KeysDiffer DEF OfRound, IsTime, IsKernel, IsTotal, IsDelta
<1>n. available => OfRound(n, now, more) /\ IsTotal(n) /\ n \in LineType
        /\ n.readable
        /\ n.phase = "round-ok-counters" /\ DOMAIN n.data = CountKeys
  BY TotalLineIs, KeysDiffer DEF OfRound, IsTime, IsKernel, IsTotal, IsDelta
<1>d. available => OfRound(d, now, more) /\ IsDelta(d) /\ d \in LineType
        /\ d.readable /\ d.phase = "round-ok-counters-delta"
  BY DeltaLineIs, KeysDiffer DEF OfRound, IsTime, IsKernel, IsTotal, IsDelta
<1> DEFINE R == round_ok(lane, now)
<1>1. R = (<<t>> \o (IF lane = "swift" THEN <<k>> ELSE <<>>))
             \o (IF available THEN <<n, d>> ELSE <<>>)
  BY DEF round_ok, kernel_counters, TimeLine, KernelLine, TotalLine, DeltaLine,
         RoundHead
<1> HIDE DEF R, t, k, n, d
<1>2. CASE lane = "swift" /\ available
  <2>1. <<t>> \in Seq(LineType) /\ <<k>> \in Seq(LineType) /\ <<n, d>> \in Seq(LineType)
    BY <1>2, <1>t, <1>k, <1>n, <1>d
  <2>2. R \in Seq(LineType) /\ Len(R) = 4
    BY <1>1, <1>2, <2>1
  <2>3. R[1] = t /\ R[2] = k /\ R[3] = n /\ R[4] = d
    BY <1>1, <1>2, <2>1
  <2>4. DOMAIN R = 1..4
    BY <2>2
  <2>5. \A i \in DOMAIN R : OfRound(R[i], now, more) /\ R[i].readable
    BY <1>2, <1>t, <1>k, <1>n, <1>d, <2>3, <2>4
  <2>6. \A i, j \in DOMAIN R : i # j => ~Similar(R[i], R[j])
    BY <1>2, <1>t, <1>k, <1>n, <1>d, <2>3, <2>4, KeysDiffer DEF Similar
  <2>7. WholeBatch(R)
    BY <1>2, <1>t, <1>k, <1>n, <1>d, <2>3, <2>4 DEF WholeBatch
  <2> QED
    BY <2>2, <2>5, <2>6, <2>7 DEF Batch, R
<1>3. CASE lane = "swift" /\ ~available
  <2>1. <<t>> \in Seq(LineType) /\ <<k>> \in Seq(LineType)
    BY <1>3, <1>t, <1>k
  <2>2. R \in Seq(LineType) /\ Len(R) = 2
    BY <1>1, <1>3, <2>1
  <2>3. R[1] = t /\ R[2] = k
    BY <1>1, <1>3, <2>1
  <2>4. DOMAIN R = 1..2
    BY <2>2
  <2>5. \A i \in DOMAIN R : OfRound(R[i], now, more) /\ R[i].readable
    BY <1>3, <1>t, <1>k, <2>3, <2>4
  <2>6. \A i, j \in DOMAIN R : i # j => ~Similar(R[i], R[j])
    BY <1>3, <1>t, <1>k, <2>3, <2>4, KeysDiffer DEF Similar
  <2>7. WholeBatch(R)
    BY <1>3, <1>t, <1>k, <2>3, <2>4 DEF WholeBatch
  <2> QED
    BY <2>2, <2>5, <2>6, <2>7 DEF Batch, R
<1>4. CASE lane # "swift" /\ available
  <2>1. <<t>> \in Seq(LineType) /\ <<n, d>> \in Seq(LineType)
    BY <1>4, <1>t, <1>n, <1>d
  <2>2. R \in Seq(LineType) /\ Len(R) = 3
    BY <1>1, <1>4, <2>1
  <2>3. R[1] = t /\ R[2] = n /\ R[3] = d
    BY <1>1, <1>4, <2>1
  <2>4. DOMAIN R = 1..3
    BY <2>2
  <2>5. \A i \in DOMAIN R : OfRound(R[i], now, more) /\ R[i].readable
    BY <1>4, <1>t, <1>n, <1>d, <2>3, <2>4
  <2>6. \A i, j \in DOMAIN R : i # j => ~Similar(R[i], R[j])
    BY <1>4, <1>t, <1>n, <1>d, <2>3, <2>4, KeysDiffer DEF Similar
  <2>7. WholeBatch(R)
    BY <1>4, <1>t, <1>n, <1>d, <2>3, <2>4 DEF WholeBatch
  <2> QED
    BY <2>2, <2>5, <2>6, <2>7 DEF Batch, R
<1>5. CASE lane # "swift" /\ ~available
  <2>1. <<t>> \in Seq(LineType)
    BY <1>5, <1>t
  <2>2. R \in Seq(LineType) /\ Len(R) = 1
    BY <1>1, <1>5, <2>1
  <2>3. R[1] = t
    BY <1>1, <1>5, <2>1
  <2>4. DOMAIN R = 1..1
    BY <2>2
  <2>5. \A i \in DOMAIN R : OfRound(R[i], now, more) /\ R[i].readable
    BY <1>5, <1>t, <2>3, <2>4
  <2>6. \A i, j \in DOMAIN R : i # j => ~Similar(R[i], R[j])
    BY <1>5, <1>t, <2>3, <2>4, KeysDiffer DEF Similar
  <2>7. WholeBatch(R)
    BY <1>5, <1>t, <2>3, <2>4 DEF WholeBatch
  <2> QED
    BY <2>2, <2>5, <2>6, <2>7 DEF Batch, R
<1> QED
  BY <1>2, <1>3, <1>4, <1>5

\* A line written at the start of a round.
StartLine ==
  {line \in LineType :
     /\ line.readable /\ IsStart(line)
     /\ line.data.round = round /\ line.data.completed_rounds = round}

\* What round_start writes.
LEMMA RoundStart ==
  ASSUME NEW lane \in Lane, round \in Nat, NEW now \in Counters
  PROVE  round_start(lane, now) \in Seq(StartLine)
<1> DEFINE head == [round |-> round, completed_rounds |-> round]
           d == With(head, [sysctl_error |-> 1])
           e == With(head, now)
           h == Line("progress", "round-start", head)
           k == Line("progress", "round-start-counters", d)
           n == Line("progress", "round-start-counters", e)
<1>1. /\ head \in [{"round", "completed_rounds"} -> Int]
      /\ head["round"] = round /\ head["completed_rounds"] = round
  OBVIOUS
<1>2. /\ d \in [KernelKeys -> Int] /\ d["round"] = round
      /\ d["completed_rounds"] = round
  BY DEF With, KernelKeys
<1>3. /\ e \in [CountKeys -> Int] /\ e["round"] = round
      /\ e["completed_rounds"] = round
  BY MetricKeys DEF With, CountKeys, Counters
<1>4. head \in Data /\ d \in Data /\ e \in Data
  BY <1>1, <1>2, <1>3 DEF Data, DataKeys, TimeKeys
<1>5. round_start(lane, now)
        = (<<h>> \o (IF lane = "swift" THEN <<k>> ELSE <<>>))
            \o (IF available THEN <<n>> ELSE <<>>)
  BY DEF round_start, kernel_counters
<1> HIDE DEF head, d, e
<1>6. h \in StartLine /\ k \in StartLine /\ n \in StartLine
  BY <1>1, <1>2, <1>3, <1>4
     DEF StartLine, Line, LineType, Phase, BesidePhases, StartPhases, IsStart
<1> HIDE DEF h, k, n
<1>7. /\ <<h>> \in Seq(StartLine)
      /\ (IF lane = "swift" THEN <<k>> ELSE <<>>) \in Seq(StartLine)
      /\ (IF available THEN <<n>> ELSE <<>>) \in Seq(StartLine)
  BY <1>6
<1> QED
  BY <1>5, <1>7

-----------------------------------------------------------------------------
(* The inductive invariant of the lane.                                     *)

\* What was counted in the rounds of a set.
Total(rs, included, metric) ==
  SumFunctionOnSet([r \in included |-> rs[r + 1][metric]], included)

Stage == {"symbols", "swift", "c", "extract", "report", "summarize", "done",
          "aborted"}

\* The lane has been left, to go on.
Over(lane) ==
  stage \in {"extract", "report", "summarize", "done"}
    \cup (IF lane = "swift" THEN {"c"} ELSE {})

\* The lane has not been reached, or its workload has not been started.
Ahead(lane) ==
  \/ stage = "symbols" \/ (stage = "swift" /\ lane = "c")
  \/ stage = lane /\ at = "spawn"

MacosTypes ==
  /\ pass \in {"introspection", "stock"} /\ host \in Hosts /\ hooks \in BOOLEAN
  /\ requested \in Nat /\ skipped \in SUBSET Lane
  /\ pass = "introspection" => skipped = {}
  /\ stage \in Stage /\ at \in {"spawn", "start", "end", "finish"}
  /\ counters \in Counters /\ round_start_counters \in Counters
  /\ round \in Nat /\ lost \in Nat
  /\ log \in [Lane -> Seq(LineType)]
  /\ counted \in [Lane -> Seq(Counters)]

\* Where the workload that runs is.
Running ==
  /\ at = "spawn" => round = 0
  /\ at # "spawn" => stage \in Lane \ skipped
  /\ at = "end" => counters = round_start_counters
  /\ stage \in Lane =>
       /\ Len(counted[stage]) = round
       /\ at \in {"start", "end"} => round < rounds(stage)
       /\ at = "finish" => round = rounds(stage)
       /\ \A metric \in Metric :
            Total(counted[stage], 0..(round - 1), metric) <= counters[metric]

\* How many of a lane's rounds were counted.
Completed(lane) ==
  /\ Ahead(lane) => log[lane] = <<>> /\ counted[lane] = <<>>
  /\ Len(counted[lane]) <= rounds(lane)
  /\ pass = "introspection" /\ Over(lane) => Len(counted[lane]) = rounds(lane)

\* The line is one that the lane writes, and tells what was counted.
Fits(lane, line) ==
  /\ \/ /\ line.phase = "before-spawn" /\ line.status = "progress"
        /\ DOMAIN line.data = {"available"}
     \/ /\ IsTime(line) \/ IsKernel(line) \/ IsTotal(line) \/ IsDelta(line)
        /\ line.status = "progress"
     \/ /\ line.phase = "after-await" /\ line.status = "ok"
        /\ DOMAIN line.data = {"completed_rounds"}
     \/ IsStart(line) \/ IsFailure(line)
  /\ "round" \in DOMAIN line.data =>
       /\ line.data.round \in 0..Len(counted[lane])
       /\ line.data.round < rounds(lane)
       /\ stage = lane /\ line.phase \notin BesidePhases =>
            line.data.round < Len(counted[lane])
       /\ line.data.completed_rounds =
            IF line.phase \in StartPhases THEN line.data.round
            ELSE line.data.round + 1
  /\ IsTime(line) => line.data.elapsed_ns = line.data.round + 1
  /\ IsTotal(line) =>
       /\ available
       /\ line.data.round < Len(counted[lane]) => \A metric \in Metric :
            Total(counted[lane], 0..line.data.round, metric)
              <= line.data[metric]
  /\ IsDelta(line) =>
       /\ available
       /\ line.data.round < Len(counted[lane]) => \A metric \in Metric :
            line.data[metric] = counted[lane][line.data.round + 1][metric]
  /\ line.phase = "after-await" =>
       /\ stage # lane
       /\ line.data.completed_rounds = rounds(lane)
       /\ Len(counted[lane]) = rounds(lane)

\* Lines of one kind come in the order of their rounds.
InOrder(lane) ==
  \A i, j \in DOMAIN log[lane] :
    i < j /\ Similar(log[lane][i], log[lane][j]) =>
      log[lane][i].data.round < log[lane][j].data.round

\* Each round that was counted has its lines.
Written(lane, r) ==
  /\ \E i \in DOMAIN log[lane] :
       IsTime(log[lane][i]) /\ log[lane][i].data.round = r
  /\ available =>
       /\ \E i \in DOMAIN log[lane] :
            IsTotal(log[lane][i]) /\ log[lane][i].data.round = r
       /\ \E i \in DOMAIN log[lane] :
            IsDelta(log[lane][i]) /\ log[lane][i].data.round = r

LogInv(lane) ==
  /\ Completed(lane)
  /\ \A i \in DOMAIN log[lane] : Fits(lane, log[lane][i])
  /\ InOrder(lane)
  /\ \A r \in 0..(Len(counted[lane]) - 1) : Written(lane, r)
  /\ lost = 0 => \A i \in DOMAIN log[lane] : log[lane][i].readable

\* The files are made from the logs, which then stay as they are.
FilesInv ==
  /\ symbols \in {Nothing, check_symbols(host)}
  /\ run = IF stage \in {"report", "summarize", "done"}
           THEN build_run(Restrict(log, Lane \ skipped), StartRound, symbols)
           ELSE Nothing
  /\ stage = "report" => pass = "introspection"
  /\ report # Nothing =>
       /\ stage = "done" /\ pass = "introspection"
       /\ report = build_report(log["swift"], log["c"], StartRound)
  /\ summary # Nothing =>
       stage = "done" /\ summary = build_summary(run)

MacosInv ==
  /\ MacosTypes
  /\ Running
  /\ \A lane \in Lane : LogInv(lane)
  /\ FilesInv

-----------------------------------------------------------------------------
(* Sums over rounds, and logs that grow.                                    *)

\* A total depends on the rounds it includes only.
LEMMA TotalSame ==
  ASSUME NEW rs, NEW qs, NEW included, NEW metric,
         \A r \in included : rs[r + 1][metric] = qs[r + 1][metric]
  PROVE  Total(rs, included, metric) = Total(qs, included, metric)
<1>1. [r \in included |-> rs[r + 1][metric]]
        = [r \in included |-> qs[r + 1][metric]]
  OBVIOUS
<1> QED
  BY <1>1 DEF Total

\* The total of one round more.
LEMMA TotalNext ==
  ASSUME NEW rs \in Seq(Counters), NEW more \in Counters, NEW metric \in Metric
  PROVE  /\ Total(Append(rs, more), 0..Len(rs), metric)
              = more[metric] + Total(rs, 0..(Len(rs) - 1), metric)
         /\ Total(rs, 0..(Len(rs) - 1), metric) \in Int
<1> DEFINE f == [r \in 0..Len(rs) |-> Append(rs, more)[r + 1][metric]]
           g == [r \in 0..(Len(rs) - 1) |-> rs[r + 1][metric]]
           n == Len(rs)
           S == 0..(n - 1)
<1>1. n \in Nat /\ 0..n = S \cup {n} /\ n \notin S /\ IsFiniteSet(S)
  BY FS_Interval
<1>2. \A r \in S : f[r] = g[r] /\ f[r] \in Int
  BY DEF Counters
<1>3. f[n] = more[metric] /\ f[n] \in Int
  BY DEF Counters
<1>4. Total(Append(rs, more), 0..Len(rs), metric) = SumFunctionOnSet(f, 0..n)
      /\ Total(rs, 0..(Len(rs) - 1), metric) = SumFunctionOnSet(g, S)
  BY DEF Total
<1> HIDE DEF f, g, S, n
<1>5. SumFunctionOnSet(f, S \cup {n}) = f[n] + SumFunctionOnSet(f, S)
  BY <1>1, <1>2, <1>3, SumAdd
<1>6. SumFunctionOnSet(f, S) = SumFunctionOnSet(g, S)
  BY <1>1, <1>2, SumEqual
<1>7. SumFunctionOnSet(g, S) \in Int
  BY <1>1, <1>2, SumInt
<1> QED
  BY <1>1, <1>3, <1>4, <1>5, <1>6, <1>7 DEF n

\* The lines of a log that is added to.
LEMMA Concat ==
  ASSUME NEW S, NEW s \in Seq(S), NEW new \in Seq(S)
  PROVE  /\ s \o new \in Seq(S)
         /\ \A i \in DOMAIN s : i \in DOMAIN (s \o new) /\ (s \o new)[i] = s[i]
         /\ \A k \in DOMAIN new : /\ k + Len(s) \in DOMAIN (s \o new)
                                 /\ (s \o new)[k + Len(s)] = new[k]
         /\ \A i \in DOMAIN (s \o new) :
              \/ i \in DOMAIN s
              \/ \E k \in DOMAIN new : i = k + Len(s)
         /\ \A i \in DOMAIN s : i \in 1..Len(s)
         /\ \A k \in DOMAIN new : k \in Nat \ {0}
<1>1. DOMAIN s = 1..Len(s) /\ DOMAIN new = 1..Len(new)
      /\ Len(s) \in Nat /\ Len(new) \in Nat
  OBVIOUS
<1>2. s \o new \in Seq(S) /\ DOMAIN (s \o new) = 1..(Len(s) + Len(new))
  OBVIOUS
<1>3. \A i \in DOMAIN s : i \in DOMAIN (s \o new) /\ (s \o new)[i] = s[i]
  BY <1>1, <1>2
<1>4. ASSUME NEW k \in DOMAIN new
      PROVE  k + Len(s) \in DOMAIN (s \o new) /\ (s \o new)[k + Len(s)] = new[k]
  <2>1. k \in 1..Len(new) /\ k + Len(s) \in 1..(Len(s) + Len(new))
    BY <1>1
  <2> QED
    BY <1>1, <1>2, <2>1
<1>5. ASSUME NEW i \in DOMAIN (s \o new), i \notin DOMAIN s
      PROVE  \E k \in DOMAIN new : i = k + Len(s)
  <2>1. i \in 1..(Len(s) + Len(new)) /\ ~(i \in 1..Len(s))
    BY <1>1, <1>2, <1>5
  <2>2. i - Len(s) \in DOMAIN new /\ i = (i - Len(s)) + Len(s)
    BY <1>1, <2>1
  <2> QED
    BY <2>2
<1> QED
  BY <1>1, <1>2, <1>3, <1>4, <1>5

SameLine(a, b) ==
  a.status = b.status /\ a.phase = b.phase /\ a.data = b.data

\* What Write does.
LEMMA WriteIs ==
  ASSUME NEW lane \in Lane, NEW lines \in Seq(LineType), MacosTypes,
         \A i \in DOMAIN lines : lines[i].readable, Write(lane, lines)
  PROVE  \E new \in Seq(LineType) :
           /\ DOMAIN new = DOMAIN lines
           /\ \A i \in DOMAIN new : SameLine(new[i], lines[i])
           /\ log' = [log EXCEPT ![lane] = log[lane] \o new]
           /\ lost' \in Nat
           /\ lost' = 0 => lost = 0 /\ \A i \in DOMAIN new : new[i].readable
<1>1. CASE /\ log' = [log EXCEPT ![lane] = @ \o lines]
           /\ UNCHANGED lost
  BY <1>1 DEF SameLine, MacosTypes
<1>2. CASE /\ lost < MaxLost
           /\ \E i \in DOMAIN lines :
                log' = [log EXCEPT ![lane] =
                          @ \o [lines EXCEPT ![i].readable = FALSE]]
           /\ lost' = lost + 1
  <2>1. PICK i \in DOMAIN lines :
          log' = [log EXCEPT ![lane] = @ \o [lines EXCEPT ![i].readable = FALSE]]
    BY <1>2
  <2> DEFINE new == [lines EXCEPT ![i].readable = FALSE]
             cut == [lines[i] EXCEPT !.readable = FALSE]
  <2>2. lines[i] \in LineType
    OBVIOUS
  <2>3. cut \in LineType /\ SameLine(cut, lines[i])
    BY <2>2 DEF LineType, SameLine
  <2>4. new = [lines EXCEPT ![i] = cut]
    OBVIOUS
  <2> HIDE DEF cut
  <2>5. new \in Seq(LineType) /\ DOMAIN new = DOMAIN lines
    <3> HIDE DEF new
    <3>1. DOMAIN lines = 1..Len(lines)
      OBVIOUS
    <3>2. new = [k \in 1..Len(lines) |-> IF k = i THEN cut ELSE lines[k]]
      BY <2>4, <3>1
    <3>3. \A k \in 1..Len(lines) : new[k] \in LineType
      BY <2>3, <3>1, <3>2
    <3> QED
      BY <3>1, <3>2, <3>3
  <2>6. \A k \in DOMAIN new : SameLine(new[k], lines[k])
    BY <2>3, <2>4, <2>5 DEF SameLine
  <2>7. lost' \in Nat /\ lost' # 0
    BY <1>2 DEF MacosTypes
  <2>8. log' = [log EXCEPT ![lane] = log[lane] \o new]
    BY <2>1
  <2> HIDE DEF new
  <2> QED
    BY <2>5, <2>6, <2>7, <2>8
<1> QED
  BY <1>1, <1>2 DEF Write

\* Losing lines keeps the order and the kinds of the others.
LEMMA BatchKept ==
  ASSUME NEW now, NEW more, NEW lines, Batch(lines, now, more),
         NEW new \in Seq(LineType), DOMAIN new = DOMAIN lines,
         \A i \in DOMAIN new : SameLine(new[i], lines[i])
  PROVE  Batch(new, now, more) /\ (WholeBatch(lines) => WholeBatch(new))
<1>1. \A i \in DOMAIN new : new[i] \in LineType
  OBVIOUS
<1>2. \A i \in DOMAIN new : OfRound(new[i], now, more)
  BY <1>1 DEF Batch, OfRound, SameLine, IsTime, IsKernel, IsTotal, IsDelta
<1>3. \A i, j \in DOMAIN new : i # j => ~Similar(new[i], new[j])
  BY DEF Batch, Similar, SameLine
<1>4. WholeBatch(lines) => WholeBatch(new)
  BY DEF WholeBatch, SameLine, IsTime, IsTotal, IsDelta
<1> QED
  BY <1>2, <1>3, <1>4 DEF Batch

-----------------------------------------------------------------------------
(* What a lane's log keeps.                                                 *)

\* A line that is lost still says what it said, to no reader.
LEMMA FitsSame ==
  ASSUME NEW lane, NEW a, NEW b, SameLine(a, b), Fits(lane, a)
  PROVE  Fits(lane, b)
  BY DEF Fits, SameLine, IsTime, IsKernel, IsTotal, IsDelta, IsStart, IsFailure

\* The arguments of a run do not change.
LEMMA RoundsKept ==
  ASSUME UNCHANGED argVars
  PROVE  /\ available' = available
         /\ \A lane : rounds(lane)' = rounds(lane)
  BY DEF argVars, available, rounds

\* A line still fits when another round was counted, or the lane was left.
LEMMA OldLineFits ==
  ASSUME NEW lane \in Lane, NEW line \in LineType, Fits(lane, line),
         counted[lane] \in Seq(Counters), UNCHANGED argVars,
         stage' = lane => stage = lane,
         \/ counted'[lane] = counted[lane]
         \/ stage = lane /\ \E more \in Counters :
              counted'[lane] = Append(counted[lane], more)
  PROVE  Fits(lane, line)'
<1>1. available' = available /\ rounds(lane)' = rounds(lane)
  BY RoundsKept
<1>2. CASE counted'[lane] = counted[lane]
  BY <1>1, <1>2 DEF Fits
<1>3. CASE stage = lane /\ \E more \in Counters :
              counted'[lane] = Append(counted[lane], more)
  <2>1. PICK more \in Counters : counted'[lane] = Append(counted[lane], more)
    BY <1>3
  <2>2. line.phase # "after-await"
    BY <1>3 DEF Fits
  <2> DEFINE old == counted[lane]
             now == counted'[lane]
             r == line.data.round
  <2>3. Len(now) = Len(old) + 1 /\ \A q \in 0..(Len(old) - 1) : now[q + 1] = old[q + 1]
    BY <2>1
  <2>4. "round" \in DOMAIN line.data =>
          /\ r \in 0..Len(old)
          /\ line.phase \notin BesidePhases => r \in 0..(Len(old) - 1)
    BY <1>3 DEF Fits
  <2>5. IsTotal(line) \/ IsDelta(line) =>
          "round" \in DOMAIN line.data /\ r \in 0..(Len(old) - 1)
    <3>1. IsTotal(line) \/ IsDelta(line) =>
            "round" \in DOMAIN line.data /\ line.phase \notin BesidePhases
      BY DEF IsTotal, IsDelta, CountKeys, BesidePhases, StartPhases
    <3> QED
      BY <2>4, <3>1
  <2>6. ASSUME IsTotal(line), NEW metric \in Metric
        PROVE  Total(now, 0..r, metric) = Total(old, 0..r, metric)
    <3>1. \A q \in 0..r : now[q + 1][metric] = old[q + 1][metric]
      BY <2>3, <2>5, <2>6
    <3> DEFINE upto == 0..r
    <3>2. \A q \in upto : now[q + 1][metric] = old[q + 1][metric]
      BY <3>1
    <3> HIDE DEF now, old, r, upto
    <3>3. Total(now, upto, metric) = Total(old, upto, metric)
      BY <3>2, TotalSame
    <3> QED
      BY <3>3 DEF upto
  <2>8. IsTotal(line) =>
          available /\ \A metric \in Metric :
            Total(now, 0..r, metric) <= line.data[metric]
    <3>1. IsTotal(line) => \A metric \in Metric :
            Total(old, 0..r, metric) <= line.data[metric]
      BY <2>5 DEF Fits
    <3>2. IsTotal(line) => available
      BY DEF Fits
    <3> HIDE DEF now, old, r
    <3> QED
      BY <2>6, <3>1, <3>2
  <2>9. IsDelta(line) =>
          available /\ \A metric \in Metric :
            line.data[metric] = now[r + 1][metric]
    BY <2>3, <2>5 DEF Fits
  <2>10. "round" \in DOMAIN line.data =>
           /\ r \in 0..Len(now) /\ r < rounds(lane) /\ r < Len(now)
           /\ line.data.completed_rounds =
                IF line.phase \in StartPhases THEN r ELSE r + 1
    BY <2>3, <2>4 DEF Fits
  <2> QED
    BY <1>1, <2>2, <2>8, <2>9, <2>10 DEF Fits
<1> QED
  BY <1>2, <1>3

\* A log that a lane does not write to.
LEMMA LogKept ==
  ASSUME NEW lane \in Lane, MacosTypes, LogInv(lane), UNCHANGED argVars,
         log'[lane] = log[lane], counted'[lane] = counted[lane],
         Ahead(lane)' => Ahead(lane),
         stage' = lane => stage = lane \/ Ahead(lane),
         pass = "introspection" /\ Over(lane)' => Over(lane),
         lost' = 0 => lost = 0
  PROVE  LogInv(lane)'
<1>1. available' = available /\ rounds(lane)' = rounds(lane) /\ pass' = pass
  BY RoundsKept DEF argVars
<1>2. Completed(lane)'
  BY <1>1 DEF LogInv, Completed
<1>3. ASSUME NEW i \in DOMAIN log[lane] PROVE Fits(lane, log[lane][i])'
  <2>1. stage' = lane => stage = lane
    BY DEF LogInv, Completed
  <2>2. log[lane][i] \in LineType /\ counted[lane] \in Seq(Counters)
    BY DEF MacosTypes
  <2>3. Fits(lane, log[lane][i])
    BY DEF LogInv
  <2>4. log'[lane][i] = log[lane][i]
    OBVIOUS
  <2> DEFINE l == log[lane][i]
  <2> QED
    BY <1>1, <2>1, <2>3, <2>4 DEF Fits
<1>4. InOrder(lane)'
  BY DEF LogInv, InOrder
<1>5. ASSUME NEW r \in 0..(Len(counted[lane]) - 1) PROVE Written(lane, r)'
  <2>1. Written(lane, r)
    BY DEF LogInv
  <2> QED
    BY <1>1, <2>1 DEF Written
<1> QED
  BY <1>1, <1>2, <1>3, <1>4, <1>5 DEF LogInv

\* A log that its lane adds to.
LEMMA LogExtended ==
  ASSUME NEW lane \in Lane, MacosTypes, LogInv(lane), UNCHANGED argVars,
         stage = lane, lost' = 0 => lost = 0,
         \/ counted'[lane] = counted[lane]
         \/ \E more \in Counters : counted'[lane] = Append(counted[lane], more),
         NEW new \in Seq(LineType), log'[lane] = log[lane] \o new,
         \A k \in DOMAIN new :
           /\ Fits(lane, new[k])'
           /\ "round" \in DOMAIN new[k].data =>
                new[k].data.round = Len(counted[lane]),
         \A j, k \in DOMAIN new : j # k => ~Similar(new[j], new[k]),
         lost' = 0 => \A k \in DOMAIN new : new[k].readable,
         \A r \in Len(counted[lane])..(Len(counted'[lane]) - 1) :
           /\ \E k \in DOMAIN new : IsTime(new[k]) /\ new[k].data.round = r
           /\ available =>
                /\ \E k \in DOMAIN new : IsTotal(new[k]) /\ new[k].data.round = r
                /\ \E k \in DOMAIN new : IsDelta(new[k]) /\ new[k].data.round = r,
         Completed(lane)'
  PROVE  LogInv(lane)'
<1> DEFINE old == log[lane]
           all == log'[lane]
           n == Len(old)
<1>1. available' = available /\ rounds(lane)' = rounds(lane)
  BY RoundsKept
<1>2. old \in Seq(LineType) /\ counted[lane] \in Seq(Counters) /\ n \in Nat
  BY DEF MacosTypes
<1>3. /\ \A i \in DOMAIN old : /\ i \in DOMAIN all /\ all[i] = old[i] /\ i \in 1..n
      /\ \A k \in DOMAIN new : /\ k + n \in DOMAIN all /\ all[k + n] = new[k]
                              /\ k \in Nat \ {0}
      /\ \A i \in DOMAIN all :
           i \in DOMAIN old \/ \E k \in DOMAIN new : i = k + n
  BY <1>2, Concat
<1>4. \A i \in DOMAIN old :
        /\ old[i] \in LineType
        /\ Fits(lane, old[i])
        /\ "round" \in DOMAIN old[i].data =>
             /\ old[i].data.round \in Nat
             /\ old[i].phase \notin BesidePhases =>
                  old[i].data.round < Len(counted[lane])
  BY <1>2 DEF LogInv, Fits
<1>5. ASSUME NEW i \in DOMAIN all PROVE Fits(lane, log[lane][i])'
  <2>1. \A line \in LineType : Fits(lane, line) => Fits(lane, line)'
    BY <1>2, OldLineFits
  <2>2. CASE i \in DOMAIN old
    <3>1. PICK line \in LineType : line = old[i]
      BY <1>4, <2>2
    <3>2. Fits(lane, line)
      BY <1>4, <2>2, <3>1
    <3>3. Fits(lane, line)'
      BY <2>1, <3>2
    <3>4. log'[lane][i] = line
      BY <1>3, <2>2, <3>1
    <3> QED
      BY <3>3, <3>4
  <2>3. CASE i \notin DOMAIN old
    <3>1. PICK k \in DOMAIN new : i = k + n
      BY <1>3, <2>3
    <3>2. log'[lane][i] = new[k]
      BY <1>3, <3>1
    <3>3. Fits(lane, new[k])'
      OBVIOUS
    <3> QED
      BY <3>2, <3>3
  <2> QED
    BY <2>2, <2>3
<1>6. InOrder(lane)'
  <2> SUFFICES ASSUME NEW i \in DOMAIN all, NEW j \in DOMAIN all, i < j,
                      Similar(all[i], all[j])
               PROVE  all[i].data.round < all[j].data.round
    BY DEF InOrder, Similar
  <2>1. CASE i \in DOMAIN old /\ j \in DOMAIN old
    BY <1>3, <2>1 DEF LogInv, InOrder
  <2>2. CASE i \in DOMAIN old /\ j \notin DOMAIN old
    <3>1. PICK k \in DOMAIN new : j = k + n
      BY <1>3, <2>2
    <3>2. all[i] = old[i] /\ all[j] = new[k]
      BY <1>3, <2>2, <3>1
    <3>3. /\ "round" \in DOMAIN old[i].data /\ "round" \in DOMAIN new[k].data
          /\ old[i].phase \notin BesidePhases
      BY <3>2 DEF Similar
    <3> HIDE DEF old, all, n
    <3> QED
      BY <1>4, <2>2, <3>2, <3>3
  <2>3. CASE i \notin DOMAIN old
    <3>1. PICK k \in DOMAIN new : i = k + n
      BY <1>3, <2>3
    <3>2. j \notin DOMAIN old
      BY <1>2, <1>3, <3>1
    <3>3. PICK m \in DOMAIN new : j = m + n
      BY <1>3, <3>2
    <3>4. k # m
      BY <1>2, <1>3, <3>1, <3>3
    <3>5. all[i] = new[k] /\ all[j] = new[m]
      BY <1>3, <3>1, <3>3
    <3> QED
      BY <3>4, <3>5
  <2> QED
    BY <2>1, <2>2, <2>3
<1>7. ASSUME NEW r \in 0..(Len(counted'[lane]) - 1) PROVE Written(lane, r)'
  <2>1. CASE r \in 0..(Len(counted[lane]) - 1)
    <3>1. Written(lane, r)
      BY <2>1 DEF LogInv
    <3> HIDE DEF old, all, n
    <3>2. /\ \E i \in DOMAIN all : IsTime(all[i]) /\ all[i].data.round = r
          /\ available =>
               /\ \E i \in DOMAIN all : IsTotal(all[i]) /\ all[i].data.round = r
               /\ \E i \in DOMAIN all : IsDelta(all[i]) /\ all[i].data.round = r
      BY <1>3, <3>1 DEF Written, old
    <3> QED
      BY <1>1, <3>2 DEF Written, all
  <2>2. CASE r \notin 0..(Len(counted[lane]) - 1)
    <3>1. r \in Len(counted[lane])..(Len(counted'[lane]) - 1)
      BY <1>2, <2>2
    <3>2. /\ \E k \in DOMAIN new : IsTime(new[k]) /\ new[k].data.round = r
          /\ available =>
                /\ \E k \in DOMAIN new : IsTotal(new[k]) /\ new[k].data.round = r
                /\ \E k \in DOMAIN new : IsDelta(new[k]) /\ new[k].data.round = r
      BY <3>1
    <3> HIDE DEF old, all, n
    <3>3. /\ \E i \in DOMAIN all : IsTime(all[i]) /\ all[i].data.round = r
          /\ available =>
               /\ \E i \in DOMAIN all : IsTotal(all[i]) /\ all[i].data.round = r
               /\ \E i \in DOMAIN all : IsDelta(all[i]) /\ all[i].data.round = r
      BY <1>3, <3>2
    <3> QED
      BY <1>1, <3>3 DEF Written, all
  <2> QED
    BY <2>1, <2>2
<1>8. lost' = 0 => \A i \in DOMAIN all : all[i].readable
  BY <1>3 DEF LogInv
<1> QED
  BY <1>5, <1>6, <1>7, <1>8 DEF LogInv

\* A step of one lane leaves the log of the other alone.
LEMMA OtherLane ==
  ASSUME NEW lane \in Lane, NEW other \in Lane, other # lane,
         MacosTypes, LogInv(other), UNCHANGED argVars,
         stage = lane, stage' \in {lane, after(lane), "aborted"},
         log'[other] = log[other], counted'[other] = counted[other],
         lost' = 0 => lost = 0
  PROVE  LogInv(other)'
  BY LogKept DEF Ahead, Over, after

-----------------------------------------------------------------------------
(* Every step keeps the invariant.                                          *)

\* A lane has a number of rounds.
LEMMA RoundsNat == MacosTypes => \A lane \in Lane : rounds(lane) \in Nat
  BY BoundsAssumption DEF MacosTypes, rounds

\* The counters of a run start at zero.
LEMMA ZeroIs == Zero \in Counters
  BY DEF Zero, Counters

\* Before the first round nothing is counted.
LEMMA TotalOfNone ==
  ASSUME NEW rs, NEW metric
  PROVE  Total(rs, 0..(0 - 1), metric) = 0
<1>1. 0..(0 - 1) = {}
  OBVIOUS
<1> QED
  BY <1>1, SumEmpty DEF Total

\* MacosInv holds at the start ...
LEMMA MacosInitInv == MacosInit => MacosInv
<1> SUFFICES ASSUME MacosInit PROVE MacosInv
  OBVIOUS
<1>1. MacosTypes
  BY BoundsAssumption, ZeroIs DEF MacosInit, MacosTypes, Stage
<1>2. Running
  BY DEF MacosInit, Running
<1>3. \A lane \in Lane : LogInv(lane)
  BY <1>1, RoundsNat DEF MacosInit, LogInv, Completed, Ahead, Over, InOrder
<1>4. FilesInv
  BY DEF MacosInit, FilesInv
<1> QED
  BY <1>1, <1>2, <1>3, <1>4 DEF MacosInv

\* At the start of a lane, or of what follows the lanes.
LEMMA AtSpawn ==
  ASSUME at' = "spawn", round' = 0, counters' \in Counters,
         stage' \in Lane => counted'[stage'] = <<>>
  PROVE  Running'
<1>1. \A rs, metric : Total(rs, 0..(0 - 1), metric) = 0
  BY TotalOfNone
<1>2. \A metric \in Metric : counters'[metric] >= 0
  BY DEF Counters
<1> QED
  BY <1>1, <1>2 DEF Running

\* ... after the symbols were checked ...
LEMMA CheckSymbolsStep == MacosInv /\ CheckSymbols => MacosInv'
<1> SUFFICES ASSUME MacosInv, CheckSymbols PROVE MacosInv'
  OBVIOUS
<1> USE DEF CheckSymbols, workloadVars
<1>1. MacosTypes'
  BY DEF MacosInv, MacosTypes, argVars, Stage
<1>2. Running'
  <2>1. at = "spawn" /\ round = 0
    BY DEF MacosInv, Running
  <2>2. counted["swift"] = <<>>
    BY DEF MacosInv, LogInv, Completed, Ahead
  <2> QED
    BY <1>1, <2>1, <2>2, AtSpawn DEF MacosTypes
<1>3. ASSUME NEW lane \in Lane PROVE LogInv(lane)'
  <2>1. LogInv(lane) /\ MacosTypes
    BY DEF MacosInv
  <2> QED
    BY <2>1, LogKept DEF Ahead, Over
<1>4. FilesInv'
  BY DEF MacosInv, FilesInv, argVars
<1> QED
  BY <1>1, <1>2, <1>3, <1>4 DEF MacosInv

\* ... after a lane was skipped ...
LEMMA SkipLaneStep ==
  ASSUME NEW lane \in Lane, MacosInv, SkipLane(lane)
  PROVE  MacosInv'
<1> USE DEF SkipLane, workloadVars, fileVars
<1>0. at = "spawn" /\ round = 0
  BY DEF MacosInv, Running
<1>1. MacosTypes'
  BY DEF MacosInv, MacosTypes, argVars, Stage, after
<1>2. Running'
  <2>1. lane = "swift" => counted["c"] = <<>>
    BY DEF MacosInv, LogInv, Completed, Ahead
  <2> QED
    BY <1>0, <1>1, <2>1, AtSpawn DEF MacosTypes, after
<1>3. ASSUME NEW other \in Lane PROVE LogInv(other)'
  <2>1. LogInv(other) /\ MacosTypes /\ pass # "introspection"
    BY DEF MacosInv, MacosTypes
  <2> QED
    BY <1>0, <2>1, LogKept DEF Ahead, Over, after
<1>4. FilesInv'
  BY DEF MacosInv, FilesInv, argVars, after
<1> QED
  BY <1>1, <1>2, <1>3, <1>4 DEF MacosInv

\* ... or its workload started ...
LEMMA SpawnStep ==
  ASSUME NEW lane \in Lane, MacosInv, Spawn(lane)
  PROVE  MacosInv'
<1> USE DEF Spawn, fileVars
<1>0. MacosTypes /\ LogInv(lane) /\ round = 0 /\ counted[lane] = <<>>
      /\ log[lane] = <<>> /\ rounds(lane) \in Nat
  BY RoundsNat DEF MacosInv, Running, LogInv, Completed, Ahead
<1>a. rounds(lane)' = rounds(lane) /\ available' = available
  BY RoundsKept
<1>1. CASE rounds(lane) = 0
  <2>1. MacosTypes'
    BY <1>0, <1>1 DEF MacosTypes, argVars
  <2>2. Running'
    BY <1>0, <1>1, <1>a DEF MacosInv, Running, argVars
  <2>3. ASSUME NEW other \in Lane PROVE LogInv(other)'
    <3>1. LogInv(other)
      BY DEF MacosInv
    <3> QED
      BY <1>0, <1>1, <3>1, LogKept DEF Ahead, Over
  <2>4. FilesInv'
    BY <1>1 DEF MacosInv, FilesInv, argVars
  <2> QED
    BY <2>1, <2>2, <2>3, <2>4 DEF MacosInv
<1>2. CASE rounds(lane) # 0
  <2> DEFINE d == [available |-> IF available THEN 1 ELSE 0]
             line == Line("progress", "before-spawn", d)
  <2>1. before_spawn = <<line>> /\ d \in [{"available"} -> Int]
    BY DEF before_spawn
  <2>2. line \in LineType /\ line.readable /\ line.phase = "before-spawn"
        /\ line.status = "progress" /\ DOMAIN line.data = {"available"}
    BY <2>1 DEF LineType, Line, Phase, Data, DataKeys
  <2> HIDE DEF line
  <2>3. Write(lane, <<line>>)
    BY <1>2, <2>1
  <2>4. PICK new \in Seq(LineType) :
           /\ DOMAIN new = DOMAIN <<line>>
           /\ \A i \in DOMAIN new : SameLine(new[i], <<line>>[i])
           /\ log' = [log EXCEPT ![lane] = log[lane] \o new]
           /\ lost' \in Nat
           /\ lost' = 0 => lost = 0 /\ \A i \in DOMAIN new : new[i].readable
    <3>1. <<line>> \in Seq(LineType) /\ \A i \in DOMAIN <<line>> : <<line>>[i].readable
      BY <2>2
    <3> QED
      BY <1>0, <2>3, <3>1, WriteIs
  <2>5. DOMAIN new = {1} /\ SameLine(new[1], line)
    BY <2>4
  <2>6. /\ Fits(lane, new[1])' /\ "round" \notin DOMAIN new[1].data
    BY <2>2, <2>5 DEF SameLine, Fits, IsTime, IsKernel, IsTotal, IsDelta,
                      TimeKeys, KernelKeys, CountKeys
  <2>7. log[lane] \o new \in Seq(LineType)
    BY <1>0, <2>4 DEF MacosTypes
  <2>8. MacosTypes'
    BY <1>0, <1>2, <2>4, <2>7 DEF MacosTypes, argVars
  <2>9. Running'
    BY <1>0, <1>2, <1>a, TotalOfNone DEF MacosInv, Running, argVars, MacosTypes, Counters
  <2>10. LogInv(lane)'
    <3>1. Completed(lane)'
      BY <1>0, <1>2, <1>a DEF Completed, Ahead, Over
    <3>2. log'[lane] = log[lane] \o new
      BY <1>0, <2>4 DEF MacosTypes
    <3>3. Len(counted[lane])..(Len(counted'[lane]) - 1) = {}
      BY <1>0
    <3> QED
      BY <1>0, <2>4, <2>5, <2>6, <3>1, <3>2, <3>3, LogExtended
  <2>11. ASSUME NEW other \in Lane, other # lane PROVE LogInv(other)'
    <3>1. LogInv(other) /\ log'[other] = log[other]
      BY <1>0, <2>4, <2>11 DEF MacosInv, MacosTypes
    <3> QED
      BY <1>0, <2>4, <2>11, <3>1, OtherLane
  <2>12. FilesInv'
    BY DEF MacosInv, FilesInv, argVars
  <2> QED
    BY <2>8, <2>9, <2>10, <2>11, <2>12 DEF MacosInv
<1> QED
  BY <1>1, <1>2

\* What is written at a round's start, to a reader or not, fits.
LEMMA StartFits ==
  ASSUME NEW lane \in Lane, NEW a, NEW line \in StartLine, SameLine(a, line),
         UNCHANGED argVars, counted'[lane] = counted[lane],
         round \in Nat, round < rounds(lane), Len(counted[lane]) = round
  PROVE  /\ Fits(lane, a)' /\ a.phase \in BesidePhases
         /\ a.data.round = Len(counted[lane])
<1>1. rounds(lane)' = rounds(lane)
  BY RoundsKept
<1>2. /\ a.phase \in StartPhases /\ IsStart(a)
      /\ a.data.round = round /\ a.data.completed_rounds = round
  BY DEF SameLine, StartLine, IsStart
<1>3. /\ a.phase \in BesidePhases /\ a.phase # "after-await"
      /\ ~IsTime(a) /\ ~IsTotal(a) /\ ~IsDelta(a)
  BY <1>2 DEF BesidePhases, StartPhases, IsTime, IsTotal, IsDelta
<1> QED
  BY <1>1, <1>2, <1>3 DEF Fits

\* ... after a round began ...
LEMMA BeginRoundStep ==
  ASSUME NEW lane \in Lane, MacosInv, BeginRound(lane)
  PROVE  MacosInv'
<1> USE DEF BeginRound, fileVars
<1>0. /\ MacosTypes /\ LogInv(lane) /\ round < rounds(lane) /\ round \in Nat
      /\ rounds(lane)' = rounds(lane) /\ Len(counted[lane]) = round
  BY RoundsKept DEF MacosInv, Running, MacosTypes
<1>1. PICK more \in MayCount(Between) :
        /\ counters' = Plus(counters, more)
        /\ round_start_counters' = Plus(counters, more)
        /\ Write(lane, round_start(lane, Plus(counters, more)))
  OBVIOUS
<1>2. more \in Counters
  BY BoundsAssumption, ZeroIs DEF MayCount, Counters
<1>3. counters' \in Counters /\ \A metric \in Metric : counters[metric] <= counters'[metric]
  BY <1>0, <1>1, <1>2 DEF Plus, Counters, MacosTypes
<1>a. PICK new \in Seq(LineType) :
        /\ log' = [log EXCEPT ![lane] = log[lane] \o new]
        /\ \A i \in DOMAIN new : \E line \in StartLine : SameLine(new[i], line)
        /\ lost' \in Nat
        /\ lost' = 0 => lost = 0 /\ \A i \in DOMAIN new : new[i].readable
  <2> DEFINE lines == round_start(lane, Plus(counters, more))
  <2>1. lines \in Seq(StartLine)
    BY <1>0, <1>1, <1>3, RoundStart
  <2>2. Write(lane, lines)
    BY <1>1
  <2> HIDE DEF lines
  <2>3. /\ lines \in Seq(LineType)
        /\ \A i \in DOMAIN lines : lines[i] \in StartLine /\ lines[i].readable
    BY <2>1 DEF StartLine
  <2>4. PICK new \in Seq(LineType) :
           /\ DOMAIN new = DOMAIN lines
           /\ \A i \in DOMAIN new : SameLine(new[i], lines[i])
           /\ log' = [log EXCEPT ![lane] = log[lane] \o new]
           /\ lost' \in Nat
           /\ lost' = 0 => lost = 0 /\ \A i \in DOMAIN new : new[i].readable
    BY <1>0, <2>2, <2>3, WriteIs
  <2>5. \A i \in DOMAIN new : \E line \in StartLine : SameLine(new[i], line)
    BY <2>3, <2>4
  <2> QED
    BY <2>4, <2>5
<1>4. MacosTypes'
  <2>1. log[lane] \o new \in Seq(LineType)
    BY <1>0, <1>a DEF MacosTypes
  <2> QED
    BY <1>0, <1>1, <1>3, <1>a, <2>1 DEF MacosTypes, argVars
<1>5. Running'
  <2>1. ASSUME NEW metric \in Metric
        PROVE  Total(counted[lane], 0..(round - 1), metric) <= counters'[metric]
    <3>1. Total(counted[lane], 0..(round - 1), metric) <= counters[metric]
      BY DEF MacosInv, Running
    <3>2. Total(counted[lane], 0..(round - 1), metric) \in Int
      <4>1. Len(counted[lane]) = round /\ counted[lane] \in Seq(Counters)
        BY DEF MacosInv, Running, MacosTypes
      <4> QED
        BY <1>2, <4>1, TotalNext
    <3>3. counters[metric] \in Nat /\ counters'[metric] \in Nat
      BY <1>0, <1>3 DEF MacosTypes, Counters
    <3> QED
      BY <1>3, <3>1, <3>2, <3>3
  <2> QED
    BY <1>0, <1>1, <2>1 DEF MacosInv, Running, argVars
<1>6. LogInv(lane)'
  <2>1. Completed(lane)'
    BY <1>0 DEF LogInv, Completed, Ahead, Over, argVars
  <2>2. log'[lane] = log[lane] \o new
    BY <1>0, <1>a DEF MacosTypes
  <2>3. Len(counted[lane])..(Len(counted'[lane]) - 1) = {}
    BY <1>0
  <2>4. ASSUME NEW k \in DOMAIN new
        PROVE  /\ Fits(lane, new[k])' /\ new[k].phase \in BesidePhases
               /\ new[k].data.round = Len(counted[lane])
    BY <1>0, <1>a, StartFits
  <2>5. \A j, k \in DOMAIN new : j # k => ~Similar(new[j], new[k])
    BY <2>4 DEF Similar
  <2> QED
    BY <1>0, <1>a, <2>1, <2>2, <2>3, <2>4, <2>5, LogExtended
<1>7. ASSUME NEW other \in Lane, other # lane PROVE LogInv(other)'
  <2>1. LogInv(other) /\ log'[other] = log[other]
    BY <1>0, <1>a, <1>7 DEF MacosInv, MacosTypes
  <2> QED
    BY <1>0, <1>a, <1>7, <2>1, OtherLane
<1>8. FilesInv'
  BY DEF MacosInv, FilesInv, argVars
<1> QED
  BY <1>4, <1>5, <1>6, <1>7, <1>8 DEF MacosInv

\* The counters that a round ends with.
LEMMA RoundCounted ==
  ASSUME NEW lane \in Lane, MacosInv, stage = lane, at = "end",
         NEW more \in MayCount(Traffic[lane])
  PROVE  LET now == Plus(counters, more)
             lines == round_ok(lane, now)
         IN /\ more \in Counters /\ now \in Counters
            /\ \A metric \in Metric : now[metric] = counters[metric] + more[metric]
            /\ Batch(lines, now, more) /\ WholeBatch(lines)
            /\ \A i \in DOMAIN lines : lines[i].readable
<1>1. more \in Counters
  BY BoundsAssumption, ZeroIs DEF MayCount, Counters
<1>2. MacosTypes /\ counters = round_start_counters
  BY DEF MacosInv, Running
<1> DEFINE now == Plus(counters, more)
<1>3. now \in Counters
      /\ \A metric \in Metric : now[metric] = counters[metric] + more[metric]
  BY <1>1, <1>2 DEF Plus, Counters, MacosTypes
<1>4. \A metric \in Metric :
        now[metric] = round_start_counters[metric] + more[metric]
  BY <1>2, <1>3
<1>5. round \in Nat /\ round_start_counters \in Counters
  BY <1>2 DEF MacosTypes
<1> HIDE DEF now
<1>6. /\ Batch(round_ok(lane, now), now, more)
      /\ WholeBatch(round_ok(lane, now))
      /\ \A i \in DOMAIN round_ok(lane, now) : round_ok(lane, now)[i].readable
  BY <1>1, <1>3, <1>4, <1>5, RoundOk
<1> QED
  BY <1>1, <1>3, <1>6 DEF now

\* ... or ended and was written, whichever line is lost ...
LEMMA EndRoundStep ==
  ASSUME NEW lane \in Lane, MacosInv, EndRound(lane)
  PROVE  MacosInv'
<1> USE DEF EndRound, fileVars
<1>0. /\ MacosTypes /\ LogInv(lane) /\ round < rounds(lane)
      /\ rounds(lane)' = rounds(lane) /\ available' = available
      /\ round \in Nat /\ rounds(lane) \in Nat
      /\ lane \notin skipped
  BY RoundsKept, RoundsNat DEF MacosInv, Running, MacosTypes
<1> DEFINE rs == counted[lane]
<1>1. rs \in Seq(Counters) /\ Len(rs) = round
  BY DEF MacosInv, MacosTypes, Running
<1>2. PICK more \in MayCount(Traffic[lane]) :
        /\ counters' = Plus(counters, more)
        /\ counted' = [counted EXCEPT ![lane] = Append(@, more)]
        /\ Write(lane, round_ok(lane, Plus(counters, more)))
  OBVIOUS
<1> DEFINE now == Plus(counters, more)
           lines == round_ok(lane, now)
<1>3. /\ more \in Counters /\ now \in Counters
      /\ \A metric \in Metric : now[metric] = counters[metric] + more[metric]
      /\ Batch(lines, now, more) /\ WholeBatch(lines)
      /\ \A i \in DOMAIN lines : lines[i].readable
  BY RoundCounted
<1>4. /\ counters' = now /\ counted'[lane] = Append(rs, more)
      /\ counted' = [counted EXCEPT ![lane] = Append(rs, more)]
      /\ Write(lane, lines)
  BY <1>0, <1>2 DEF MacosTypes
<1> HIDE DEF now, lines
<1>5. PICK new \in Seq(LineType) :
           /\ DOMAIN new = DOMAIN lines
           /\ \A i \in DOMAIN new : SameLine(new[i], lines[i])
           /\ log' = [log EXCEPT ![lane] = log[lane] \o new]
           /\ lost' \in Nat
           /\ lost' = 0 => lost = 0 /\ \A i \in DOMAIN new : new[i].readable
  <2>1. lines \in Seq(LineType)
    BY <1>3 DEF Batch
  <2> QED
    BY <1>0, <1>3, <1>4, <2>1, WriteIs
<1>6. Batch(new, now, more) /\ WholeBatch(new)
  BY <1>3, <1>5, BatchKept
<1>7. Len(counted'[lane]) = round + 1 /\ counted'[lane] \in Seq(Counters)
      /\ counted'[lane][round + 1] = more
  BY <1>1, <1>3, <1>4
<1>8. ASSUME NEW metric \in Metric
      PROVE  Total(counted'[lane], 0..round, metric) <= now[metric]
  <2>1. /\ Total(Append(rs, more), 0..round, metric)
              = more[metric] + Total(rs, 0..(round - 1), metric)
        /\ Total(rs, 0..(round - 1), metric) \in Int
    BY <1>1, <1>3, TotalNext
  <2>2. Total(rs, 0..(round - 1), metric) <= counters[metric]
    BY DEF MacosInv, Running
  <2>3. more[metric] \in Nat /\ counters[metric] \in Nat
        /\ now[metric] = counters[metric] + more[metric]
    BY <1>0, <1>3 DEF MacosTypes, Counters
  <2>4. counted'[lane] = Append(rs, more)
    BY <1>4
  <2> DEFINE before == Total(rs, 0..(round - 1), metric)
  <2>5. Total(counted'[lane], 0..round, metric) = more[metric] + before
    BY <2>1, <2>4
  <2>6. before \in Int /\ before <= counters[metric]
    BY <1>1, <2>1, <2>2
  <2> HIDE DEF before, rs
  <2>7. more[metric] + before <= counters[metric] + more[metric]
    BY <2>3, <2>6
  <2> QED
    BY <2>3, <2>5, <2>7
<1>9. MacosTypes'
  <2>1. counted' \in [Lane -> Seq(Counters)]
    BY <1>0, <1>4, <1>7 DEF MacosTypes
  <2>2. log[lane] \o new \in Seq(LineType)
    BY <1>0, <1>5 DEF MacosTypes
  <2> QED
    BY <1>0, <1>3, <1>4, <1>5, <2>1, <2>2 DEF MacosTypes, argVars
<1>10. Running'
  <2>1. /\ at' \in {"start", "finish"} /\ round' = round + 1 /\ round' # 0
        /\ at' = "start" => round' < rounds(lane)
        /\ at' = "finish" => round' = rounds(lane)
    BY <1>0
  <2>2. 0..(round' - 1) = 0..round
    BY <1>0
  <2>3. \A metric \in Metric :
          Total(counted'[lane], 0..(round' - 1), metric) <= counters'[metric]
    BY <1>4, <1>8, <2>2
  <2> QED
    BY <1>0, <1>7, <2>1, <2>3 DEF Running, argVars
<1>11. ASSUME NEW k \in DOMAIN new
       PROVE  Fits(lane, new[k])' /\ "round" \in DOMAIN new[k].data
              /\ new[k].data.round = round
  <2>1. OfRound(new[k], now, more)
    BY <1>6 DEF Batch
  <2>2. /\ "round" \in DOMAIN new[k].data /\ new[k].data.round = round
        /\ new[k].data.completed_rounds = round + 1
    BY <2>1 DEF OfRound
  <2>3. IsTotal(new[k]) => available /\ \A metric \in Metric :
          Total(counted'[lane], 0..round, metric) <= new[k].data[metric]
    BY <1>8, <2>1 DEF OfRound
  <2>4. IsDelta(new[k]) => available /\ \A metric \in Metric :
          new[k].data[metric] = counted'[lane][round + 1][metric]
    BY <1>7, <2>1 DEF OfRound
  <2>5. new[k].phase # "after-await"
        /\ (IsTime(new[k]) => new[k].data.elapsed_ns = round + 1)
        /\ (IsTime(new[k]) \/ IsKernel(new[k]) \/ IsTotal(new[k]) \/ IsDelta(new[k]))
        /\ new[k].status = "progress"
    BY <2>1 DEF OfRound, IsTime, IsKernel, IsTotal, IsDelta
  <2>6. new[k].phase \notin StartPhases
    BY <2>5 DEF IsTime, IsKernel, IsTotal, IsDelta, StartPhases
  <2> QED
    BY <1>0, <1>7, <2>2, <2>3, <2>4, <2>5, <2>6 DEF Fits
<1>12. LogInv(lane)'
  <2>1. Completed(lane)'
    BY <1>0, <1>7 DEF Completed, Ahead, Over
  <2>2. log'[lane] = log[lane] \o new
    BY <1>0, <1>5 DEF MacosTypes
  <2>3. \A j, k \in DOMAIN new : j # k => ~Similar(new[j], new[k])
    BY <1>6 DEF Batch
  <2>4. ASSUME NEW r \in Len(rs)..(Len(counted'[lane]) - 1)
        PROVE  /\ \E k \in DOMAIN new : IsTime(new[k]) /\ new[k].data.round = r
               /\ available =>
                  /\ \E k \in DOMAIN new : IsTotal(new[k]) /\ new[k].data.round = r
                  /\ \E k \in DOMAIN new : IsDelta(new[k]) /\ new[k].data.round = r
    <3>1. r = round
      BY <1>0, <1>1, <1>7
    <3> QED
      BY <1>6, <1>11, <3>1 DEF WholeBatch
  <2> QED
    BY <1>0, <1>1, <1>3, <1>4, <1>5, <1>11, <2>1, <2>2, <2>3, <2>4, LogExtended
<1>13. ASSUME NEW other \in Lane, other # lane PROVE LogInv(other)'
  <2>1. LogInv(other) /\ log'[other] = log[other] /\ counted'[other] = counted[other]
    BY <1>0, <1>4, <1>5, <1>13 DEF MacosInv, MacosTypes
  <2> QED
    BY <1>0, <1>5, <1>13, <2>1, OtherLane
<1>14. FilesInv'
  BY DEF MacosInv, FilesInv, argVars
<1> QED
  BY <1>9, <1>10, <1>12, <1>13, <1>14 DEF MacosInv

\* ... after a workload wrote its last line ...
LEMMA FinishStep ==
  ASSUME NEW lane \in Lane, MacosInv, Finish(lane)
  PROVE  MacosInv'
<1> USE DEF Finish, Leave, fileVars
<1>0. /\ MacosTypes /\ LogInv(lane) /\ round = rounds(lane)
      /\ Len(counted[lane]) = round
      /\ rounds(lane)' = rounds(lane) /\ available' = available
      /\ round \in Nat /\ stage' # lane
  BY RoundsKept DEF MacosInv, Running, MacosTypes, after
<1> DEFINE d == [completed_rounds |-> rounds(lane)]
           line == Line("ok", "after-await", d)
<1>1. after_await(lane) = <<line>> /\ d \in [{"completed_rounds"} -> Int]
  BY <1>0 DEF after_await
<1>2. line \in LineType /\ line.readable /\ line.phase = "after-await"
      /\ line.status = "ok" /\ DOMAIN line.data = {"completed_rounds"}
      /\ line.data.completed_rounds = rounds(lane)
  BY <1>1 DEF LineType, Line, Phase, Data, DataKeys, TimeKeys
<1> HIDE DEF line
<1>3. PICK new \in Seq(LineType) :
           /\ DOMAIN new = DOMAIN <<line>>
           /\ \A i \in DOMAIN new : SameLine(new[i], <<line>>[i])
           /\ log' = [log EXCEPT ![lane] = log[lane] \o new]
           /\ lost' \in Nat
           /\ lost' = 0 => lost = 0 /\ \A i \in DOMAIN new : new[i].readable
  <2>1. <<line>> \in Seq(LineType) /\ \A i \in DOMAIN <<line>> : <<line>>[i].readable
    BY <1>2
  <2>2. Write(lane, <<line>>)
    BY <1>1
  <2> QED
    BY <1>0, <2>1, <2>2, WriteIs
<1>4. DOMAIN new = {1} /\ SameLine(new[1], line)
  BY <1>3
<1>5. Fits(lane, new[1])' /\ "round" \notin DOMAIN new[1].data
  BY <1>0, <1>2, <1>4 DEF SameLine, Fits, IsTime, IsKernel, IsTotal, IsDelta,
                      TimeKeys, KernelKeys, CountKeys
<1>6. MacosTypes'
  <2>1. log[lane] \o new \in Seq(LineType)
    BY <1>0, <1>3 DEF MacosTypes
  <2> QED
    BY <1>0, <1>3, <2>1, ZeroIs DEF MacosTypes, argVars, after, Stage
<1>7. Running'
  <2>1. stage' \in Lane => counted'[stage'] = <<>>
    BY DEF MacosInv, LogInv, Completed, Ahead, after
  <2> QED
    BY <2>1, AtSpawn, ZeroIs
<1>8. LogInv(lane)'
  <2>1. Completed(lane)'
    BY <1>0 DEF Completed, Ahead, Over, LogInv, after
  <2>2. log'[lane] = log[lane] \o new
    BY <1>0, <1>3 DEF MacosTypes
  <2>3. Len(counted[lane])..(Len(counted'[lane]) - 1) = {}
    BY <1>0
  <2> QED
    BY <1>0, <1>3, <1>4, <1>5, <2>1, <2>2, <2>3, LogExtended
<1>9. ASSUME NEW other \in Lane, other # lane PROVE LogInv(other)'
  <2>1. LogInv(other) /\ log'[other] = log[other]
    BY <1>0, <1>3, <1>9 DEF MacosInv, MacosTypes
  <2> QED
    BY <1>0, <1>3, <1>9, <2>1, OtherLane
<1>10. FilesInv'
  BY DEF MacosInv, FilesInv, argVars, after
<1> QED
  BY <1>6, <1>7, <1>8, <1>9, <1>10 DEF MacosInv

\* A workload that fails leaves its lane with what it wrote last.
LEMMA FailStep ==
  ASSUME NEW lane \in Lane, MacosInv, stage = lane, at \in {"start", "end"},
         Fail(lane), UNCHANGED <<argVars, counted, fileVars>>,
         NEW new \in Seq(LineType), log' = [log EXCEPT ![lane] = log[lane] \o new],
         \A k \in DOMAIN new :
           /\ Fits(lane, new[k])'
           /\ "round" \in DOMAIN new[k].data => new[k].data.round = round,
         \A j, k \in DOMAIN new : j # k => ~Similar(new[j], new[k]),
         lost' \in Nat,
         lost' = 0 => lost = 0 /\ \A k \in DOMAIN new : new[k].readable
  PROVE  MacosInv'
<1> USE DEF Fail, Leave, fileVars
<1>0. /\ MacosTypes /\ LogInv(lane) /\ round < rounds(lane)
      /\ Len(counted[lane]) = round
      /\ rounds(lane)' = rounds(lane) /\ available' = available
      /\ round \in Nat /\ stage' # lane /\ log[lane] \in Seq(LineType)
  BY RoundsKept DEF MacosInv, Running, MacosTypes, after
<1>3. MacosTypes'
  <2>1. log[lane] \o new \in Seq(LineType)
    BY <1>0
  <2>2. stage' \in Stage
    BY DEF Stage, after
  <2> QED
    BY <1>0, <2>1, <2>2, ZeroIs DEF MacosTypes, argVars
<1>4. Running'
  <2>1. stage' \in Lane => counted'[stage'] = <<>>
    BY DEF MacosInv, LogInv, Completed, Ahead, after
  <2> QED
    BY <2>1, AtSpawn, ZeroIs
<1>5. LogInv(lane)'
  <2>1. Completed(lane)'
    BY <1>0 DEF Completed, Ahead, Over, LogInv, after, argVars
  <2>2. log'[lane] = log[lane] \o new
    BY <1>0 DEF MacosTypes
  <2>3. Len(counted[lane])..(Len(counted'[lane]) - 1) = {}
    BY <1>0
  <2> QED
    BY <1>0, <2>1, <2>2, <2>3, LogExtended
<1>6. ASSUME NEW other \in Lane, other # lane PROVE LogInv(other)'
  <2>1. LogInv(other) /\ log'[other] = log[other]
    BY <1>0, <1>6 DEF MacosInv, MacosTypes
  <2> QED
    BY <1>0, <1>6, <2>1, OtherLane
<1>7. FilesInv'
  BY DEF MacosInv, FilesInv, argVars, after
<1> QED
  BY <1>3, <1>4, <1>5, <1>6, <1>7 DEF MacosInv

\* A line of the round that a workload failed in fits once it is left.
LEMMA LastFits ==
  ASSUME NEW lane \in Lane, NEW line, NEW now, NEW more,
         OfRound(line, now, more), UNCHANGED argVars,
         stage' # lane, counted'[lane] = counted[lane],
         round \in Nat, round < rounds(lane), Len(counted[lane]) = round
  PROVE  Fits(lane, line)'
<1>1. rounds(lane)' = rounds(lane) /\ available' = available
  BY RoundsKept
<1>2. line.phase # "after-await" /\ line.phase \notin StartPhases
  BY DEF OfRound, IsTime, IsKernel, IsTotal, IsDelta, StartPhases
<1> QED
  BY <1>1, <1>2 DEF Fits, OfRound

\* ... or its workload died, in the middle of what it writes next ...
LEMMA DieStep ==
  ASSUME NEW lane \in Lane, MacosInv, Die(lane)
  PROVE  MacosInv'
<1> USE DEF Die
<1>0. /\ MacosTypes /\ round < rounds(lane) /\ Len(counted[lane]) = round
      /\ round \in Nat /\ stage' # lane /\ log[lane] \in Seq(LineType)
  BY DEF MacosInv, Running, MacosTypes, after, Fail, Leave
<1>1. CASE UNCHANGED log
  <2>1. <<>> \in Seq(LineType) /\ log[lane] \o <<>> = log[lane]
    BY <1>0, ConcatEmptySeq
  <2>2. log' = [log EXCEPT ![lane] = log[lane] \o <<>>]
    BY <1>0, <1>1, <2>1 DEF MacosTypes
  <2>3. PICK new \in Seq(LineType) : new = <<>>
    BY <2>1
  <2>4. DOMAIN new = {}
    BY <2>3
  <2> QED
    BY <1>0, <2>2, <2>3, <2>4, FailStep DEF MacosTypes
<1>2. ASSUME NEW lines \in NextLines(lane), NEW k \in DOMAIN lines,
             log' = [log EXCEPT ![lane] = @ \o SubSeq(lines, 1, k)]
      PROVE  MacosInv'
  <2>1. /\ lines \in Seq(LineType)
        /\ \A i \in DOMAIN lines :
             /\ Fits(lane, lines[i])' /\ lines[i].readable
             /\ lines[i].data.round = round
        /\ \A i, j \in DOMAIN lines : i # j => ~Similar(lines[i], lines[j])
    <3>1. CASE at = "start"
      <4>1. PICK more \in MayCount(Between) :
              lines = round_start(lane, Plus(counters, more))
        BY <3>1 DEF NextLines
      <4>2. Plus(counters, more) \in Counters
        BY <1>0, BoundsAssumption, ZeroIs
           DEF MayCount, Counters, Plus, MacosTypes
      <4>3. lines \in Seq(StartLine)
        BY <1>0, <4>1, <4>2, RoundStart
      <4>4. ASSUME NEW i \in DOMAIN lines
            PROVE  /\ Fits(lane, lines[i])' /\ lines[i].readable
                   /\ lines[i].data.round = round
                   /\ lines[i].phase \in BesidePhases
        <5>1. lines[i] \in StartLine /\ SameLine(lines[i], lines[i])
          BY <4>3 DEF SameLine
        <5> QED
          BY <1>0, <5>1, StartFits DEF StartLine
      <4> QED
        BY <4>3, <4>4 DEF Similar, StartLine
    <3>2. CASE at = "end"
      <4>1. PICK more \in MayCount(Traffic[lane]) :
              lines = round_ok(lane, Plus(counters, more))
        BY <3>2 DEF NextLines
      <4>2. /\ Batch(lines, Plus(counters, more), more)
            /\ \A i \in DOMAIN lines : lines[i].readable
        BY <3>2, <4>1, RoundCounted
      <4>3. ASSUME NEW i \in DOMAIN lines
            PROVE  Fits(lane, lines[i])' /\ lines[i].data.round = round
        <5>1. OfRound(lines[i], Plus(counters, more), more)
          BY <4>2 DEF Batch
        <5> QED
          BY <1>0, <5>1, LastFits DEF OfRound
      <4> QED
        BY <4>2, <4>3 DEF Batch
    <3> QED
      BY <3>1, <3>2
  <2> DEFINE new == SubSeq(lines, 1, k)
  <2>2. /\ new \in Seq(LineType) /\ DOMAIN new \subseteq DOMAIN lines
        /\ \A i \in DOMAIN new : new[i] = lines[i]
    <3>1. k \in 1..Len(lines) /\ DOMAIN lines = 1..Len(lines)
      BY <2>1
    <3>2. new \in Seq(LineType) /\ Len(new) = k
          /\ \A i \in 1..k : new[i] = lines[i]
      BY <2>1, <3>1
    <3> HIDE DEF new
    <3> QED
      BY <2>1, <3>1, <3>2
  <2>3. log' = [log EXCEPT ![lane] = log[lane] \o new]
    BY <1>0, <1>2 DEF MacosTypes
  <2> HIDE DEF new
  <2>4. \A i \in DOMAIN new :
          Fits(lane, new[i])' /\ new[i].readable /\ new[i].data.round = round
    BY <2>1, <2>2
  <2>5. \A i, j \in DOMAIN new : i # j => ~Similar(new[i], new[j])
    BY <2>1, <2>2
  <2> QED
    BY <1>0, <2>2, <2>3, <2>4, <2>5, FailStep DEF MacosTypes
<1> QED
  BY <1>1, <1>2

\* ... or found a round's sum wrong, whichever line is lost ...
LEMMA RoundFailsStep ==
  ASSUME NEW lane \in Lane, MacosInv, RoundFails(lane)
  PROVE  MacosInv'
<1>a. /\ stage = lane /\ at = "end" /\ Fail(lane)
      /\ UNCHANGED <<argVars, counted, fileVars>>
  BY DEF RoundFails
<1>0. /\ MacosTypes /\ round < rounds(lane) /\ Len(counted[lane]) = round
      /\ round \in Nat /\ stage' # lane /\ rounds(lane)' = rounds(lane)
  BY <1>a, RoundsKept DEF MacosInv, Running, MacosTypes, after, Fail, Leave
<1>1. PICK more \in MayCount(Traffic[lane]) :
        Write(lane, round_ok(lane, Plus(counters, more)) \o round_error)
  BY DEF RoundFails
<1> DEFINE now == Plus(counters, more)
           d == [round |-> round, completed_rounds |-> round + 1]
<1>b. PICK results : results = round_ok(lane, now)
  OBVIOUS
<1>c. PICK e : e = Line("error", "round-error", d)
  OBVIOUS
<1>d. PICK lines : lines = results \o <<e>>
  OBVIOUS
<1>2. Batch(results, now, more) /\ \A i \in DOMAIN results : results[i].readable
  BY <1>a, <1>b, RoundCounted
<1>3. /\ e \in LineType /\ e.readable /\ IsFailure(e)
      /\ e.data.round = round /\ e.data.completed_rounds = round + 1
  <2>1. /\ d \in [{"round", "completed_rounds"} -> Int]
        /\ d["round"] = round /\ d["completed_rounds"] = round + 1
    BY <1>0
  <2>2. d \in Data
    BY <2>1 DEF Data, DataKeys, TimeKeys
  <2> HIDE DEF d
  <2> QED
    BY <1>c, <2>1, <2>2 DEF Line, LineType, Phase, BesidePhases, IsFailure
<1>4. Write(lane, lines)
  BY <1>1, <1>b, <1>c, <1>d DEF round_error
<1> HIDE DEF now, d
<1>5. Fits(lane, e)' /\ e.phase \in BesidePhases
  <2>1. /\ e.phase \in BesidePhases /\ e.phase \notin StartPhases
        /\ e.phase # "after-await" /\ ~IsTime(e) /\ ~IsTotal(e) /\ ~IsDelta(e)
    BY <1>3 DEF IsFailure, IsTime, IsTotal, IsDelta, BesidePhases, StartPhases
  <2> QED
    BY <1>0, <1>3, <1>a, <2>1 DEF Fits
<1>6. /\ lines \in Seq(LineType)
      /\ \A i \in DOMAIN lines :
           /\ Fits(lane, lines[i])' /\ lines[i].readable
           /\ lines[i].data.round = round
      /\ \A i, j \in DOMAIN lines : i # j => ~Similar(lines[i], lines[j])
  <2>1. results \in Seq(LineType) /\ <<e>> \in Seq(LineType)
    BY <1>2, <1>3 DEF Batch
  <2>2. /\ lines \in Seq(LineType)
        /\ \A i \in DOMAIN results : lines[i] = results[i]
        /\ \A i \in DOMAIN lines :
             i \in DOMAIN results \/ (i = 1 + Len(results) /\ lines[i] = e)
    <3>1. DOMAIN <<e>> = {1} /\ <<e>>[1] = e
      OBVIOUS
    <3> QED
      BY <1>d, <2>1, <3>1, Concat
  <2>3. ASSUME NEW i \in DOMAIN results
        PROVE  Fits(lane, results[i])' /\ results[i].data.round = round
    <3>1. OfRound(results[i], now, more)
      BY <1>2 DEF Batch
    <3> QED
      BY <1>0, <1>a, <3>1, LastFits DEF OfRound
  <2>4. \A i \in DOMAIN lines :
           /\ Fits(lane, lines[i])' /\ lines[i].readable
           /\ lines[i].data.round = round
    BY <1>2, <1>3, <1>5, <2>2, <2>3
  <2>5. \A i, j \in DOMAIN lines : i # j => ~Similar(lines[i], lines[j])
    BY <1>2, <1>5, <2>2 DEF Batch, Similar
  <2> QED
    BY <2>2, <2>4, <2>5
<1>7. PICK new \in Seq(LineType) :
           /\ DOMAIN new = DOMAIN lines
           /\ \A i \in DOMAIN new : SameLine(new[i], lines[i])
           /\ log' = [log EXCEPT ![lane] = log[lane] \o new]
           /\ lost' \in Nat
           /\ lost' = 0 => lost = 0 /\ \A i \in DOMAIN new : new[i].readable
  BY <1>0, <1>4, <1>6, WriteIs
<1>8. ASSUME NEW i \in DOMAIN new
      PROVE  Fits(lane, new[i])' /\ new[i].data.round = round
  <2>1. SameLine(new[i], lines[i]) /\ Fits(lane, lines[i])'
        /\ lines[i].data.round = round
    BY <1>6, <1>7
  <2> QED
    BY <2>1 DEF Fits, SameLine, IsTime, IsKernel, IsTotal, IsDelta, IsStart,
                IsFailure
<1>9. \A i, j \in DOMAIN new : i # j => ~Similar(new[i], new[j])
  BY <1>6, <1>7 DEF Similar, SameLine
<1> QED
  BY <1>a, <1>7, <1>8, <1>9, FailStep

\* Once both lanes are over the logs stay as they are.
LEMMA FilesKeepLogs ==
  ASSUME MacosInv, UNCHANGED <<argVars, workloadVars>>,
         stage \in {"extract", "report", "summarize"},
         stage' \in {"report", "summarize", "done"}
  PROVE  MacosTypes' /\ Running' /\ \A lane \in Lane : LogInv(lane)'
<1> USE DEF workloadVars
<1>1. MacosTypes'
  BY DEF MacosInv, MacosTypes, argVars, Stage
<1>2. Running'
  BY DEF MacosInv, Running
<1>3. ASSUME NEW lane \in Lane PROVE LogInv(lane)'
  <2>1. LogInv(lane) /\ MacosTypes
    BY DEF MacosInv
  <2> QED
    BY <2>1, LogKept DEF Ahead, Over
<1> QED
  BY <1>1, <1>2, <1>3

\* ... after the files are made ...
LEMMA FilesStep ==
  ASSUME MacosInv, Extract \/ Report \/ Summarize
  PROVE  MacosInv'
<1>1. MacosTypes' /\ Running' /\ \A lane \in Lane : LogInv(lane)'
  BY FilesKeepLogs DEF Extract, Report, Summarize
<1>2. FilesInv'
  <2>1. CASE Extract
    BY <2>1 DEF Extract, MacosInv, MacosTypes, FilesInv, argVars, workloadVars
  <2>2. CASE Report
    BY <2>2 DEF Report, MacosInv, FilesInv, argVars, workloadVars
  <2>3. CASE Summarize
    BY <2>3 DEF Summarize, MacosInv, FilesInv, argVars, workloadVars
  <2> QED
    BY <2>1, <2>2, <2>3
<1> QED
  BY <1>1, <1>2 DEF MacosInv

\* ... and while the other kit is used.
LEMMA MacosStay == MacosInv /\ UNCHANGED macosVars => MacosInv'
<1> SUFFICES ASSUME MacosInv, UNCHANGED macosVars PROVE MacosInv'
  OBVIOUS
<1> USE DEF macosVars, argVars, workloadVars, fileVars
<1>1. MacosTypes' /\ Running' /\ FilesInv'
  <2>1. MacosTypes'
    BY DEF MacosInv, MacosTypes
  <2>2. Running'
    BY DEF MacosInv, Running, rounds
  <2>3. FilesInv'
    BY DEF MacosInv, FilesInv
  <2> QED
    BY <2>1, <2>2, <2>3
<1>2. ASSUME NEW lane \in Lane PROVE LogInv(lane)'
  <2>1. LogInv(lane) /\ MacosTypes
    BY DEF MacosInv
  <2> QED
    BY <2>1, LogKept DEF Ahead, Over
<1> QED
  BY <1>1, <1>2 DEF MacosInv

\* MacosInv is inductive.
LEMMA MacosStep == MacosInv /\ MacosNext => MacosInv'
  BY CheckSymbolsStep, SkipLaneStep, SpawnStep, BeginRoundStep, EndRoundStep,
     FinishStep, DieStep, RoundFailsStep, FilesStep, MacosStay DEF MacosNext, MacosDone

\* The macOS lane's state in every behaviour, also when the other kit is used.
LEMMA MacosAlways == Spec => []MacosInv
<1>1. Init => MacosInv
  BY MacosInitInv DEF Init
<1>2. MacosInv /\ [Next]_evidenceVars => MacosInv'
  BY MacosStep, MacosStay DEF Next, evidenceVars
<1> QED
  BY <1>1, <1>2, PTL DEF Spec

-----------------------------------------------------------------------------
(* Symbols and m14-run.json.                                                *)

\* What works on more hosts raises no class less (classify_traceability).
LEMMA MoreOffered ==
  ASSUME NEW other, NEW h, NEW symbol \in Symbol, Offers(other, h)
  PROVE  Reach(check_symbols(h).traceability[symbol])
           <= Reach(check_symbols(other).traceability[symbol])
<1> DEFINE src(x) == has_token(load_tbd(x, symbol), symbol, "source")
           macho(x) == has_token(load_tbd(x, symbol), symbol, "macho")
           class(x) == classify_traceability(src(x), macho(x),
                         runtime_lookup(x, symbol), dtrace_accessible(x))
<1>1. \A x : check_symbols(x).traceability[symbol] = class(x)
  BY DEF check_symbols
<1>2. /\ src(h) => src(other)
      /\ macho(h) => macho(other)
      /\ runtime_lookup(h, symbol) => runtime_lookup(other, symbol)
      /\ dtrace_accessible(h) => dtrace_accessible(other)
  BY DEF Offers, has_token, load_tbd, runtime_lookup
<1>3. Reach(class(h)) <= Reach(class(other))
  BY <1>2 DEF classify_traceability, Reach
<1> QED
  BY <1>1, <1>3

\* A host on which more works is never told to offer less.
THEOREM MoreAccessCorrect == Spec => []MoreAccessBetterClass
<1>1. MacosInv => MoreAccessBetterClass
  <2> SUFFICES ASSUME MacosInv, symbols # Nothing, NEW other \in Hosts,
                      NEW symbol \in Symbol, Offers(other, host)
               PROVE  Reach(symbols.traceability[symbol])
                        <= Reach(check_symbols(other).traceability[symbol])
    BY DEF MoreAccessBetterClass
  <2>1. symbols = check_symbols(host)
    BY DEF MacosInv, FilesInv
  <2> QED
    BY <2>1, MoreOffered
<1> QED
  BY <1>1, MacosAlways, PTL

\* The largest of finitely many numbers.
LEMMA MaxIsLargest ==
  ASSUME NEW S \in SUBSET Int, IsFiniteSet(S), S # {}
  PROVE  Max(S) \in S /\ \A y \in S : y <= Max(S)
<1> DEFINE Q == {T \in SUBSET S : T = {} \/ \E x \in T : \A y \in T : x >= y}
<1>1. {} \in Q
  OBVIOUS
<1>2. ASSUME NEW T \in Q, NEW z \in S \ T PROVE T \cup {z} \in Q
  <2>1. CASE T = {}
    BY <2>1
  <2>2. CASE T # {}
    <3>1. PICK x \in T : \A y \in T : x >= y
      BY <2>2
    <3>2. CASE x >= z
      BY <3>1, <3>2
    <3>3. CASE ~(x >= z)
      <4>1. \A y \in T \cup {z} : z >= y
        BY <3>1, <3>3
      <4> QED
        BY <4>1
    <3> QED
      BY <3>2, <3>3
  <2> QED
    BY <2>1, <2>2
<1> HIDE DEF Q
<1>3. S \in Q
  <2>1. Q \in SUBSET SUBSET S
    BY DEF Q
  <2> QED
    BY <1>1, <1>2, <2>1, SubsetInduction
<1>4. \E x \in S : \A y \in S : x >= y
  BY <1>3 DEF Q
<1>5. Max(S) \in S /\ \A y \in S : Max(S) >= y
  BY <1>4 DEF Max
<1> QED
  BY <1>5

\* The readable lines of a kind.
TimesOf(lane) == {i \in parse_json_lines(log[lane]) : IsTime(log[lane][i])}
TotalsOf(lane) == {i \in parse_json_lines(log[lane]) : IsTotal(log[lane][i])}
DeltasOf(lane) == {i \in parse_json_lines(log[lane]) : IsDelta(log[lane][i])}

\* The lines about rounds that extract-m14-run.py looks at.
EventsOf(lane) ==
  {i \in parse_json_lines(log[lane]) :
     log[lane][i].status = "progress" /\ "round" \in DOMAIN log[lane][i].data}

EventsOfPhase(lane, phase) ==
  {i \in EventsOf(lane) : log[lane][i].phase = phase}

\* A log is a finite list of lines, of which some are readable.
LEMMA LinesFinite ==
  ASSUME MacosInv, NEW lane \in Lane
  PROVE  /\ IsFiniteSet(DOMAIN log[lane])
         /\ DOMAIN log[lane] \subseteq Nat
         /\ parse_json_lines(log[lane]) \subseteq DOMAIN log[lane]
         /\ IsFiniteSet(parse_json_lines(log[lane]))
         /\ counted[lane] \in Seq(Counters)
<1>1. log[lane] \in Seq(LineType) /\ counted[lane] \in Seq(Counters)
  BY DEF MacosInv, MacosTypes
<1>2. DOMAIN log[lane] = 1..Len(log[lane]) /\ Len(log[lane]) \in Nat
  BY <1>1
<1>3. IsFiniteSet(DOMAIN log[lane])
  BY <1>2, FS_Interval
<1>4. parse_json_lines(log[lane]) \subseteq DOMAIN log[lane]
  BY DEF parse_json_lines
<1> QED
  BY <1>1, <1>2, <1>3, <1>4, FS_Subset

\* m14-run.json and the summary are those of the logs as they are now.
LEMMA RunIs ==
  ASSUME MacosInv,
         run # Nothing \/ stage \in {"report", "summarize", "done"}
  PROVE  /\ DOMAIN run.benchmarks = Lane \ skipped
         /\ \A lane \in Lane \ skipped :
              run.benchmarks[lane] = parse_probe_log(log[lane], StartRound)
         /\ summary # Nothing => \A lane \in Lane \ skipped :
              summary.benchmarks[lane]
                = print_benchmark_summary(run.benchmarks[lane])
<1>1. run = build_run(Restrict(log, Lane \ skipped), StartRound, symbols)
  BY DEF MacosInv, FilesInv
<1>2. DOMAIN Restrict(log, Lane \ skipped) = Lane \ skipped
      /\ \A lane \in Lane \ skipped : Restrict(log, Lane \ skipped)[lane] = log[lane]
  BY DEF Restrict
<1>3. /\ DOMAIN run.benchmarks = Lane \ skipped
      /\ \A lane \in Lane \ skipped :
           run.benchmarks[lane] = parse_probe_log(log[lane], StartRound)
  BY <1>1, <1>2 DEF build_run
<1>4. summary # Nothing => summary = build_summary(run)
  BY DEF MacosInv, FilesInv
<1> QED
  BY <1>3, <1>4 DEF build_summary

\* collect_round_metrics, phase by phase.
LEMMA MetricsAre ==
  ASSUME NEW lane \in Lane
  PROVE  LET all == collect_round_metrics(log[lane]) IN
         /\ DOMAIN all = {log[lane][i].phase : i \in EventsOf(lane)}
         /\ \A phase \in DOMAIN all :
              /\ "round" \in DOMAIN all[phase]
              /\ \A key \in DOMAIN all[phase] :
                   /\ all[phase][key] = [i \in EventsOfPhase(lane, phase) |->
                                          log[lane][i].data[key]]
                   /\ \A i \in EventsOfPhase(lane, phase) :
                        key \in DOMAIN log[lane][i].data
              /\ \A key :
                   (\A i \in EventsOfPhase(lane, phase) :
                      key \in DOMAIN log[lane][i].data)
                   => key \in DOMAIN all[phase]
<1> DEFINE all == collect_round_metrics(log[lane])
           of(phase) == EventsOfPhase(lane, phase)
           common(phase) ==
             {key \in UNION {DOMAIN log[lane][i].data : i \in of(phase)} :
                \A i \in of(phase) : key \in DOMAIN log[lane][i].data}
<1>1. all = [phase \in {log[lane][i].phase : i \in EventsOf(lane)} |->
               [key \in common(phase) |->
                  [i \in of(phase) |-> log[lane][i].data[key]]]]
  BY DEF collect_round_metrics, EventsOf, EventsOfPhase
<1> HIDE DEF all
<1>2. DOMAIN all = {log[lane][i].phase : i \in EventsOf(lane)}
  BY <1>1
<1>3. ASSUME NEW phase \in DOMAIN all
      PROVE  /\ "round" \in DOMAIN all[phase]
             /\ \A key \in DOMAIN all[phase] :
                  /\ all[phase][key] = [i \in of(phase) |->
                                         log[lane][i].data[key]]
                  /\ \A i \in of(phase) : key \in DOMAIN log[lane][i].data
             /\ \A key :
                  (\A i \in of(phase) : key \in DOMAIN log[lane][i].data)
                  => key \in DOMAIN all[phase]
  <2>1. PICK e \in EventsOf(lane) : log[lane][e].phase = phase
    BY <1>2
  <2>2. e \in of(phase)
    BY <2>1 DEF EventsOfPhase
  <2>3. \A i \in of(phase) : "round" \in DOMAIN log[lane][i].data
    BY DEF EventsOf, EventsOfPhase
  <2>4. DOMAIN all[phase] = common(phase)
        /\ \A key \in common(phase) :
             all[phase][key] = [i \in of(phase) |-> log[lane][i].data[key]]
    BY <1>1, <1>2
  <2>5. \A key : (\A i \in of(phase) : key \in DOMAIN log[lane][i].data)
                <=> key \in common(phase)
    BY <2>2
  <2> HIDE DEF common, of
  <2> QED
    BY <2>3, <2>4, <2>5
<1> QED
  BY <1>2, <1>3 DEF all

\* Every series of m14-run.json can be read against its phase's rounds.
THEOREM SeriesCorrect == Spec => []SeriesFollowRounds
<1>1. MacosInv => SeriesFollowRounds
  <2> SUFFICES ASSUME MacosInv, run # Nothing,
                      NEW lane \in DOMAIN run.benchmarks,
                      NEW phase \in DOMAIN run.benchmarks[lane].round_metrics,
                      NEW key \in
                        DOMAIN run.benchmarks[lane].round_metrics[phase]
               PROVE  LET all == run.benchmarks[lane].round_metrics
                          series == all[phase][key]
                          of == all[phase].round
                      IN /\ DOMAIN series = DOMAIN of
                         /\ key = "completed_rounds" =>
                              \A i \in DOMAIN of :
                                series[i] = IF phase \in StartPhases THEN of[i]
                                            ELSE of[i] + 1
                         /\ phase = "round-ok-counters-delta" /\ key \in Metric =>
                              \A i \in DOMAIN of :
                                of[i] < Len(counted[lane]) =>
                                  series[i] = counted[lane][of[i] + 1][key]
    BY DEF SeriesFollowRounds
  <2> DEFINE all == collect_round_metrics(log[lane])
             E == EventsOfPhase(lane, phase)
  <2>1. lane \in Lane /\ run.benchmarks[lane].round_metrics = all
    <3>1. lane \in Lane \ skipped
          /\ run.benchmarks[lane] = parse_probe_log(log[lane], StartRound)
      BY RunIs
    <3> QED
      BY <3>1 DEF parse_probe_log
  <2>2. phase \in DOMAIN all /\ key \in DOMAIN all[phase]
    BY <2>1
  <2>3. /\ "round" \in DOMAIN all[phase]
        /\ all[phase][key] = [i \in E |-> log[lane][i].data[key]]
        /\ all[phase]["round"] = [i \in E |-> log[lane][i].data["round"]]
    BY <2>1, <2>2, MetricsAre
  <2>4. ASSUME NEW i \in E
        PROVE  /\ log[lane][i].data.completed_rounds =
                    IF phase \in StartPhases THEN log[lane][i].data.round
                    ELSE log[lane][i].data.round + 1
               /\ phase = "round-ok-counters-delta" /\ key \in Metric
                    /\ log[lane][i].data.round < Len(counted[lane]) =>
                    log[lane][i].data[key]
                      = counted[lane][log[lane][i].data.round + 1][key]
    <3>1. /\ i \in DOMAIN log[lane] /\ log[lane][i].phase = phase
          /\ "round" \in DOMAIN log[lane][i].data
      BY DEF EventsOfPhase, EventsOf, parse_json_lines
    <3>2. Fits(lane, log[lane][i])
      BY <2>1, <3>1 DEF MacosInv, LogInv
    <3>3. phase = "round-ok-counters-delta" => IsDelta(log[lane][i])
      BY <3>1, <3>2 DEF Fits, IsTime, IsKernel, IsTotal, IsDelta, IsStart,
                        IsFailure, StartPhases
    <3> QED
      BY <3>1, <3>2, <3>3 DEF Fits
  <2> HIDE DEF all, E
  <2> QED
    BY <2>1, <2>3, <2>4
<1> QED
  BY <1>1, MacosAlways, PTL


-----------------------------------------------------------------------------
(* The lines about rounds, and the end of a log.                            *)

RoundOf(lane, i) == log[lane][i].data.round

\* Both extractors find the lines of each kind by their phase.
LEMMA KindLines ==
  ASSUME MacosInv, NEW lane \in Lane
  PROVE  /\ EventsOfPhase(lane, "round-ok") = TimesOf(lane)
         /\ phase_index(log[lane], "round-ok") = TimesOf(lane)
         /\ phase_index(log[lane], "round-ok-counters-delta") = DeltasOf(lane)
         /\ counter_events(log[lane], "round-ok-counters") = TotalsOf(lane)
         /\ \A i \in TimesOf(lane) \cup TotalsOf(lane) \cup DeltasOf(lane) :
              /\ i \in DOMAIN log[lane] /\ i \in Nat
              /\ "round" \in DOMAIN log[lane][i].data
              /\ RoundOf(lane, i) \in 0..(rounds(lane) - 1)
              /\ rounds(lane) \in Nat
              /\ Fits(lane, log[lane][i])
         /\ \A i \in TimesOf(lane) :
              /\ DOMAIN log[lane][i].data = TimeKeys
              /\ log[lane][i].data.elapsed_ns = RoundOf(lane, i) + 1
<1> DEFINE lines == log[lane]
<1>1. \A i \in parse_json_lines(lines) :
        i \in DOMAIN lines /\ i \in Nat /\ Fits(lane, lines[i])
  BY LinesFinite DEF MacosInv, LogInv
<1>2. \A i \in parse_json_lines(lines) :
        /\ lines[i].phase = "round-ok" <=> IsTime(lines[i])
        /\ lines[i].phase = "round-ok-counters-delta" <=> IsDelta(lines[i])
        /\ lines[i].phase = "round-ok-counters" <=>
              IsKernel(lines[i]) \/ IsTotal(lines[i])
  BY <1>1 DEF Fits, IsTime, IsKernel, IsTotal, IsDelta, IsStart, IsFailure,
              StartPhases
<1>3. ASSUME NEW i \in parse_json_lines(lines)
      PROVE  /\ IsTime(lines[i]) \/ IsTotal(lines[i]) \/ IsDelta(lines[i]) =>
                  "round" \in DOMAIN lines[i].data
             /\ IsTime(lines[i]) => lines[i].status = "progress"
  BY <1>1, KeysDiffer DEF Fits, IsTime, IsKernel, IsTotal, IsDelta, IsStart,
                          IsFailure, StartPhases
<1>4. EventsOfPhase(lane, "round-ok") = TimesOf(lane)
  BY <1>2, <1>3 DEF EventsOfPhase, EventsOf, TimesOf
<1>5. phase_index(lines, "round-ok") = TimesOf(lane)
      /\ phase_index(lines, "round-ok-counters-delta") = DeltasOf(lane)
  BY <1>2 DEF phase_index, TimesOf, DeltasOf
<1>6. counter_events(lines, "round-ok-counters") = TotalsOf(lane)
  <2>1. REQUIRED_METRICS \subseteq Metric /\ REQUIRED_METRICS # {}
    BY DEF Metric, REQUIRED_METRICS
  <2>2. ASSUME NEW i \in parse_json_lines(lines)
        PROVE  lines[i].phase = "round-ok-counters"
                 /\ REQUIRED_METRICS \cap DOMAIN lines[i].data # {}
               <=> IsTotal(lines[i])
    <3>1. CASE IsTotal(lines[i])
      BY <2>1, <3>1, KeysDiffer DEF IsTotal
    <3>2. CASE ~IsTotal(lines[i])
      BY <1>2, <2>1, <3>2, KeysDiffer DEF IsKernel
    <3> QED
      BY <3>1, <3>2
  <2> QED
    BY <2>2 DEF counter_events, phase_index, TotalsOf
<1>7. ASSUME NEW i \in TimesOf(lane) \cup TotalsOf(lane) \cup DeltasOf(lane)
      PROVE  /\ i \in DOMAIN log[lane] /\ i \in Nat
             /\ "round" \in DOMAIN log[lane][i].data
             /\ RoundOf(lane, i) \in 0..(rounds(lane) - 1)
             /\ rounds(lane) \in Nat
             /\ Fits(lane, log[lane][i])
  <2>1. i \in parse_json_lines(lines) /\ "round" \in DOMAIN lines[i].data
    BY <1>3 DEF TimesOf, TotalsOf, DeltasOf
  <2>2. rounds(lane) \in Nat
    BY RoundsNat DEF MacosInv
  <2> QED
    BY <1>1, <2>1, <2>2, LinesFinite DEF Fits, RoundOf
<1>8. \A i \in TimesOf(lane) :
              /\ DOMAIN log[lane][i].data = TimeKeys
              /\ log[lane][i].data.elapsed_ns = RoundOf(lane, i) + 1
  BY <1>1 DEF TimesOf, IsTime, Fits, RoundOf
<1> QED
  BY <1>4, <1>5, <1>6, <1>7, <1>8

\* Each round has at most one line of a kind, in the order of the rounds; and
\* one of each kind when no line was lost.
LEMMA KindOrder ==
  ASSUME MacosInv, NEW lane \in Lane,
         NEW S \in {TimesOf(lane), TotalsOf(lane), DeltasOf(lane)}
  PROVE  /\ \A i, j \in S : i < j => RoundOf(lane, i) < RoundOf(lane, j)
         /\ \A i, j \in S : RoundOf(lane, i) = RoundOf(lane, j) => i = j
         /\ lost = 0 /\ (S = TimesOf(lane) \/ available) =>
              \A r \in 0..(Len(counted[lane]) - 1) :
                \E i \in S : RoundOf(lane, i) = r
<1>1. \A i \in S : /\ i \in DOMAIN log[lane] /\ i \in Nat
                   /\ "round" \in DOMAIN log[lane][i].data
                   /\ RoundOf(lane, i) \in Nat
  BY KindLines
<1>2. \A i, j \in S : i < j => RoundOf(lane, i) < RoundOf(lane, j)
  <2> SUFFICES ASSUME NEW i \in S, NEW j \in S, i < j
               PROVE  RoundOf(lane, i) < RoundOf(lane, j)
    OBVIOUS
  <2>1. Similar(log[lane][i], log[lane][j])
    BY <1>1 DEF Similar, TimesOf, TotalsOf, DeltasOf, IsTime, IsTotal, IsDelta,
                BesidePhases, StartPhases
  <2> QED
    BY <1>1, <2>1 DEF MacosInv, LogInv, InOrder, RoundOf
<1>3. \A i, j \in S : RoundOf(lane, i) = RoundOf(lane, j) => i = j
  <2> SUFFICES ASSUME NEW i \in S, NEW j \in S, i # j
               PROVE  RoundOf(lane, i) # RoundOf(lane, j)
    OBVIOUS
  <2>1. i < j \/ j < i
    BY <1>1
  <2> QED
    BY <1>1, <1>2, <2>1
<1>4. ASSUME lost = 0, S = TimesOf(lane) \/ available,
             NEW r \in 0..(Len(counted[lane]) - 1)
      PROVE  \E i \in S : RoundOf(lane, i) = r
  <2>1. parse_json_lines(log[lane]) = DOMAIN log[lane]
    BY <1>4 DEF MacosInv, LogInv, parse_json_lines
  <2>2. Written(lane, r)
    BY DEF MacosInv, LogInv
  <2> QED
    BY <1>4, <2>1, <2>2 DEF Written, TimesOf, TotalsOf, DeltasOf, RoundOf
<1> QED
  BY <1>2, <1>3, <1>4

\* The steady rounds of m14-run.json.
SteadyTimes(lane) == {i \in TimesOf(lane) : RoundOf(lane, i) >= StartRound}

\* summarize_steady_state: the times of the readable rounds in the window.
LEMMA SteadyIs ==
  ASSUME MacosInv, NEW lane \in Lane
  PROVE  LET steady == summarize_steady_state(
                         collect_round_metrics(log[lane]), StartRound)
         IN /\ SteadyTimes(lane) = {} => steady = Nothing
            /\ SteadyTimes(lane) # {} =>
                 /\ steady # Nothing
                 /\ steady.included = {RoundOf(lane, i) : i \in SteadyTimes(lane)}
                 /\ steady.metrics["elapsed_ns"] =
                      Statistics([i \in SteadyTimes(lane) |->
                                    log[lane][i].data.elapsed_ns])
<1> DEFINE all == collect_round_metrics(log[lane])
           T == TimesOf(lane)
           S == SteadyTimes(lane)
           steady == summarize_steady_state(all, StartRound)
<1>1. EventsOfPhase(lane, "round-ok") = T
  BY KindLines
<1>2. "round-ok" \in DOMAIN all <=> T # {}
  <2>1. DOMAIN all = {log[lane][i].phase : i \in EventsOf(lane)}
    BY MetricsAre
  <2> QED
    BY <1>1, <2>1 DEF EventsOfPhase
<1>3. CASE T = {}
  <2>1. S = {} /\ steady = Nothing
    BY <1>2, <1>3 DEF SteadyTimes, summarize_steady_state
  <2> QED
    BY <2>1
<1>4. CASE T # {}
  <2> DEFINE series == all["round-ok"]
  <2>1. \A key \in DOMAIN series : series[key] = [i \in T |-> log[lane][i].data[key]]
    BY <1>1, <1>2, <1>4, MetricsAre
  <2>2. \A i \in T : "elapsed_ns" \in DOMAIN log[lane][i].data
                    /\ "round" \in DOMAIN log[lane][i].data
    BY KindLines, KeysDiffer
  <2>3. "elapsed_ns" \in DOMAIN series /\ "round" \in DOMAIN series
    BY <1>1, <1>2, <1>4, <2>2, MetricsAre
  <2>4. series["round"] = [i \in T |-> RoundOf(lane, i)]
    BY <2>1, <2>3 DEF RoundOf
  <2>5. {i \in DOMAIN series.round : series.round[i] >= StartRound} = S
    BY <2>4 DEF SteadyTimes
  <2>6. {series.round[i] : i \in S} = {RoundOf(lane, i) : i \in S}
    BY <2>4 DEF SteadyTimes
  <2> HIDE DEF all
  <2>7. steady = IF S = {} THEN Nothing
                 ELSE [included |-> {series.round[i] : i \in S},
                       metrics |-> [key \in DOMAIN series \ {"completed_rounds"} |->
                          Statistics([i \in S |-> series[key][i]])]]
    BY <1>2, <1>4, <2>5 DEF summarize_steady_state
  <2>8. CASE S = {}
    BY <2>7, <2>8 DEF all
  <2>9. CASE S # {}
    <3>1. steady = [included |-> {series.round[i] : i \in S},
                       metrics |-> [key \in DOMAIN series \ {"completed_rounds"} |->
                          Statistics([i \in S |-> series[key][i]])]]
      BY <2>7, <2>9
    <3>2. steady.included = {RoundOf(lane, i) : i \in S}
      <4> DEFINE inc == {series.round[i] : i \in S}
                 mets == [key \in DOMAIN series \ {"completed_rounds"} |->
                            Statistics([i \in S |-> series[key][i]])]
      <4>1. steady = [included |-> inc, metrics |-> mets]
        BY <3>1
      <4>2. inc = {RoundOf(lane, i) : i \in S}
        BY <2>6
      <4> HIDE DEF inc, mets, steady
      <4> QED
        BY <4>1, <4>2
    <3>3. steady.metrics["elapsed_ns"]
            = Statistics([i \in S |-> series["elapsed_ns"][i]])
      BY <2>3, <3>1
    <3>4. [i \in S |-> series["elapsed_ns"][i]]
            = [i \in S |-> log[lane][i].data["elapsed_ns"]]
      <4>1. S \subseteq T
        BY DEF SteadyTimes
      <4>2. \A i \in T : series["elapsed_ns"][i] = log[lane][i].data["elapsed_ns"]
        BY <2>1, <2>3
      <4> HIDE DEF S, T, series
      <4> QED
        BY <4>1, <4>2
    <3>5. steady # Nothing
      BY <3>1 DEF Nothing
    <3> QED
      BY <2>9, <3>2, <3>3, <3>4, <3>5 DEF all
  <2> QED
    BY <2>8, <2>9
<1> QED
  BY <1>3, <1>4

\* When no line was lost the steady lines are of all the steady rounds.
LEMMA AllSteady ==
  ASSUME MacosInv, NEW lane \in Lane, lost = 0, Len(counted[lane]) = rounds(lane),
         NEW S \in {TimesOf(lane), DeltasOf(lane)},
         S = TimesOf(lane) \/ available
  PROVE  {RoundOf(lane, i) : i \in {j \in S : RoundOf(lane, j) >= StartRound}}
           = SteadyRounds(lane)
<1>1. \A i \in S : RoundOf(lane, i) \in 0..(rounds(lane) - 1)
  BY KindLines
<1>2. \A r \in 0..(rounds(lane) - 1) : \E i \in S : RoundOf(lane, i) = r
  BY KindOrder
<1>3. StartRound \in Nat /\ rounds(lane) \in Nat
  BY BoundsAssumption, RoundsNat DEF MacosInv
<1> QED
  BY <1>1, <1>2, <1>3 DEF SteadyRounds

\* A benchmark that is "ok" has the last line of a workload that finished.
LEMMA EndIs ==
  ASSUME MacosInv, NEW lane \in Lane, parse_probe_log_status(log[lane]) = "ok"
  PROVE  /\ terminal(log[lane]) # Nothing
         /\ terminal(log[lane]).data.completed_rounds = rounds(lane)
         /\ Len(counted[lane]) = rounds(lane)
<1> DEFINE ends == {i \in parse_json_lines(log[lane]) :
                      log[lane][i].status # "progress"}
<1>1. terminal(log[lane]) # Nothing
  BY DEF parse_probe_log_status
<1>2. ends # {} /\ terminal(log[lane]) = log[lane][Max(ends)]
  BY <1>1 DEF terminal
<1>3. ends \in SUBSET Int /\ IsFiniteSet(ends)
  BY LinesFinite, FS_Subset
<1>4. Max(ends) \in ends
  <2> HIDE DEF ends
  <2> QED
    BY <1>2, <1>3, MaxIsLargest
<1>5. /\ log[lane][Max(ends)].status = "ok"
      /\ Fits(lane, log[lane][Max(ends)])
  BY <1>1, <1>2, <1>4, LinesFinite DEF MacosInv, LogInv, parse_probe_log_status
<1> HIDE DEF ends
<1>6. log[lane][Max(ends)].phase = "after-await"
  BY <1>5 DEF Fits, IsStart, IsFailure
<1> QED
  BY <1>1, <1>2, <1>5, <1>6 DEF Fits

\* What is called "ok" ran all its rounds, and its times are of them.
THEOREM OkCorrect == Spec => []OkMeansFinished
<1>1. MacosInv => OkMeansFinished
  <2> SUFFICES ASSUME MacosInv, run # Nothing,
                      NEW lane \in DOMAIN run.benchmarks,
                      run.benchmarks[lane].status = "ok"
               PROVE  /\ Len(counted[lane]) = rounds(lane)
                      /\ summary # Nothing =>
                           summary.benchmarks[lane].completed_rounds
                             = <<rounds(lane)>>
                      /\ lost = 0 =>
                           IF SteadyRounds(lane) = {}
                           THEN run.benchmarks[lane].steady_state = Nothing
                           ELSE run.benchmarks[lane].steady_state.included
                                  = SteadyRounds(lane)
    BY DEF OkMeansFinished
  <2>1. /\ lane \in Lane \ skipped
        /\ run.benchmarks[lane] = parse_probe_log(log[lane], StartRound)
        /\ summary # Nothing =>
             summary.benchmarks[lane] = print_benchmark_summary(run.benchmarks[lane])
    BY RunIs
  <2>2. /\ run.benchmarks[lane].status = parse_probe_log_status(log[lane])
        /\ run.benchmarks[lane].terminal = terminal(log[lane])
        /\ run.benchmarks[lane].steady_state
             = summarize_steady_state(collect_round_metrics(log[lane]), StartRound)
    BY <2>1 DEF parse_probe_log
  <2>3. /\ terminal(log[lane]) # Nothing
        /\ terminal(log[lane]).data.completed_rounds = rounds(lane)
        /\ Len(counted[lane]) = rounds(lane)
    BY <2>1, <2>2, EndIs
  <2>4. summary # Nothing =>
          summary.benchmarks[lane].completed_rounds = <<rounds(lane)>>
    BY <2>1, <2>2, <2>3 DEF print_benchmark_summary
  <2>5. ASSUME lost = 0
        PROVE  IF SteadyRounds(lane) = {}
               THEN run.benchmarks[lane].steady_state = Nothing
               ELSE run.benchmarks[lane].steady_state.included
                      = SteadyRounds(lane)
    <3>1. {RoundOf(lane, i) : i \in SteadyTimes(lane)} = SteadyRounds(lane)
      BY <2>1, <2>3, <2>5, AllSteady DEF SteadyTimes
    <3>2. SteadyTimes(lane) = {} <=> SteadyRounds(lane) = {}
      BY <3>1
    <3> QED
      BY <2>1, <2>2, <3>1, <3>2, SteadyIs
  <2> QED
    BY <2>3, <2>4, <2>5
<1> QED
  BY <1>1, MacosAlways, PTL


-----------------------------------------------------------------------------
(* The report.                                                              *)

Reference(lane) ==
  IF lane = "c" THEN CONTROL_FREEBSD_STEADY_STATE ELSE PRIMARY_FREEBSD_STEADY_STATE

\* The report is that of the logs, neither lane being skipped.
LEMMA ReportIs ==
  ASSUME MacosInv, report # Nothing
  PROVE  /\ stage = "done" /\ skipped = {}
         /\ report.decision = build_decision(report.benchmarks["swift"],
                                             report.benchmarks["c"])
         /\ \A lane \in Lane :
              LET benchmark == report.benchmarks[lane] IN
              /\ Len(counted[lane]) = rounds(lane)
              /\ benchmark.rows = build_per_round(log[lane])
              /\ benchmark.steady_state
                   = steady_state_summary(benchmark.rows, StartRound)
              /\ benchmark.full_run = full_run_metrics(log[lane])
              /\ benchmark.comparison_to_freebsd
                   = compare_to_freebsd(benchmark.steady_state, Reference(lane))
<1>1. /\ stage = "done" /\ pass = "introspection" /\ skipped = {}
      /\ report = build_report(log["swift"], log["c"], StartRound)
  BY DEF MacosInv, FilesInv, MacosTypes
<1> DEFINE swift == build_benchmark(log["swift"], StartRound, FALSE)
           c == build_benchmark(log["c"], StartRound, TRUE)
<1>2. report = [benchmarks |-> [swift |-> swift, c |-> c],
                decision |-> build_decision(swift, c)]
  BY <1>1 DEF build_report
<1>3. /\ report.benchmarks["swift"] = swift /\ report.benchmarks["c"] = c
      /\ report.decision = build_decision(swift, c)
  <2> HIDE DEF swift, c
  <2> QED
    BY <1>2
<1>4. \A lane \in Lane :
        report.benchmarks[lane]
          = build_benchmark(log[lane], StartRound, lane = "c")
  BY <1>3
<1>5. ASSUME NEW lane \in Lane
      PROVE  LET benchmark == report.benchmarks[lane] IN
             /\ benchmark.rows = build_per_round(log[lane])
             /\ benchmark.steady_state
                   = steady_state_summary(benchmark.rows, StartRound)
             /\ benchmark.full_run = full_run_metrics(log[lane])
             /\ benchmark.comparison_to_freebsd
                   = compare_to_freebsd(benchmark.steady_state, Reference(lane))
  <2>1. report.benchmarks[lane]
          = build_benchmark(log[lane], StartRound, lane = "c")
    BY <1>4
  <2> QED
    BY <2>1 DEF build_benchmark, Reference
<1>6. \A lane \in Lane : Len(counted[lane]) = rounds(lane)
  BY <1>1 DEF MacosInv, LogInv, Completed, Over
<1> QED
  BY <1>1, <1>3, <1>5, <1>6

\* by_round, for lines of a kind: each round's only line.
LEMMA ByRoundIs ==
  ASSUME MacosInv, NEW lane \in Lane, NEW S \in {TimesOf(lane), DeltasOf(lane)}
  PROVE  /\ DOMAIN by_round(log[lane], S) = {RoundOf(lane, i) : i \in S}
         /\ \A i \in S : by_round(log[lane], S)[RoundOf(lane, i)] = log[lane][i].data
<1>1. by_round(log[lane], S) =
        [r \in {RoundOf(lane, i) : i \in S} |->
           log[lane][Max({i \in S : RoundOf(lane, i) = r})].data]
  BY DEF by_round, RoundOf
<1>2. ASSUME NEW i \in S
      PROVE  Max({j \in S : RoundOf(lane, j) = RoundOf(lane, i)}) = i
  <2> DEFINE same == {j \in S : RoundOf(lane, j) = RoundOf(lane, i)}
  <2>1. same = {i}
    BY KindOrder
  <2>2. i \in Int
    BY KindLines
  <2> HIDE DEF same
  <2>3. IsFiniteSet(same) /\ same # {} /\ same \in SUBSET Int
    BY <2>1, <2>2, FS_Singleton
  <2>4. Max(same) \in same
    BY <2>3, MaxIsLargest
  <2> QED
    BY <2>1, <2>4 DEF same
<1> QED
  BY <1>1, <1>2

\* build_per_round: what was counted in each round that has a row.
LEMMA RowsAre ==
  ASSUME MacosInv, NEW lane \in Lane, Len(counted[lane]) = rounds(lane)
  PROVE  LET rows == build_per_round(log[lane]) IN
         /\ DOMAIN rows = {RoundOf(lane, i) : i \in DeltasOf(lane)}
         /\ \A r \in DOMAIN rows :
              /\ r \in 0..(rounds(lane) - 1) /\ r \in Nat
              /\ available
              /\ Metric \subseteq DOMAIN rows[r]
              /\ \A metric \in Metric :
                   /\ rows[r][metric] = counted[lane][r + 1][metric]
                   /\ rows[r][metric] \in Nat
              /\ "elapsed_ns" \in DOMAIN rows[r] =>
                   /\ \E i \in TimesOf(lane) : RoundOf(lane, i) = r
                   /\ rows[r]["elapsed_ns"] = r + 1
<1> DEFINE delta == by_round(log[lane], DeltasOf(lane))
           ok == by_round(log[lane], TimesOf(lane))
           rows == build_per_round(log[lane])
           time(r) == IF r \in DOMAIN ok THEN Restrict(ok[r], {"elapsed_ns"})
                      ELSE Nothing
<1>1. rows = [r \in DOMAIN delta |->
                With(Restrict(delta[r], Metric \cap DOMAIN delta[r]), time(r))]
  BY KindLines DEF build_per_round
<1>2. DOMAIN delta = {RoundOf(lane, i) : i \in DeltasOf(lane)}
      /\ DOMAIN ok = {RoundOf(lane, i) : i \in TimesOf(lane)}
  BY ByRoundIs
<1>3. ASSUME NEW r \in DOMAIN delta
      PROVE  /\ r \in 0..(rounds(lane) - 1) /\ r \in Nat
             /\ available
             /\ Metric \subseteq DOMAIN rows[r]
             /\ \A metric \in Metric :
                   /\ rows[r][metric] = counted[lane][r + 1][metric]
                   /\ rows[r][metric] \in Nat
             /\ "elapsed_ns" \in DOMAIN rows[r] =>
                   /\ \E i \in TimesOf(lane) : RoundOf(lane, i) = r
                   /\ rows[r]["elapsed_ns"] = r + 1
  <2>1. PICK i \in DeltasOf(lane) : RoundOf(lane, i) = r
    BY <1>2
  <2>2. delta[r] = log[lane][i].data
    BY <2>1, ByRoundIs
  <2>3. /\ r \in 0..(rounds(lane) - 1) /\ rounds(lane) \in Nat
        /\ IsDelta(log[lane][i]) /\ Fits(lane, log[lane][i])
    BY <2>1, KindLines DEF DeltasOf
  <2>4. DOMAIN delta[r] = CountKeys /\ available
        /\ \A metric \in Metric : delta[r][metric] = counted[lane][r + 1][metric]
    BY <2>1, <2>2, <2>3 DEF Fits, IsDelta, RoundOf
  <2>5. \A metric \in Metric : counted[lane][r + 1][metric] \in Nat
    <3>1. counted[lane] \in Seq(Counters) /\ r + 1 \in 1..Len(counted[lane])
      BY <2>3, LinesFinite
    <3>2. counted[lane][r + 1] \in Counters
      BY <3>1
    <3> QED
      BY <3>2 DEF Counters
  <2> DEFINE row == Restrict(delta[r], Metric \cap DOMAIN delta[r])
  <2>6. DOMAIN row = Metric /\ \A metric \in Metric : row[metric] = delta[r][metric]
    <3>1. Metric \cap DOMAIN delta[r] = Metric
      BY <2>4, KeysDiffer
    <3> QED
      BY <3>1 DEF Restrict
  <2>7. rows[r] = With(row, time(r))
    BY <1>1
  <2> HIDE DEF rows, row, delta, time
  <2>8. /\ DOMAIN rows[r] = Metric \cup DOMAIN time(r)
        /\ \A metric \in Metric : rows[r][metric] = row[metric]
        /\ \A key \in DOMAIN time(r) \ Metric : rows[r][key] = time(r)[key]
    BY <2>6, <2>7 DEF With
  <2>9. "elapsed_ns" \notin Metric
    BY MetricKeys
  <2>10. ASSUME "elapsed_ns" \in DOMAIN rows[r]
         PROVE  /\ \E j \in TimesOf(lane) : RoundOf(lane, j) = r
                /\ rows[r]["elapsed_ns"] = r + 1
    <3>1. "elapsed_ns" \in DOMAIN time(r)
      BY <2>8, <2>9, <2>10
    <3>2. r \in DOMAIN ok
      BY <3>1 DEF time, Nothing
    <3>3. PICK j \in TimesOf(lane) : RoundOf(lane, j) = r
      BY <1>2, <3>2
    <3>4. ok[r] = log[lane][j].data
      BY <3>3, ByRoundIs
    <3>5. log[lane][j].data.elapsed_ns = r + 1
      BY <3>3, KindLines
    <3>6. time(r)["elapsed_ns"] = r + 1
      BY <3>2, <3>4, <3>5 DEF time, Restrict
    <3> QED
      BY <2>8, <2>9, <3>1, <3>3, <3>6
  <2> QED
    BY <2>3, <2>4, <2>5, <2>6, <2>8, <2>10
<1>4. DOMAIN rows = DOMAIN delta
  BY <1>1
<1>5. DOMAIN rows = {RoundOf(lane, i) : i \in DeltasOf(lane)}
  BY <1>2, <1>4
<1>6. ASSUME NEW r \in DOMAIN rows
      PROVE  /\ r \in 0..(rounds(lane) - 1) /\ r \in Nat
             /\ available
             /\ Metric \subseteq DOMAIN rows[r]
             /\ \A metric \in Metric :
                   /\ rows[r][metric] = counted[lane][r + 1][metric]
                   /\ rows[r][metric] \in Nat
             /\ "elapsed_ns" \in DOMAIN rows[r] =>
                   /\ \E i \in TimesOf(lane) : RoundOf(lane, i) = r
                   /\ rows[r]["elapsed_ns"] = r + 1
  <2>1. r \in DOMAIN delta
    BY <1>4
  <2> HIDE DEF delta, ok, time, rows
  <2> QED
    BY <1>3, <2>1
<1> HIDE DEF delta, ok, time, rows
<1> QED
  BY <1>5, <1>6 DEF rows

\* steady_state_summary.
LEMMA SummaryIs ==
  ASSUME NEW rows
  PROVE  LET steady == steady_state_summary(rows, StartRound)
             selected == {r \in DOMAIN rows : r >= StartRound}
         IN /\ steady.included = selected
            /\ \A key \in DOMAIN steady.metrics :
                 /\ selected # {}
                 /\ \A r \in selected : key \in DOMAIN rows[r]
                 /\ steady.metrics[key]
                      = Statistics([r \in selected |-> rows[r][key]])
            /\ \A key : selected # {} /\ (\A r \in selected : key \in DOMAIN rows[r])
                   => key \in DOMAIN steady.metrics
<1> DEFINE selected == {r \in DOMAIN rows : r >= StartRound}
           names == {key \in UNION {DOMAIN rows[r] : r \in selected} :
                  \A r \in selected : key \in DOMAIN rows[r]}
           metrics == [key \in names |->
                        Statistics([r \in selected |-> rows[r][key]])]
<1>1. steady_state_summary(rows, StartRound)
        = [included |-> selected, metrics |-> metrics]
  BY DEF steady_state_summary
<1>2. \A key : key \in names <=>
        selected # {} /\ \A r \in selected : key \in DOMAIN rows[r]
  OBVIOUS
<1>3. DOMAIN metrics = names
      /\ \A key \in names :
           metrics[key] = Statistics([r \in selected |-> rows[r][key]])
  OBVIOUS
<1> HIDE DEF selected, names, metrics
<1> QED
  BY <1>1, <1>2, <1>3 DEF selected


\* The total of a lane's counters at the last round that has them.
LEMMA FullIs ==
  ASSUME MacosInv, NEW lane \in Lane, Len(counted[lane]) = rounds(lane),
         full_run_metrics(log[lane]) # Nothing
  PROVE  LET full == full_run_metrics(log[lane]) IN
         /\ \E i \in TotalsOf(lane) :
              /\ full.round = RoundOf(lane, i)
              /\ \A j \in TotalsOf(lane) : RoundOf(lane, j) <= full.round
         /\ full.round \in 0..(rounds(lane) - 1)
         /\ \A metric \in Metric :
              /\ full[metric] \in Int
              /\ Total(counted[lane], 0..full.round, metric) <= full[metric]
<1> DEFINE S == TotalsOf(lane)
           i == Max(S)
           full == full_run_metrics(log[lane])
<1>1. S # {} /\ full = metrics_of(log[lane][i].data)
  BY KindLines DEF full_run_metrics
<1>2. S \in SUBSET Int /\ IsFiniteSet(S)
  <2>1. S \subseteq parse_json_lines(log[lane])
    BY DEF TotalsOf
  <2> QED
    BY <2>1, LinesFinite, FS_Subset
<1>3. i \in S /\ \A j \in S : j <= i
  <2> HIDE DEF S
  <2> QED
    BY <1>1, <1>2, MaxIsLargest
<1>4. /\ RoundOf(lane, i) \in 0..(rounds(lane) - 1) /\ rounds(lane) \in Nat
      /\ Fits(lane, log[lane][i]) /\ IsTotal(log[lane][i])
      /\ \A j \in S : RoundOf(lane, j) \in Nat
  <2>1. /\ i \in TotalsOf(lane)
        /\ \A j \in S : j \in TotalsOf(lane)
    BY <1>3
  <2>2. IsTotal(log[lane][i])
    BY <2>1 DEF TotalsOf
  <2> HIDE DEF S, i
  <2> QED
    BY <2>1, <2>2, KindLines
<1>5. \A j \in S : RoundOf(lane, j) <= RoundOf(lane, i)
  <2> SUFFICES ASSUME NEW j \in S PROVE RoundOf(lane, j) <= RoundOf(lane, i)
    OBVIOUS
  <2>1. j = i \/ j < i
    BY <1>2, <1>3
  <2> QED
    BY <1>3, <1>4, <2>1, KindOrder
<1>6. /\ full.round = RoundOf(lane, i)
      /\ \A metric \in Metric : full[metric] = log[lane][i].data[metric]
  <2> DEFINE d == log[lane][i].data
  <2>1. DOMAIN d = CountKeys
    BY <1>4 DEF IsTotal
  <2>2. full = [key \in {"round"} \cup (Metric \cap DOMAIN d) |-> d[key]]
    BY <1>1 DEF metrics_of, Restrict
  <2> HIDE DEF d
  <2> QED
    BY <2>1, <2>2, KeysDiffer DEF d, RoundOf
<1>7. \A metric \in Metric :
        Total(counted[lane], 0..RoundOf(lane, i), metric)
          <= log[lane][i].data[metric]
  BY <1>4 DEF Fits, RoundOf
<1>8. \A metric \in Metric : log[lane][i].data[metric] \in Int
  <2>1. log[lane][i] \in LineType
    BY <1>3, KindLines DEF MacosInv, MacosTypes
  <2>2. PICK keys \in SUBSET DataKeys : log[lane][i].data \in [keys -> Int]
    BY <2>1 DEF LineType, Data
  <2>3. keys = CountKeys
    BY <1>4, <2>2 DEF IsTotal
  <2> QED
    BY <2>2, <2>3, KeysDiffer
<1> HIDE DEF S, i, full
<1> QED
  BY <1>3, <1>4, <1>5, <1>6, <1>7, <1>8 DEF full, S

\* A total is a natural number.
LEMMA TotalIsInt ==
  ASSUME MacosInv, NEW lane \in Lane, NEW metric \in Metric,
         NEW included \in SUBSET (0..(Len(counted[lane]) - 1))
  PROVE  /\ IsFiniteSet(included)
         /\ \A r \in included : counted[lane][r + 1][metric] \in Nat
         /\ Total(counted[lane], included, metric) \in Nat
<1>1. counted[lane] \in Seq(Counters) /\ Len(counted[lane]) \in Nat
  BY LinesFinite
<1>2. IsFiniteSet(included)
  <2>1. IsFiniteSet(0..(Len(counted[lane]) - 1))
    BY <1>1, FS_Interval
  <2> QED
    BY <2>1, FS_Subset
<1>3. \A r \in included : counted[lane][r + 1][metric] \in Nat
  <2> TAKE r \in included
  <2>1. counted[lane][r + 1] \in Counters
    BY <1>1
  <2> QED
    BY <2>1 DEF Counters
<1>4. Total(counted[lane], included, metric) \in Nat
  <2> DEFINE f == [r \in included |-> counted[lane][r + 1][metric]]
  <2>1. \A r \in included : f[r] \in Nat
    BY <1>3
  <2> HIDE DEF f
  <2>2. SumFunctionOnSet(f, included) \in Nat
    BY <1>2, <2>1, SumNat
  <2> QED
    BY <2>2 DEF Total, f
<1> QED
  BY <1>2, <1>3, <1>4

\* The report's two accounts of a lane fit together.
THEOREM CountersCorrect == Spec => []CountersAddUp
<1>1. MacosInv => CountersAddUp
  <2> SUFFICES ASSUME MacosInv, report # Nothing, NEW lane \in Lane
               PROVE  LET benchmark == report.benchmarks[lane]
                          full == benchmark.full_run
                          rows == benchmark.rows
                      IN /\ \A r \in DOMAIN rows : \A metric \in Metric :
                              rows[r][metric] = counted[lane][r + 1][metric]
                         /\ (full # Nothing /\ DOMAIN rows # {}) =>
                              /\ lost = 0 => full.round = Max(DOMAIN rows)
                              /\ \A metric \in Metric :
                                   SumFunction(
                                     [r \in {q \in DOMAIN rows : q <= full.round} |->
                                        rows[r][metric]]) <= full[metric]
    BY DEF CountersAddUp
  <2> DEFINE rows == build_per_round(log[lane])
             full == full_run_metrics(log[lane])
  <2>1. /\ report.benchmarks[lane].rows = rows
        /\ report.benchmarks[lane].full_run = full
        /\ Len(counted[lane]) = rounds(lane)
    BY ReportIs
  <2>2. /\ DOMAIN rows = {RoundOf(lane, i) : i \in DeltasOf(lane)}
        /\ \A r \in DOMAIN rows :
              /\ r \in 0..(rounds(lane) - 1) /\ r \in Nat
              /\ available
              /\ \A metric \in Metric :
                   /\ rows[r][metric] = counted[lane][r + 1][metric]
                   /\ rows[r][metric] \in Nat
    BY <2>1, RowsAre
  <2>3. full # Nothing =>
         /\ \E i \in TotalsOf(lane) :
              /\ full.round = RoundOf(lane, i)
              /\ \A j \in TotalsOf(lane) : RoundOf(lane, j) <= full.round
         /\ full.round \in 0..(rounds(lane) - 1)
         /\ \A metric \in Metric :
              /\ full[metric] \in Int
              /\ Total(counted[lane], 0..full.round, metric) <= full[metric]
    BY <2>1, FullIs
  <2>4. rounds(lane) \in Nat
    BY RoundsNat DEF MacosInv
  <2>5. DeltasOf(lane) \subseteq parse_json_lines(log[lane])
    BY DEF DeltasOf
  <2> HIDE DEF rows, full
  <2>6. ASSUME full # Nothing, DOMAIN rows # {}, lost = 0
        PROVE  full.round = Max(DOMAIN rows)
    <3>1. available
      BY <2>2, <2>6
    <3>2. /\ \A r \in 0..(rounds(lane) - 1) :
               \E i \in TotalsOf(lane) : RoundOf(lane, i) = r
          /\ \A r \in 0..(rounds(lane) - 1) :
               \E i \in DeltasOf(lane) : RoundOf(lane, i) = r
      BY <2>1, <2>6, <3>1, KindOrder
    <3>3. DOMAIN rows = 0..(rounds(lane) - 1)
      BY <2>2, <3>2
    <3>4. full.round = rounds(lane) - 1
      <4>1. rounds(lane) - 1 \in 0..(rounds(lane) - 1)
        BY <2>3, <2>4, <2>6
      <4>2. rounds(lane) - 1 <= full.round
        BY <2>3, <2>6, <3>2, <4>1
      <4> QED
        BY <2>3, <2>4, <2>6, <4>2
    <3>5. /\ Max(DOMAIN rows) \in DOMAIN rows
          /\ \A r \in DOMAIN rows : r <= Max(DOMAIN rows)
      <4>1. DOMAIN rows \in SUBSET Int /\ IsFiniteSet(DOMAIN rows)
        BY <2>4, <3>3, FS_Interval
      <4> QED
        BY <2>6, <4>1, MaxIsLargest
    <3> QED
      BY <2>3, <2>4, <2>6, <3>3, <3>4, <3>5
  <2>7. ASSUME full # Nothing, NEW metric \in Metric
        PROVE  SumFunction([r \in {q \in DOMAIN rows : q <= full.round} |->
                              rows[r][metric]]) <= full[metric]
    <3> DEFINE T == {q \in DOMAIN rows : q <= full.round}
               S == 0..full.round
               f == [r \in S |-> counted[lane][r + 1][metric]]
               g == [r \in T |-> rows[r][metric]]
    <3>1. T \in SUBSET S /\ S \in SUBSET (0..(Len(counted[lane]) - 1))
      BY <2>1, <2>2, <2>3, <2>4, <2>7
    <3>2. IsFiniteSet(S) /\ IsFiniteSet(T) /\ (\A r \in S : f[r] \in Nat)
          /\ Total(counted[lane], S, metric) \in Nat
      BY <3>1, TotalIsInt, FS_Subset
    <3>3. \A r \in T : g[r] \in Int /\ g[r] = f[r]
      BY <2>2, <3>1
    <3>4. SumFunction(g) = SumFunctionOnSet(g, T)
      BY DEF SumFunction
    <3>5. SumFunctionOnSet(f, S) = Total(counted[lane], S, metric)
      BY DEF Total
    <3>6. Total(counted[lane], S, metric) <= full[metric]
      BY <2>3, <2>7
    <3>f. full[metric] \in Int
      BY <2>3, <2>7
    <3> HIDE DEF T, S, f, g
    <3>7. SumFunctionOnSet(g, T) = SumFunctionOnSet(f, T)
      BY <3>2, <3>3, SumEqual
    <3>8. SumFunctionOnSet(f, T) <= SumFunctionOnSet(f, S)
      BY <3>1, <3>2, SumSubset
    <3>9. SumFunctionOnSet(f, T) \in Int
      BY <3>1, <3>2, <3>3, SumInt
    <3>10. SumFunctionOnSet(f, T) <= full[metric]
      BY <3>2, <3>5, <3>6, <3>8, <3>9, <3>f
    <3> QED
      BY <3>4, <3>7, <3>10 DEF g, T
  <2> QED
    BY <2>1, <2>2, <2>6, <2>7
<1> QED
  BY <1>1, MacosAlways, PTL

\* The statistics of the same values under other names are the same.
LEMMA SameStatistics ==
  ASSUME NEW f, NEW g, NEW h, IsFiniteSet(DOMAIN g),
         DOMAIN f = {h[x] : x \in DOMAIN g}, DOMAIN h = DOMAIN g,
         \A x, y \in DOMAIN g : h[x] = h[y] => x = y,
         \A x \in DOMAIN g : f[h[x]] \in Int /\ g[x] = f[h[x]]
  PROVE  Statistics(f) = Statistics(g)
<1>1. SumFunction(f) = SumFunction(g)
  <2>1. SumFunctionOnSet(f, {h[x] : x \in DOMAIN g}) = SumFunctionOnSet(g, DOMAIN g)
    BY SumImage
  <2> QED
    BY <2>1 DEF SumFunction
<1>2. Range(f) = Range(g)
  BY DEF Range
<1>3. Cardinality(DOMAIN f) = Cardinality(DOMAIN g)
  <2> DEFINE b == [x \in DOMAIN g |-> h[x]]
  <2>1. b \in Bijection(DOMAIN g, DOMAIN f)
    BY DEF Bijection, Injection, Surjection, IsInjective
  <2>2. ExistsBijection(DOMAIN g, DOMAIN f)
    BY <2>1 DEF ExistsBijection
  <2> QED
    BY <2>2, FS_Bijection
<1> QED
  BY <1>1, <1>2, <1>3 DEF Statistics

\* The steady state of the report, in terms of what was counted.
LEMMA HereIs ==
  ASSUME MacosInv, report # Nothing, NEW lane \in Lane
  PROVE  LET here == report.benchmarks[lane].steady_state
             rows == build_per_round(log[lane])
         IN /\ here = steady_state_summary(rows, StartRound)
            /\ here.included = {r \in DOMAIN rows : r >= StartRound}
            /\ here.included
                 = {RoundOf(lane, i) : i \in {j \in DeltasOf(lane) :
                                                RoundOf(lane, j) >= StartRound}}
            /\ here.included \subseteq SteadyRounds(lane)
            /\ here.included \subseteq 0..(Len(counted[lane]) - 1)
            /\ here.included # {} => available
            /\ lost = 0 /\ available => here.included = SteadyRounds(lane)
<1> DEFINE here == report.benchmarks[lane].steady_state
           rows == build_per_round(log[lane])
           D == DeltasOf(lane)
<1>1. here = steady_state_summary(rows, StartRound)
      /\ Len(counted[lane]) = rounds(lane)
  BY ReportIs
<1>2. here.included = {r \in DOMAIN rows : r >= StartRound}
  BY <1>1, SummaryIs
<1>3. /\ DOMAIN rows = {RoundOf(lane, i) : i \in D}
      /\ \A r \in DOMAIN rows : r \in 0..(rounds(lane) - 1) /\ available
  BY <1>1, RowsAre
<1>4. here.included
        = {RoundOf(lane, i) : i \in {j \in D : RoundOf(lane, j) >= StartRound}}
  <2> HIDE DEF here, rows, D
  <2> QED
    BY <1>2, <1>3
<1>5. StartRound \in Nat /\ rounds(lane) \in Nat
  BY BoundsAssumption, RoundsNat DEF MacosInv
<1>6. here.included \subseteq SteadyRounds(lane)
      /\ here.included \subseteq 0..(Len(counted[lane]) - 1)
      /\ (here.included # {} => available)
  <2> HIDE DEF here, rows, D
  <2> QED
    BY <1>1, <1>2, <1>3, <1>5 DEF SteadyRounds
<1>7. ASSUME lost = 0, available
      PROVE  {RoundOf(lane, i) : i \in {j \in D : RoundOf(lane, j) >= StartRound}}
               = SteadyRounds(lane)
  BY <1>1, <1>7, AllSteady
<1> QED
  BY <1>1, <1>2, <1>4, <1>6, <1>7

\* The two extractors tell the same of the rounds' times.
THEOREM ExtractorsCorrect == Spec => []ExtractorsAgree
<1>1. MacosInv => ExtractorsAgree
  <2> SUFFICES ASSUME MacosInv, report # Nothing, NEW lane \in Lane,
                      "elapsed_ns" \in
                        DOMAIN report.benchmarks[lane].steady_state.metrics
               PROVE  LET here == report.benchmarks[lane].steady_state
                          there == run.benchmarks[lane].steady_state
                      IN /\ there # Nothing
                         /\ here.included \subseteq there.included
                         /\ lost = 0 =>
                              /\ here.included = there.included
                              /\ here.metrics.elapsed_ns = there.metrics.elapsed_ns
    BY DEF ExtractorsAgree
  <2> DEFINE here == report.benchmarks[lane].steady_state
             there == run.benchmarks[lane].steady_state
             rows == build_per_round(log[lane])
             selected == here.included
             ST == SteadyTimes(lane)
             f == [r \in selected |-> rows[r]["elapsed_ns"]]
             g == [i \in ST |-> log[lane][i].data.elapsed_ns]
             h == [i \in ST |-> RoundOf(lane, i)]
  <2>1. /\ stage = "done" /\ skipped = {}
        /\ Len(counted[lane]) = rounds(lane)
    BY ReportIs
  <2>2. there = summarize_steady_state(collect_round_metrics(log[lane]), StartRound)
    <3>1. run.benchmarks[lane] = parse_probe_log(log[lane], StartRound)
      BY <2>1, RunIs
    <3> QED
      BY <3>1 DEF parse_probe_log
  <2>3. /\ here = steady_state_summary(rows, StartRound)
        /\ selected = {r \in DOMAIN rows : r >= StartRound}
        /\ selected # {} => available
        /\ lost = 0 /\ available => selected = SteadyRounds(lane)
    BY HereIs
  <2>4. /\ selected # {}
        /\ \A r \in selected : "elapsed_ns" \in DOMAIN rows[r]
        /\ here.metrics["elapsed_ns"] = Statistics(f)
    <3> DEFINE late == {r \in DOMAIN rows : r >= StartRound}
    <3>1. "elapsed_ns" \in DOMAIN here.metrics
      OBVIOUS
    <3> HIDE DEF here, rows
    <3>2. /\ late # {}
          /\ \A r \in late : "elapsed_ns" \in DOMAIN rows[r]
          /\ here.metrics["elapsed_ns"]
               = Statistics([r \in late |-> rows[r]["elapsed_ns"]])
      BY <2>3, <3>1, SummaryIs
    <3>3. selected = late
      BY <2>3
    <3> HIDE DEF selected, late
    <3> QED
      BY <3>2, <3>3
  <2>5. \A r \in selected :
          /\ \E i \in TimesOf(lane) : RoundOf(lane, i) = r
          /\ rows[r]["elapsed_ns"] = r + 1 /\ r \in Nat
    <3>1. \A r \in selected : r \in DOMAIN rows
      BY <2>3
    <3> QED
      BY <2>1, <2>4, <3>1, RowsAre
  <2>6. selected \subseteq {RoundOf(lane, i) : i \in ST} /\ ST # {}
    BY <2>3, <2>4, <2>5 DEF SteadyTimes
  <2>7. /\ there # Nothing
        /\ there.included = {RoundOf(lane, i) : i \in ST}
        /\ there.metrics["elapsed_ns"] = Statistics(g)
    BY <2>2, <2>6, SteadyIs
  <2>8. ASSUME lost = 0
        PROVE  selected = there.included /\ Statistics(f) = Statistics(g)
    <3>1. {RoundOf(lane, i) : i \in ST} = SteadyRounds(lane)
      BY <2>1, <2>8, AllSteady DEF SteadyTimes
    <3>2. selected = {RoundOf(lane, i) : i \in ST}
      BY <2>3, <2>4, <2>8, <3>1
    <3>3. IsFiniteSet(ST)
      <4>1. ST \subseteq parse_json_lines(log[lane])
        BY DEF SteadyTimes, TimesOf
      <4> QED
        BY <4>1, LinesFinite, FS_Subset
    <3>4. \A i, j \in ST : h[i] = h[j] => i = j
      <4>1. ST \subseteq TimesOf(lane)
        BY DEF SteadyTimes
      <4> QED
        BY <4>1, KindOrder
    <3>5. \A i \in ST : /\ log[lane][i].data.elapsed_ns = RoundOf(lane, i) + 1
      BY KindLines DEF SteadyTimes
    <3>6. /\ DOMAIN f = selected /\ DOMAIN g = ST /\ DOMAIN h = ST
          /\ \A r \in selected : f[r] = rows[r]["elapsed_ns"]
          /\ \A i \in ST : /\ h[i] = RoundOf(lane, i)
                           /\ g[i] = log[lane][i].data.elapsed_ns
      OBVIOUS
    <3> HIDE DEF f, g, h, here, there, rows, selected, ST
    <3>7. \A i \in ST : f[h[i]] \in Int /\ g[i] = f[h[i]]
      BY <2>5, <3>2, <3>5, <3>6
    <3>8. DOMAIN f = {h[i] : i \in DOMAIN g}
      BY <3>2, <3>6
    <3>9. Statistics(f) = Statistics(g)
      BY <3>3, <3>4, <3>6, <3>7, <3>8, SameStatistics
    <3> QED
      BY <2>7, <3>2, <3>9
  <2> QED
    BY <2>4, <2>6, <2>7, <2>8
<1> QED
  BY <1>1, MacosAlways, PTL

\* The mean the report uses is what was counted in the rounds of its window.
LEMMA MeanIs ==
  ASSUME MacosInv, report # Nothing, NEW lane \in Lane, NEW metric \in Metric
  PROVE  LET here == report.benchmarks[lane].steady_state
             included == here.included
         IN /\ included # {} =>
                 mean_of(here, metric)
                   = [n |-> CountedIn(lane, included, metric),
                      d |-> Cardinality(included)]
            /\ included = {} => /\ mean_of(here, metric) = Whole(0)
                                /\ CountedIn(lane, included, metric) = 0
            /\ CountedIn(lane, included, metric) \in Nat
            /\ IsFiniteSet(included)
<1> DEFINE here == report.benchmarks[lane].steady_state
           rows == build_per_round(log[lane])
           included == here.included
           late == {r \in DOMAIN rows : r >= StartRound}
           f == [r \in included |-> rows[r][metric]]
           g == [r \in included |-> counted[lane][r + 1][metric]]
<1>1. /\ here = steady_state_summary(rows, StartRound)
      /\ included = late
      /\ included \in SUBSET (0..(Len(counted[lane]) - 1))
  BY HereIs
<1>2. /\ IsFiniteSet(included)
      /\ Total(counted[lane], included, metric) \in Nat
  BY <1>1, TotalIsInt
<1>3. CountedIn(lane, included, metric) = Total(counted[lane], included, metric)
  BY DEF CountedIn, SumFunction, Total
<1>4. \A r \in included : /\ metric \in DOMAIN rows[r]
                          /\ rows[r][metric] = counted[lane][r + 1][metric]
  <2>1. Len(counted[lane]) = rounds(lane)
    BY ReportIs
  <2>2. \A r \in included : r \in DOMAIN rows
    BY <1>1
  <2> QED
    BY <2>1, <2>2, RowsAre
<1>5. CASE included # {}
  <2>1. /\ \A r \in late : metric \in DOMAIN rows[r]
        /\ late # {}
    BY <1>1, <1>4, <1>5
  <2>2. /\ metric \in DOMAIN here.metrics
        /\ here.metrics[metric] = Statistics([r \in late |-> rows[r][metric]])
    <3> HIDE DEF here, rows
    <3> QED
      BY <1>1, <2>1, SummaryIs
  <2>3. [r \in late |-> rows[r][metric]] = f /\ f = g
    <3> HIDE DEF rows, included, late
    <3> QED
      BY <1>1, <1>4
  <2>4. here.metrics[metric] = Statistics(g)
    <3> HIDE DEF here, rows, late, f, g
    <3> QED
      BY <2>2, <2>3 DEF late
  <2>5. Statistics(g).mean = [n |-> SumFunction(g), d |-> Cardinality(included)]
    BY DEF Statistics
  <2>6. mean_of(here, metric) = Statistics(g).mean
    <3> HIDE DEF here, g
    <3> QED
      BY <2>2, <2>4 DEF mean_of
  <2>7. SumFunction(g) = CountedIn(lane, included, metric)
    BY DEF CountedIn
  <2> QED
    BY <1>2, <1>3, <1>5, <2>5, <2>6, <2>7
<1>6. CASE included = {}
  <2>1. metric \notin DOMAIN here.metrics
    <3> HIDE DEF here, rows
    <3> QED
      BY <1>1, <1>6, SummaryIs
  <2>2. mean_of(here, metric) = Whole(0)
    BY <2>1 DEF mean_of
  <2>3. Total(counted[lane], included, metric) = 0
    <3> HIDE DEF included
    <3> QED
      BY <1>6, SumEmpty DEF Total
  <2> QED
    BY <1>2, <1>3, <1>6, <2>2, <2>3
<1> QED
  BY <1>5, <1>6

\* What within_about_1_5x says of a mean, with FreeBSD's rate of 3.21 a round.
LEMMA WithinIs ==
  ASSUME NEW steady, NEW n \in Nat, NEW d \in Nat, NEW metric \in {"mainq", "poke"},
         mean_of(steady, metric) = [n |-> n, d |-> d],
         compare_to_freebsd(steady, PRIMARY_FREEBSD_STEADY_STATE)[metric]
           .within_about_1_5x
  PROVE  1926 * d <= 1000 * n /\ 10000 * n <= 52965 * d
<1> DEFINE m == [n |-> n, d |-> d]
           low == [n |-> 60, d |-> 100]
           high == [n |-> 165, d |-> 100]
           q == [n |-> n * 100, d |-> d * 321]
<1>1. PRIMARY_FREEBSD_STEADY_STATE[metric] = [n |-> 321, d |-> 100]
      /\ metric \in DOMAIN PRIMARY_FREEBSD_STEADY_STATE
  BY DEF PRIMARY_FREEBSD_STEADY_STATE
<1>2. ratio(m, [n |-> 321, d |-> 100]) = <<q>>
  BY DEF ratio
<1>3. \E x \in Range(ratio(m, [n |-> 321, d |-> 100])) :
        AtMost(low, x) /\ AtMost(x, high)
  <2>1. compare_to_freebsd(steady, PRIMARY_FREEBSD_STEADY_STATE)[metric]
          .within_about_1_5x
          = (\E x \in Range(ratio(mean_of(steady, metric),
                                 PRIMARY_FREEBSD_STEADY_STATE[metric])) :
               AtMost(low, x) /\ AtMost(x, high))
    BY <1>1 DEF compare_to_freebsd
  <2> QED
    BY <1>1, <2>1
<1>4. Range(<<q>>) = {q}
  BY DEF Range
<1>5. AtMost(low, q) /\ AtMost(q, high)
  BY <1>2, <1>3, <1>4
<1> QED
  BY <1>5 DEF AtMost, Less

\* The decision to stop tuning rests on rounds that were run.
THEOREM StopCorrect == Spec => []StopIsEarned
<1>1. MacosInv => StopIsEarned
  <2> SUFFICES ASSUME MacosInv, report # Nothing,
                      report.decision.outcome = "stop_tuning_this_seam"
               PROVE  LET included(lane) ==
                            report.benchmarks[lane].steady_state.included
                          n == Cardinality(included("swift"))
                      IN /\ n > 0
                         /\ \A lane \in Lane :
                              /\ included(lane) \subseteq SteadyRounds(lane)
                              /\ lost = 0 => included(lane) = SteadyRounds(lane)
                         /\ \A metric \in {"mainq", "poke"} :
                              LET total ==
                                    CountedIn("swift", included("swift"), metric)
                              IN /\ 1926 * n <= 1000 * total
                                 /\ 10000 * total <= 52965 * n
                                 /\ CountedIn("c", included("c"), metric) = 0
    BY DEF StopIsEarned
  <2> DEFINE steady(lane) == report.benchmarks[lane].steady_state
             included(lane) == steady(lane).included
             n == Cardinality(included("swift"))
  <2>1. /\ \A metric \in {"mainq", "poke"} :
             /\ compare_to_freebsd(steady("swift"), PRIMARY_FREEBSD_STEADY_STATE)
                  [metric].within_about_1_5x
             /\ mean_of(steady("c"), metric).n = 0
    <3>1. /\ report.decision = build_decision(report.benchmarks["swift"],
                                              report.benchmarks["c"])
          /\ report.benchmarks["swift"].comparison_to_freebsd
               = compare_to_freebsd(steady("swift"), PRIMARY_FREEBSD_STEADY_STATE)
          /\ report.benchmarks["c"].comparison_to_freebsd
               = compare_to_freebsd(steady("c"), CONTROL_FREEBSD_STEADY_STATE)
      BY ReportIs DEF Reference
    <3>2. /\ report.benchmarks["swift"].comparison_to_freebsd.mainq.within_about_1_5x
          /\ report.benchmarks["swift"].comparison_to_freebsd.poke.within_about_1_5x
          /\ \A metric \in {"mainq", "poke"} :
               report.benchmarks["c"].comparison_to_freebsd[metric]
                 .macos_per_round.n = 0
      BY <3>1 DEF build_decision
    <3>3. DOMAIN CONTROL_FREEBSD_STEADY_STATE = {"mainq", "poke"}
      BY DEF CONTROL_FREEBSD_STEADY_STATE
    <3>4. \A metric \in {"mainq", "poke"} :
            compare_to_freebsd(steady("c"), CONTROL_FREEBSD_STEADY_STATE)
              [metric].macos_per_round = mean_of(steady("c"), metric)
      BY <3>3 DEF compare_to_freebsd
    <3> HIDE DEF steady
    <3> QED
      BY <3>1, <3>2, <3>4
  <2>2. \A metric \in {"mainq", "poke"} : metric \in Metric
    BY MetricKeys
  <2>3. included("swift") # {}
    <3> SUFFICES ASSUME included("swift") = {} PROVE FALSE
      OBVIOUS
    <3>1. mean_of(steady("swift"), "mainq") = [n |-> 0, d |-> 1]
      BY <2>2, MeanIs DEF Whole
    <3> HIDE DEF steady
    <3>2. compare_to_freebsd(steady("swift"), PRIMARY_FREEBSD_STEADY_STATE)
            ["mainq"].within_about_1_5x
      BY <2>1
    <3>3. PICK total, d, metric : /\ total = 0 /\ d = 1 /\ metric = "mainq"
      OBVIOUS
    <3>4. /\ metric \in {"mainq", "poke"} /\ total \in Nat /\ d \in Nat
          /\ mean_of(steady("swift"), metric) = [n |-> total, d |-> d]
          /\ compare_to_freebsd(steady("swift"), PRIMARY_FREEBSD_STEADY_STATE)
               [metric].within_about_1_5x
      BY <3>1, <3>2, <3>3
    <3>5. 1926 * d <= 1000 * total
      BY <3>4, WithinIs
    <3> QED
      BY <3>3, <3>5
  <2>4. IsFiniteSet(included("swift")) /\ n \in Nat /\ n > 0
    <3>1. IsFiniteSet(included("swift"))
      BY <2>2, MeanIs
    <3> HIDE DEF included
    <3> QED
      BY <2>3, <3>1, FS_EmptySet, FS_CardinalityType
  <2>5. \A lane \in Lane :
          /\ included(lane) \subseteq SteadyRounds(lane)
          /\ lost = 0 => included(lane) = SteadyRounds(lane)
    <3>1. available
      BY <2>3, HereIs
    <3> QED
      BY <3>1, HereIs
  <2>6. ASSUME NEW metric \in {"mainq", "poke"}
        PROVE  LET total == CountedIn("swift", included("swift"), metric) IN
               /\ 1926 * n <= 1000 * total
               /\ 10000 * total <= 52965 * n
    <3> DEFINE total == CountedIn("swift", included("swift"), metric)
    <3>1. /\ mean_of(steady("swift"), metric) = [n |-> total, d |-> n]
          /\ total \in Nat
      BY <2>2, <2>3, MeanIs
    <3> HIDE DEF total, n, steady
    <3>2. compare_to_freebsd(steady("swift"), PRIMARY_FREEBSD_STEADY_STATE)
            [metric].within_about_1_5x
      BY <2>1
    <3>3. 1926 * n <= 1000 * total /\ 10000 * total <= 52965 * n
      BY <2>4, <3>1, <3>2, WithinIs
    <3> QED
      BY <3>3 DEF total
  <2>7. ASSUME NEW metric \in {"mainq", "poke"}
        PROVE  CountedIn("c", included("c"), metric) = 0
    <3>1. mean_of(steady("c"), metric).n = 0
      BY <2>1
    <3>2. CASE included("c") = {}
      BY <2>2, <3>2, MeanIs
    <3>3. CASE included("c") # {}
      <4>1. mean_of(steady("c"), metric)
              = [n |-> CountedIn("c", included("c"), metric),
                 d |-> Cardinality(included("c"))]
        BY <2>2, <3>3, MeanIs
      <4> QED
        BY <3>1, <4>1
    <3> QED
      BY <3>2, <3>3
  <2> QED
    BY <2>4, <2>5, <2>6, <2>7
<1> QED
  BY <1>1, MacosAlways, PTL

-----------------------------------------------------------------------------
(* The trace: its whole lines about pushes are the pushes.                  *)

PushLine(q) ==
  [event |-> "push_vtable", words |-> 7, rq |-> RuntimeRoot(q[1]),
   vtable |-> RuntimeVtable(q[2])]

\* The row that a root and an object have in what is parsed.
RowOf(q) == <<RuntimeRoot(q[1]), RuntimeVtable(q[2])>>

Candidates == infer_slide(push_vtables(parse_trace(trace).pushes), Symbols)

TraceInv ==
  /\ library \in Libraries /\ slide \in Slides
  /\ IsFiniteSet(DOMAIN pushed) /\ DOMAIN pushed \subseteq Root \X Object
  /\ \A q \in DOMAIN pushed : pushed[q] \in Nat \ {0}
  /\ \A line \in DOMAIN trace :
       /\ DOMAIN line = {"event", "words", "rq", "vtable"}
       /\ line.words \in Nat
  /\ whole(trace, "push_vtable") = {PushLine(q) : q \in DOMAIN pushed}
  /\ \A q \in DOMAIN pushed : trace[PushLine(q)] = pushed[q]
  /\ \/ told = Pending
     \/ told = [outcome |-> "no_slide"] /\ Candidates = {}
     \/ \E inferred \in Candidates :
          told = print_tables(inferred, parse_trace(trace), Symbols)

\* Different objects have different first words, different roots addresses.
LEMMA Injective ==
  ASSUME slide \in Slides
  PROVE  /\ \A a, b \in Object : RuntimeVtable(a) = RuntimeVtable(b) => a = b
         /\ \A a, b \in Root : RuntimeRoot(a) = RuntimeRoot(b) => a = b
         /\ \A p, q \in Root \X Object : RowOf(p) = RowOf(q) => p = q
         /\ \A p, q \in Root \X Object : PushLine(p) = PushLine(q) => p = q
<1>1. slide \in Nat /\ slide > Inline /\ Inline \in Nat /\ RootTable \in Int
      /\ (\A o \in Object : VtableAt[o] \in Nat)
      /\ (\A a, b \in Object : VtableAt[a] = VtableAt[b] => a = b)
      /\ (\A r \in Root : RootAt[r] \in Int)
      /\ (\A a, b \in Root : RootAt[a] = RootAt[b] => a = b)
  BY TraceAssumption DEF IsInjective
<1>2. \A a, b \in Object : RuntimeVtable(a) = RuntimeVtable(b) => a = b
  BY <1>1 DEF RuntimeVtable, IsInline
<1>3. \A a, b \in Root : RuntimeRoot(a) = RuntimeRoot(b) => a = b
  BY <1>1 DEF RuntimeRoot
<1>4. \A p, q \in Root \X Object : RowOf(p) = RowOf(q) => p = q
  BY <1>2, <1>3 DEF RowOf
<1>5. \A p, q \in Root \X Object : PushLine(p) = PushLine(q) => p = q
  BY <1>2, <1>3 DEF PushLine
<1> QED
  BY <1>2, <1>3, <1>4, <1>5

\* The bag with one line more.
LEMMA OneMore ==
  ASSUME NEW bag, NEW x
  PROVE  /\ DOMAIN (bag (+) SetToBag({x})) = DOMAIN bag \cup {x}
         /\ \A y \in DOMAIN bag \ {x} : (bag (+) SetToBag({x}))[y] = bag[y] + 0
         /\ x \in DOMAIN bag => (bag (+) SetToBag({x}))[x] = bag[x] + 1
         /\ x \notin DOMAIN bag => (bag (+) SetToBag({x}))[x] = 1
  BY DEF (+), SetToBag

\* A line that is no whole line about a push leaves them alone.
LEMMA OtherLine ==
  ASSUME TraceInv, told = Pending, NEW line,
         DOMAIN line = {"event", "words", "rq", "vtable"}, line.words \in Nat,
         line.event # "push_vtable" \/ line.words < 7,
         trace' = trace (+) SetToBag({line}),
         UNCHANGED <<library, slide, pushed, told>>
  PROVE  TraceInv'
<1>1. \A q \in DOMAIN pushed : PushLine(q) # line
  BY DEF PushLine
<1>2. DOMAIN trace' = DOMAIN trace \cup {line}
      /\ (\A y \in DOMAIN trace \ {line} : trace'[y] = trace[y] + 0)
  BY OneMore
<1>3. whole(trace', "push_vtable") = whole(trace, "push_vtable")
  BY <1>2 DEF whole, BagToSet, TraceInv
<1>4. \A q \in DOMAIN pushed : PushLine(q) \in DOMAIN trace
  BY DEF TraceInv, whole, BagToSet
<1>5. \A q \in DOMAIN pushed : trace'[PushLine(q)] = pushed[q]
  <2> SUFFICES ASSUME NEW q \in DOMAIN pushed
               PROVE  trace'[PushLine(q)] = pushed[q]
    OBVIOUS
  <2>1. trace[PushLine(q)] = pushed[q] /\ pushed[q] \in Nat
    BY DEF TraceInv
  <2>2. trace'[PushLine(q)] = trace[PushLine(q)] + 0
    BY <1>1, <1>2, <1>4
  <2> QED
    BY <2>1, <2>2
<1>6. \A q : PushLine(q)' = PushLine(q)
  BY DEF PushLine, RuntimeRoot, RuntimeVtable
<1> QED
  BY <1>2, <1>3, <1>5, <1>6 DEF TraceInv

\* A push adds a line, and to what was pushed unless the line is cut short.
LEMMA PushStep ==
  ASSUME TraceInv, NEW root \in Root, NEW object \in Object,
         Push(root, object, 7)
  PROVE  TraceInv'
<1> DEFINE x == <<root, object>>
           line == PushLine(x)
<1>1. /\ trace' = trace (+) SetToBag({line})
      /\ pushed' = pushed (+) SetToBag({x})
      /\ UNCHANGED <<library, slide, told>> /\ told = Pending
  BY DEF Push, PushLine
<1>2. /\ DOMAIN trace' = DOMAIN trace \cup {line}
      /\ DOMAIN pushed' = DOMAIN pushed \cup {x}
      /\ \A y \in DOMAIN trace \ {line} : trace'[y] = trace[y] + 0
      /\ \A y \in DOMAIN pushed \ {x} : pushed'[y] = pushed[y] + 0
      /\ line \in DOMAIN trace => trace'[line] = trace[line] + 1
      /\ line \notin DOMAIN trace => trace'[line] = 1
      /\ x \in DOMAIN pushed => pushed'[x] = pushed[x] + 1
      /\ x \notin DOMAIN pushed => pushed'[x] = 1
  BY <1>1, OneMore
<1>3. x \in Root \X Object /\ DOMAIN pushed \subseteq Root \X Object
  BY DEF TraceInv
<1>4. \A p, q \in Root \X Object : PushLine(p) = PushLine(q) => p = q
  BY Injective DEF TraceInv
<1>5. /\ line.event = "push_vtable" /\ line.words = 7
      /\ DOMAIN line = {"event", "words", "rq", "vtable"}
  BY DEF PushLine
<1> HIDE DEF line, x
<1>6. whole(trace', "push_vtable") = whole(trace, "push_vtable") \cup {line}
  BY <1>2, <1>5 DEF whole, BagToSet
<1>7. whole(trace', "push_vtable") = {PushLine(q) : q \in DOMAIN pushed'}
  BY <1>2, <1>6 DEF TraceInv, line
<1>8. \A q \in DOMAIN pushed : PushLine(q) \in DOMAIN trace
  BY DEF TraceInv, whole, BagToSet
<1>9. line \in DOMAIN trace <=> x \in DOMAIN pushed
  <2>1. line \in DOMAIN trace => line \in whole(trace, "push_vtable")
    BY <1>5 DEF whole, BagToSet
  <2> QED
    BY <2>1, <1>3, <1>4, <1>8 DEF line, TraceInv
<1>10. ASSUME NEW q \in DOMAIN pushed'
       PROVE  trace'[PushLine(q)] = pushed'[q] /\ pushed'[q] \in Nat \ {0}
  <2>1. CASE q = x
    BY <1>2, <1>8, <1>9, <2>1 DEF line, TraceInv
  <2>2. CASE q # x
    <3>1. q \in DOMAIN pushed /\ PushLine(q) # line
      BY <1>2, <1>3, <1>4, <2>2 DEF line
    <3> QED
      BY <1>2, <1>8, <2>2, <3>1 DEF TraceInv
  <2> QED
    BY <2>1, <2>2
<1>11. \A q : PushLine(q)' = PushLine(q)
  BY <1>1 DEF PushLine, RuntimeRoot, RuntimeVtable
<1>12. IsFiniteSet(DOMAIN pushed')
  BY <1>2, FS_AddElement DEF TraceInv
<1>13. /\ library' \in Libraries /\ slide' \in Slides /\ told' = Pending
       /\ DOMAIN pushed' \subseteq Root \X Object
       /\ \A l \in DOMAIN trace' :
            /\ DOMAIN l = {"event", "words", "rq", "vtable"}
            /\ l.words \in Nat
  <2>1. \A l \in DOMAIN trace : /\ DOMAIN l = {"event", "words", "rq", "vtable"}
                               /\ l.words \in Nat
    BY DEF TraceInv
  <2>2. library \in Libraries /\ slide \in Slides
    BY DEF TraceInv
  <2>3. library' \in Libraries /\ slide' \in Slides /\ told' = Pending
    BY <1>1, <2>2
  <2>4. DOMAIN pushed' \subseteq Root \X Object
    BY <1>2, <1>3
  <2>5. \A l \in DOMAIN trace' : /\ DOMAIN l = {"event", "words", "rq", "vtable"}
                                /\ l.words \in Nat
    BY <1>2, <1>5, <2>1
  <2> QED
    BY <2>3, <2>4, <2>5
<1>14. whole(trace', "push_vtable") = {PushLine(q)' : q \in DOMAIN pushed'}
  BY <1>7, <1>11
<1>15. \A q \in DOMAIN pushed' :
         trace'[PushLine(q)'] = pushed'[q] /\ pushed'[q] \in Nat \ {0}
  BY <1>10, <1>11
<1> QED
  BY <1>12, <1>13, <1>14, <1>15 DEF TraceInv

\* The trace stays while the other kit is used.
LEMMA TraceStay == TraceInv /\ UNCHANGED traceVars => TraceInv'
<1> SUFFICES ASSUME TraceInv, UNCHANGED traceVars PROVE TraceInv'
  OBVIOUS
<1>1. library' = library /\ slide' = slide /\ trace' = trace /\ pushed' = pushed
      /\ told' = told
  BY DEF traceVars
<1>2. (\A q : PushLine(q)' = PushLine(q)) /\ Symbols' = Symbols
  BY <1>1 DEF PushLine, RuntimeRoot, RuntimeVtable, Symbols
<1>3. Candidates' = Candidates
  BY <1>1, <1>2 DEF Candidates
<1> QED
  BY <1>1, <1>2, <1>3 DEF TraceInv

\* TraceInv is inductive.
LEMMA TraceStep == TraceInv /\ TraceNext => TraceInv'
<1> SUFFICES ASSUME TraceInv, TraceNext PROVE TraceInv'
  OBVIOUS
<1>1. ASSUME NEW root \in Root, NEW object \in Object, NEW words \in {6, 7},
             Push(root, object, words)
      PROVE  TraceInv'
  <2>1. CASE words = 7
    BY <1>1, <2>1, PushStep
  <2>2. CASE words = 6
    <3> DEFINE line == [event |-> "push_vtable", words |-> words,
                        rq |-> RuntimeRoot(root), vtable |-> RuntimeVtable(object)]
    <3>1. /\ told = Pending /\ trace' = trace (+) SetToBag({line})
          /\ UNCHANGED <<library, slide, pushed, told>>
      BY <1>1, <2>2 DEF Push
    <3>2. /\ DOMAIN line = {"event", "words", "rq", "vtable"}
          /\ line.words \in Nat /\ line.words < 7
      BY <2>2
    <3> HIDE DEF line
    <3> QED
      BY <3>1, <3>2, OtherLine
  <2> QED
    BY <2>1, <2>2
<1>2. ASSUME NEW object \in Object, NEW words \in {6, 7}, Pop(object, words)
      PROVE  TraceInv'
  <2> DEFINE line == [event |-> "pop_vtable", words |-> words,
                      rq |-> 0, vtable |-> RuntimeVtable(object)]
  <2>1. /\ told = Pending /\ trace' = trace (+) SetToBag({line})
        /\ UNCHANGED <<library, slide, pushed, told>>
    BY <1>2 DEF Pop
  <2>2. /\ DOMAIN line = {"event", "words", "rq", "vtable"}
        /\ line.words \in Nat /\ line.event # "push_vtable"
    OBVIOUS
  <2> HIDE DEF line
  <2> QED
    BY <2>1, <2>2, OtherLine
<1>3. ASSUME NEW root \in Root, Poke(root)
      PROVE  TraceInv'
  <2> DEFINE line == [event |-> "poke_slow", words |-> 7,
                      rq |-> RuntimeRoot(root), vtable |-> 0]
  <2>1. /\ told = Pending /\ trace' = trace (+) SetToBag({line})
        /\ UNCHANGED <<library, slide, pushed, told>>
    BY <1>3 DEF Poke
  <2>2. /\ DOMAIN line = {"event", "words", "rq", "vtable"}
        /\ line.words \in Nat /\ line.event # "push_vtable"
    OBVIOUS
  <2> HIDE DEF line
  <2> QED
    BY <2>1, <2>2, OtherLine
<1>4. CASE Analyse
  <2>1. UNCHANGED <<library, slide, trace, pushed>>
    BY <1>4 DEF Analyse
  <2>2. \/ told' = [outcome |-> "no_slide"] /\ Candidates = {}
        \/ \E inferred \in Candidates :
             told' = print_tables(inferred, parse_trace(trace), Symbols)
    BY <1>4 DEF Analyse, Candidates
  <2>3. (\A q : PushLine(q)' = PushLine(q)) /\ Symbols' = Symbols
    BY <2>1 DEF PushLine, RuntimeRoot, RuntimeVtable, Symbols
  <2>4. Candidates' = Candidates
    BY <2>1, <2>3 DEF Candidates
  <2> QED
    BY <2>1, <2>2, <2>3, <2>4 DEF TraceInv
<1>5. CASE TraceDone
  BY <1>5, TraceStay DEF TraceDone
<1> QED
  BY <1>1, <1>2, <1>3, <1>4, <1>5 DEF TraceNext

\* The trace's state in every behaviour, also when the other kit is used.
LEMMA TraceAlways == Spec => []TraceInv
<1>1. Init => TraceInv
  <2> SUFFICES ASSUME Init PROVE TraceInv
    OBVIOUS
  <2>1. /\ library \in Libraries /\ slide \in Slides /\ told = Pending
        /\ DOMAIN trace = {} /\ DOMAIN pushed = {}
    BY DEF Init, TraceInit, EmptyBag, SetToBag
  <2>2. whole(trace, "push_vtable") = {PushLine(q) : q \in DOMAIN pushed}
    BY <2>1 DEF whole, BagToSet
  <2> QED
    BY <2>1, <2>2, FS_EmptySet DEF TraceInv
<1>2. TraceInv /\ [Next]_evidenceVars => TraceInv'
  BY TraceStep, TraceStay DEF Next, evidenceVars
<1> QED
  BY <1>1, <1>2, PTL DEF Spec

-----------------------------------------------------------------------------
(* What is parsed, and what is inferred from it.                            *)

\* The sum of one term.
LEMMA SumOfOne ==
  ASSUME NEW f, NEW x, f[x] \in Int
  PROVE  SumFunctionOnSet(f, {x}) = f[x]
<1>1. IsFiniteSet({x}) /\ {x} \ {x} = {}
  BY FS_Singleton
<1>2. SumFunctionOnSet(f, {x}) = f[x] + SumFunctionOnSet(f, {x} \ {x})
  BY <1>1, SumRemove
<1>3. SumFunctionOnSet(f, {x} \ {x}) = 0
  BY <1>1, SumEmpty
<1> QED
  BY <1>2, <1>3

\* SumFunction sums over the whole domain.
LEMMA SumOfPart ==
  ASSUME NEW f, NEW S, IsFiniteSet(S), \A x \in S : f[x] \in Int
  PROVE  SumFunction([x \in S |-> f[x]]) = SumFunctionOnSet(f, S)
<1> DEFINE g == [x \in S |-> f[x]]
<1>1. DOMAIN g = S /\ \A x \in S : g[x] \in Int /\ g[x] = f[x]
  OBVIOUS
<1> HIDE DEF g
<1>2. SumFunctionOnSet(g, S) = SumFunctionOnSet(f, S)
  BY <1>1, SumEqual
<1>3. SumFunction(g) = SumFunctionOnSet(f, S)
  BY <1>1, <1>2 DEF SumFunction
<1> QED
  BY <1>3 DEF g

\* Each root and object that was pushed has one entry, with its pushes.
LEMMA PushesAre ==
  ASSUME TraceInv
  PROVE  LET pushes == parse_trace(trace).pushes IN
         /\ DOMAIN pushes = {RowOf(q) : q \in DOMAIN pushed}
         /\ \A q \in DOMAIN pushed :
              pushes[RowOf(q)] = pushed[q] /\ pushed[q] \in Nat \ {0}
<1> DEFINE W == whole(trace, "push_vtable")
           pushes == parse_trace(trace).pushes
           part(p) == {l \in W : <<l.rq, l.vtable>> = p}
<1>1. pushes = [p \in {<<line.rq, line.vtable>> : line \in W} |->
                  SumFunction([line \in part(p) |-> trace[line]])]
  BY DEF parse_trace
<1>2. W = {PushLine(q) : q \in DOMAIN pushed}
      /\ (\A q \in DOMAIN pushed : trace[PushLine(q)] = pushed[q])
      /\ (\A q \in DOMAIN pushed : pushed[q] \in Nat \ {0})
      /\ DOMAIN pushed \subseteq Root \X Object
  BY DEF TraceInv
<1>3. \A q : <<PushLine(q).rq, PushLine(q).vtable>> = RowOf(q)
  BY DEF PushLine, RowOf
<1>4. \A p, q \in Root \X Object : RowOf(p) = RowOf(q) => p = q
  BY Injective DEF TraceInv
<1> HIDE DEF W
<1>5. {<<line.rq, line.vtable>> : line \in W} = {RowOf(q) : q \in DOMAIN pushed}
  BY <1>2, <1>3
<1>6. ASSUME NEW q \in DOMAIN pushed
      PROVE  pushes[RowOf(q)] = pushed[q]
  <2>1. part(RowOf(q)) = {PushLine(q)}
    BY <1>2, <1>3, <1>4
  <2>2. pushes[RowOf(q)] = SumFunction([line \in {PushLine(q)} |-> trace[line]])
    <3>1. RowOf(q) \in {<<line.rq, line.vtable>> : line \in W}
      BY <1>5
    <3> HIDE DEF part, pushes
    <3> QED
      BY <1>1, <2>1, <3>1
  <2>3. trace[PushLine(q)] = pushed[q] /\ pushed[q] \in Int
    BY <1>2
  <2> DEFINE x == PushLine(q)
  <2> HIDE DEF x
  <2>4. IsFiniteSet({x}) /\ trace[x] = pushed[q] /\ trace[x] \in Int
    BY <2>3, FS_Singleton DEF x
  <2>5. SumFunction([line \in {x} |-> trace[line]]) = SumFunctionOnSet(trace, {x})
    BY <2>4, SumOfPart
  <2>6. SumFunctionOnSet(trace, {x}) = trace[x]
    BY <2>4, SumOfOne
  <2> QED
    BY <2>2, <2>4, <2>5, <2>6 DEF x
<1>7. DOMAIN pushes = {RowOf(q) : q \in DOMAIN pushed}
  BY <1>1, <1>5
<1> QED
  BY <1>2, <1>6, <1>7

\* What is parsed of a trace is finite.
LEMMA PushesFinite ==
  ASSUME TraceInv
  PROVE  LET pushes == parse_trace(trace).pushes IN
         /\ IsFiniteSet(DOMAIN pushes)
         /\ \A p \in DOMAIN pushes : pushes[p] \in Int
<1> DEFINE pushes == parse_trace(trace).pushes
           h == [q \in DOMAIN pushed |-> RowOf(q)]
<1>1. /\ DOMAIN pushes = {RowOf(q) : q \in DOMAIN pushed}
      /\ \A q \in DOMAIN pushed : pushes[RowOf(q)] = pushed[q] /\ pushed[q] \in Int
  BY PushesAre
<1>2. IsFiniteSet(DOMAIN pushed)
  BY DEF TraceInv
<1> HIDE DEF pushes
<1>3. h \in Surjection(DOMAIN pushed, DOMAIN pushes)
  BY <1>1 DEF Surjection
<1>4. IsFiniteSet(DOMAIN pushes)
  BY <1>2, <1>3, FS_Surjection
<1> QED
  BY <1>1, <1>4 DEF pushes

\* The pushes of some vtables, counted by vtable or by push.
LEMMA VtablesAre ==
  ASSUME TraceInv
  PROVE  LET vtables == push_vtables(parse_trace(trace).pushes) IN
         /\ DOMAIN vtables = {RuntimeVtable(q[2]) : q \in DOMAIN pushed}
         /\ \A V \in SUBSET DOMAIN vtables :
              SumFunction([vt \in V |-> vtables[vt]])
                = SumFunctionOnSet(pushed,
                    {q \in DOMAIN pushed : RuntimeVtable(q[2]) \in V})
<1> DEFINE pushes == parse_trace(trace).pushes
           P == DOMAIN pushes
           vtables == push_vtables(pushes)
           key == [p \in P |-> p[2]]
           of(vt) == {p \in P : p[2] = vt}
<1>1. /\ P = {RowOf(q) : q \in DOMAIN pushed}
      /\ \A q \in DOMAIN pushed : pushes[RowOf(q)] = pushed[q] /\ pushed[q] \in Int
  BY PushesAre
<1>2. IsFiniteSet(P) /\ \A p \in P : pushes[p] \in Int
  BY PushesFinite
<1>3. vtables = [vt \in {p[2] : p \in P} |->
                   SumFunction([p \in of(vt) |-> pushes[p]])]
  BY DEF push_vtables
<1>4. \A q : RowOf(q)[2] = RuntimeVtable(q[2])
  BY DEF RowOf
<1> HIDE DEF pushes, P
<1>5. {p[2] : p \in P} = {RuntimeVtable(q[2]) : q \in DOMAIN pushed}
  BY <1>1, <1>4
<1>6. DOMAIN vtables = {RuntimeVtable(q[2]) : q \in DOMAIN pushed}
  BY <1>3, <1>5
<1>7. ASSUME NEW vt \in DOMAIN vtables
      PROVE  vtables[vt] = SumFunctionOnSet(pushes, {p \in P : key[p] = vt})
             /\ vtables[vt] \in Int
  <2>1. vtables[vt] = SumFunction([p \in of(vt) |-> pushes[p]])
    BY <1>3
  <2>2. IsFiniteSet(of(vt)) /\ \A p \in of(vt) : pushes[p] \in Int
    BY <1>2, FS_Subset
  <2>3. {p \in P : key[p] = vt} = of(vt)
    OBVIOUS
  <2> HIDE DEF of, key, vtables
  <2>4. SumFunction([p \in of(vt) |-> pushes[p]]) = SumFunctionOnSet(pushes, of(vt))
    BY <2>2, SumOfPart
  <2>5. SumFunctionOnSet(pushes, of(vt)) \in Int
    BY <2>2, SumInt
  <2> QED
    BY <2>1, <2>3, <2>4, <2>5
<1>8. IsFiniteSet(DOMAIN vtables)
  <2> DEFINE h == [p \in P |-> p[2]]
  <2>1. DOMAIN vtables = {p[2] : p \in P}
    BY <1>3
  <2> HIDE DEF vtables
  <2>2. h \in Surjection(P, DOMAIN vtables)
    BY <2>1 DEF Surjection
  <2> QED
    BY <1>2, <2>2, FS_Surjection
<1>9. ASSUME NEW V \in SUBSET DOMAIN vtables
      PROVE  SumFunction([vt \in V |-> vtables[vt]])
               = SumFunctionOnSet(pushed,
                    {q \in DOMAIN pushed : RuntimeVtable(q[2]) \in V})
  <2> DEFINE groups == [vt \in V |-> SumFunctionOnSet(pushes, {p \in P : key[p] = vt})]
             U == {q \in DOMAIN pushed : RuntimeVtable(q[2]) \in V}
             h == [q \in U |-> RowOf(q)]
             R == {p \in P : key[p] \in V}
  <2>1. IsFiniteSet(V) /\ \A vt \in V : vtables[vt] \in Int
    BY <1>7, <1>8, FS_Subset
  <2>2. SumFunction([vt \in V |-> vtables[vt]]) = SumFunctionOnSet(vtables, V)
    <3> HIDE DEF vtables
    <3> QED
      BY <2>1, SumOfPart
  <2>3. \A vt \in V : vtables[vt] = groups[vt]
    <3> HIDE DEF vtables
    <3> QED
      BY <1>7
  <2>4. SumFunctionOnSet(groups, V) = SumFunctionOnSet(pushes, R)
    <3> HIDE DEF vtables, key
    <3> QED
      BY <1>2, <2>1, SumGroups
  <2>5. SumFunctionOnSet(vtables, V) = SumFunctionOnSet(groups, V)
    <3> HIDE DEF vtables, groups
    <3> QED
      BY <2>1, <2>3, SumEqual
  <2>6. R = {h[q] : q \in U}
    <3>1. R = {p \in P : p[2] \in V}
      OBVIOUS
    <3>2. {h[q] : q \in U} = {RowOf(q) : q \in U}
      OBVIOUS
    <3>3. ASSUME NEW p \in P, p[2] \in V
          PROVE  \E q \in U : p = RowOf(q)
      <4>1. PICK q \in DOMAIN pushed : p = RowOf(q)
        BY <1>1
      <4> QED
        BY <1>4, <3>3, <4>1
    <3>4. \A q \in U : RowOf(q) \in P /\ RowOf(q)[2] \in V
      BY <1>1, <1>4
    <3> HIDE DEF R, h, U
    <3> QED
      BY <3>1, <3>2, <3>3, <3>4
  <2>7. /\ IsFiniteSet(U)
        /\ \A p, q \in U : h[p] = h[q] => p = q
        /\ \A q \in U : pushes[h[q]] \in Int /\ pushed[q] = pushes[h[q]]
    <3>1. IsFiniteSet(U) /\ U \subseteq DOMAIN pushed
      BY FS_Subset DEF TraceInv
    <3>2. \A p, q \in DOMAIN pushed : RowOf(p) = RowOf(q) => p = q
      BY Injective DEF TraceInv
    <3> QED
      BY <1>1, <3>1, <3>2
  <2>8. SumFunctionOnSet(pushes, {h[q] : q \in U}) = SumFunctionOnSet(pushed, U)
    <3> HIDE DEF h, U
    <3> QED
      BY <2>7, SumImage
  <2> HIDE DEF R, h, groups, vtables
  <2> QED
    BY <2>2, <2>4, <2>5, <2>6, <2>8
<1> QED
  BY <1>6, <1>9 DEF pushes

\* The symbols that nm lists: each name has a listed address.
LEMMA SymbolsAre ==
  ASSUME TraceInv
  PROVE  /\ \A name \in DOMAIN Symbols : Symbols[name] \in Nat
         /\ "_dispatch_root_queues" \in DOMAIN Symbols =>
              Symbols["_dispatch_root_queues"] = RootTable
<1> DEFINE defined == {i \in DOMAIN library : library[i].address >= 0}
           of(name) == {i \in defined : library[i].name = name}
<1>1. /\ library \in Seq([name: STRING, address: Int])
      /\ \A i \in DOMAIN library :
            library[i].name = "_dispatch_root_queues" /\ library[i].address >= 0
              => library[i].address = RootTable
  BY TraceAssumption DEF TraceInv
<1>2. /\ DOMAIN Symbols = {library[i].name : i \in defined}
      /\ \A name \in DOMAIN Symbols : Symbols[name] = library[Max(of(name))].address
  BY DEF Symbols, load_symbols
<1>3. IsFiniteSet(defined) /\ defined \in SUBSET Int /\ defined \subseteq DOMAIN library
  <2>1. DOMAIN library = 1..Len(library) /\ Len(library) \in Nat
    BY <1>1
  <2>2. IsFiniteSet(1..Len(library))
    BY <2>1, FS_Interval
  <2> QED
    BY <2>1, <2>2, FS_Subset
<1>4. ASSUME NEW name \in DOMAIN Symbols
      PROVE  /\ Max(of(name)) \in DOMAIN library
             /\ library[Max(of(name))].name = name
             /\ library[Max(of(name))].address >= 0
  <2>1. of(name) # {} /\ of(name) \in SUBSET Int /\ IsFiniteSet(of(name))
    BY <1>2, <1>3, FS_Subset
  <2>2. Max(of(name)) \in of(name)
    <3> HIDE DEF of
    <3> QED
      BY <2>1, MaxIsLargest
  <2> QED
    BY <1>3, <2>2
<1>5. \A i \in DOMAIN library : library[i].address \in Int
  <2> TAKE i \in DOMAIN library
  <2> DEFINE Entry == [name: STRING, address: Int]
  <2>1. library \in Seq(Entry) /\ i \in 1..Len(library)
    BY <1>1
  <2> HIDE DEF Entry
  <2>2. library[i] \in Entry
    BY <2>1, ElementOfSeq
  <2> USE DEF Entry
  <2> QED
    BY <2>2
<1>6. ASSUME NEW name \in DOMAIN Symbols PROVE Symbols[name] \in Nat
  <2> DEFINE i == Max(of(name))
  <2>1. /\ Symbols[name] = library[i].address
        /\ i \in DOMAIN library /\ library[i].address >= 0
    BY <1>2, <1>4
  <2> HIDE DEF i
  <2> QED
    BY <1>5, <2>1
<1> DEFINE table == "_dispatch_root_queues"
<1>7. ASSUME table \in DOMAIN Symbols
      PROVE  Symbols[table] = RootTable
  <2> HIDE DEF of, defined, table
  <2>1. Symbols[table] = library[Max(of(table))].address
    BY <1>2, <1>7
  <2> QED
    BY <1>1, <1>4, <1>7, <2>1 DEF table
<1> QED
  BY <1>6, <1>7

\* How many pushes have a known vtable if the library was loaded at c.
Score(c) ==
  SumFunctionOnSet(pushed,
    {q \in DOMAIN pushed : ~IsInline(q[2]) /\ (slide + VtableAt[q[2]]) - c \in KnownAt})

Guesses ==
  {(slide + VtableAt[q[2]]) - a :
     q \in {x \in DOMAIN pushed : ~IsInline(x[2])}, a \in KnownAt}

\* infer_slide, in terms of what was pushed.
LEMMA CandidatesAre ==
  ASSUME TraceInv
  PROVE  Candidates = {c \in Guesses : \A other \in Guesses : Score(other) <= Score(c)}
<1> DEFINE vtables == push_vtables(parse_trace(trace).pushes)
           runtime == {vt \in DOMAIN vtables : vt >= Inline}
           good(c) == {v \in runtime : v - c \in KnownAt}
           scored(c) == SumFunction([vt \in good(c) |-> vtables[vt]])
           candidates == {vt - a : vt \in runtime, a \in KnownAt}
<1>1. Candidates = {c \in candidates :
                      \A other \in candidates : scored(other) <= scored(c)}
  BY DEF Candidates, infer_slide, KnownAt
<1>2. /\ DOMAIN vtables = {RuntimeVtable(q[2]) : q \in DOMAIN pushed}
      /\ \A V \in SUBSET DOMAIN vtables :
           SumFunction([vt \in V |-> vtables[vt]])
             = SumFunctionOnSet(pushed,
                 {q \in DOMAIN pushed : RuntimeVtable(q[2]) \in V})
  BY VtablesAre
<1>3. \A q \in DOMAIN pushed :
        /\ RuntimeVtable(q[2]) >= Inline <=> ~IsInline(q[2])
        /\ ~IsInline(q[2]) => RuntimeVtable(q[2]) = slide + VtableAt[q[2]]
  <2> SUFFICES ASSUME NEW q \in DOMAIN pushed
               PROVE  /\ RuntimeVtable(q[2]) >= Inline <=> ~IsInline(q[2])
                      /\ ~IsInline(q[2]) => RuntimeVtable(q[2]) = slide + VtableAt[q[2]]
    OBVIOUS
  <2>1. q[2] \in Object /\ slide \in Slides
    BY DEF TraceInv
  <2>2. VtableAt[q[2]] \in Nat /\ slide \in Nat /\ slide > Inline /\ Inline \in Nat
    BY <2>1, TraceAssumption
  <2> QED
    BY <2>2 DEF RuntimeVtable, IsInline
<1> HIDE DEF vtables
<1>4. \A c : scored(c) = Score(c)
  <2> TAKE c
  <2>1. {q \in DOMAIN pushed : RuntimeVtable(q[2]) \in good(c)}
          = {q \in DOMAIN pushed :
               ~IsInline(q[2]) /\ (slide + VtableAt[q[2]]) - c \in KnownAt}
    <3>1. ASSUME NEW q \in DOMAIN pushed
          PROVE  RuntimeVtable(q[2]) \in good(c) <=>
                   ~IsInline(q[2]) /\ (slide + VtableAt[q[2]]) - c \in KnownAt
      <4>1. RuntimeVtable(q[2]) \in DOMAIN vtables
        BY <1>2
      <4>2. /\ RuntimeVtable(q[2]) >= Inline <=> ~IsInline(q[2])
            /\ ~IsInline(q[2]) => RuntimeVtable(q[2]) = slide + VtableAt[q[2]]
        BY <1>3
      <4>3. PICK v : v = RuntimeVtable(q[2])
        OBVIOUS
      <4>4. v \in good(c) <=> v >= Inline /\ v - c \in KnownAt
        BY <4>1, <4>3
      <4>5. ~IsInline(q[2]) => v - c = (slide + VtableAt[q[2]]) - c
        BY <4>2, <4>3
      <4> HIDE DEF good
      <4> QED
        BY <4>2, <4>3, <4>4, <4>5
    <3> HIDE DEF good
    <3> QED
      BY <3>1
  <2>2. good(c) \in SUBSET DOMAIN vtables
    OBVIOUS
  <2> HIDE DEF good
  <2>3. scored(c) = SumFunctionOnSet(pushed,
                      {q \in DOMAIN pushed : RuntimeVtable(q[2]) \in good(c)})
    BY <1>2, <2>2
  <2> HIDE DEF scored
  <2> QED
    BY <2>1, <2>3 DEF Score
<1>5. candidates = Guesses
  <2>1. runtime = {RuntimeVtable(q[2]) : q \in {x \in DOMAIN pushed : ~IsInline(x[2])}}
    BY <1>2, <1>3
  <2>2. \A q \in {x \in DOMAIN pushed : ~IsInline(x[2])} :
          RuntimeVtable(q[2]) = slide + VtableAt[q[2]]
    BY <1>3
  <2> DEFINE Plain == {x \in DOMAIN pushed : ~IsInline(x[2])}
  <2> HIDE DEF runtime, Plain
  <2>3. \A vt \in runtime : \E q \in Plain : vt = slide + VtableAt[q[2]]
    BY <2>1, <2>2 DEF Plain
  <2>4. \A q \in Plain : slide + VtableAt[q[2]] \in runtime
    BY <2>1, <2>2 DEF Plain
  <2>5. Guesses = {(slide + VtableAt[q[2]]) - a : q \in Plain, a \in KnownAt}
    BY DEF Guesses, Plain
  <2>6. ASSUME NEW x \in candidates PROVE x \in Guesses
    <3>1. PICK vt \in runtime, a \in KnownAt : x = vt - a
      OBVIOUS
    <3>2. PICK q \in Plain : vt = slide + VtableAt[q[2]]
      BY <2>3
    <3>3. x = (slide + VtableAt[q[2]]) - a
      BY <3>1, <3>2
    <3> QED
      BY <2>5, <3>3
  <2>7. ASSUME NEW x \in Guesses PROVE x \in candidates
    <3>1. PICK q \in Plain, a \in KnownAt : x = (slide + VtableAt[q[2]]) - a
      BY <2>5
    <3>2. PICK vt \in runtime : vt = slide + VtableAt[q[2]]
      BY <2>4
    <3>3. x = vt - a
      BY <3>1, <3>2
    <3> QED
      BY <3>3
  <2> QED
    BY <2>6, <2>7
<1> HIDE DEF scored, candidates
<1> QED
  BY <1>1, <1>4, <1>5

\* The slide is right unless the pushes of known vtables are outnumbered.
THEOREM SlideCorrect == Spec => []SlideIsRight
<1>1. TraceInv => SlideIsRight
  <2> SUFFICES ASSUME TraceInv, told # Pending,
                      PushesOf(HasKnown) > PushesOf(HasOther),
                      \A d \in {a - b : a, b \in KnownAt} \ {0} :
                        PushesOf(HasKnown) > PushesOf(HasOther) + Mistaken(d)
               PROVE  told.outcome = "printed" /\ told.slide = slide
    BY DEF SlideIsRight
  <2> DEFINE Known == {q \in DOMAIN pushed : HasKnown(q[2])}
             Other == {q \in DOMAIN pushed : HasOther(q[2])}
             Kept(d) == {q \in DOMAIN pushed :
                           HasKnown(q[2]) /\ VtableAt[q[2]] - d \in KnownAt}
             Sum(S) == SumFunctionOnSet(pushed, S)
  <2>1. /\ IsFiniteSet(DOMAIN pushed)
        /\ \A q \in DOMAIN pushed : pushed[q] \in Nat
    BY DEF TraceInv
  <2>2. \A S \in SUBSET DOMAIN pushed :
          /\ IsFiniteSet(S) /\ Sum(S) \in Nat
          /\ SumFunction([q \in S |-> pushed[q]]) = Sum(S)
    <3> TAKE S \in SUBSET DOMAIN pushed
    <3>1. IsFiniteSet(S) /\ (\A q \in S : pushed[q] \in Nat)
      BY <2>1, FS_Subset
    <3>2. Sum(S) \in Nat
      BY <3>1, SumNat
    <3>3. SumFunction([q \in S |-> pushed[q]]) = Sum(S)
      BY <3>1, SumOfPart
    <3> QED
      BY <3>1, <3>2, <3>3
  <2>3. /\ PushesOf(HasKnown) = Sum(Known)
        /\ PushesOf(HasOther) = Sum(Other)
        /\ \A d : Mistaken(d) = Sum(Kept(d))
    <3>1. PushesOf(HasKnown) = SumFunction([q \in Known |-> pushed[q]])
      BY DEF PushesOf
    <3>2. PushesOf(HasOther) = SumFunction([q \in Other |-> pushed[q]])
      BY DEF PushesOf
    <3>3. \A d : Mistaken(d) = SumFunction([q \in Kept(d) |-> pushed[q]])
      BY DEF Mistaken, PushesOf
    <3> QED
      BY <2>2, <3>1, <3>2, <3>3
  <2>4. /\ slide \in Nat
        /\ \A q \in DOMAIN pushed : VtableAt[q[2]] \in Nat
        /\ KnownAt \subseteq Nat
    <3>1. KnownAt \subseteq Nat
      BY SymbolsAre DEF KnownAt
    <3> QED
      BY <3>1, TraceAssumption DEF TraceInv
  <2>5. Score(slide) = Sum(Known)
    <3>1. Known = {q \in DOMAIN pushed :
                     ~IsInline(q[2]) /\ (slide + VtableAt[q[2]]) - slide \in KnownAt}
      BY <2>4 DEF HasKnown
    <3> HIDE DEF Known
    <3> QED
      BY <3>1 DEF Score
  <2>6. slide \in Guesses
    <3>1. Known # {}
      <4> SUFFICES ASSUME Known = {} PROVE FALSE
        OBVIOUS
      <4>1. Sum(Known) = 0
        BY SumEmpty
      <4>2. Other \in SUBSET DOMAIN pushed
        OBVIOUS
      <4> HIDE DEF Known, Other, Sum
      <4>3. Sum(Other) \in Nat
        BY <2>2, <4>2
      <4> QED
        BY <2>3, <4>1, <4>3
    <3>2. PICK q \in Known : TRUE
      BY <3>1
    <3>3. /\ q \in DOMAIN pushed /\ ~IsInline(q[2]) /\ VtableAt[q[2]] \in KnownAt
          /\ slide = (slide + VtableAt[q[2]]) - VtableAt[q[2]]
      BY <2>4, <3>2 DEF HasKnown
    <3> QED
      BY <3>3 DEF Guesses
  <2>7. ASSUME NEW c \in Guesses, c # slide
        PROVE  Score(c) < Score(slide)
    <3>1. PICK p \in DOMAIN pushed, a \in KnownAt : c = (slide + VtableAt[p[2]]) - a
      BY DEF Guesses
    <3> DEFINE d == c - slide
               Found == {q \in DOMAIN pushed :
                  ~IsInline(q[2]) /\ (slide + VtableAt[q[2]]) - c \in KnownAt}
    <3>2. d \in Int /\ d # 0
      BY <2>4, <2>7, <3>1
    <3>3. \A q \in DOMAIN pushed : (slide + VtableAt[q[2]]) - c = VtableAt[q[2]] - d
      BY <2>4, <3>1
    <3>4. Found \subseteq Kept(d) \cup Other
      BY <3>3 DEF HasKnown, HasOther
    <3>5. Kept(d) \cap Other = {}
      BY DEF HasKnown, HasOther
    <3>6. Kept(d) \in SUBSET DOMAIN pushed /\ Other \in SUBSET DOMAIN pushed
      OBVIOUS
    <3>f. Score(c) = Sum(Found)
      BY DEF Score
    <3>7. d \in {x - y : x, y \in KnownAt} \/ Kept(d) = {}
      <4> SUFFICES ASSUME NEW q \in Kept(d) PROVE d \in {x - y : x, y \in KnownAt}
        OBVIOUS
      <4>1. /\ VtableAt[q[2]] \in KnownAt /\ VtableAt[q[2]] - d \in KnownAt
            /\ VtableAt[q[2]] \in Nat
        BY <2>4 DEF HasKnown
      <4> HIDE DEF d, Kept
      <4>2. d = VtableAt[q[2]] - (VtableAt[q[2]] - d)
        BY <3>2, <4>1
      <4> QED
        BY <4>1, <4>2
    <3> HIDE DEF d, Found, Kept, Other, Known
    <3>8. Sum(Found) <= Sum(Kept(d) \cup Other)
      <4> DEFINE S == Kept(d) \cup Other
      <4>1. S \in SUBSET DOMAIN pushed /\ Found \in SUBSET S
        BY <3>4, <3>6
      <4>2. IsFiniteSet(S) /\ \A q \in S : pushed[q] \in Nat
        BY <2>1, <2>2, <4>1
      <4> HIDE DEF S
      <4> QED
        BY <4>1, <4>2, SumSubset DEF S
    <3>9. Sum(Kept(d) \cup Other) = Sum(Kept(d)) + Sum(Other)
      <4>1. /\ IsFiniteSet(Kept(d)) /\ IsFiniteSet(Other)
            /\ \A q \in Kept(d) \cup Other : pushed[q] \in Int
        BY <2>1, <3>6, FS_Subset
      <4> QED
        BY <3>5, <4>1, SumUnion
    <3>10. Sum(Kept(d)) \in Nat /\ Sum(Other) \in Nat /\ Sum(Found) \in Nat
      <4>1. Found \in SUBSET DOMAIN pushed
        BY <3>4, <3>6
      <4> QED
        BY <2>2, <3>6, <4>1
    <3>11. Sum(Known) > Sum(Other) + Sum(Kept(d))
      <4>1. CASE d \in {x - y : x, y \in KnownAt}
        BY <2>3, <3>2, <4>1
      <4>2. CASE Kept(d) = {}
        <5>1. Sum(Kept(d)) = 0
          BY <4>2, SumEmpty
        <5> HIDE DEF Sum
        <5> QED
          BY <2>3, <3>10, <5>1
      <4> QED
        BY <3>7, <4>1, <4>2
    <3>12. Sum(Known) \in Nat
      BY <2>2 DEF Known
    <3> HIDE DEF Sum
    <3> QED
      BY <2>5, <3>8, <3>9, <3>10, <3>11, <3>12, <3>f
  <2>8. \A c \in Guesses : Score(c) \in Int
    <3> TAKE c \in Guesses
    <3> DEFINE S == {q \in DOMAIN pushed :
                  ~IsInline(q[2]) /\ (slide + VtableAt[q[2]]) - c \in KnownAt}
    <3>1. Score(c) = Sum(S) /\ S \in SUBSET DOMAIN pushed
      BY DEF Score
    <3> HIDE DEF Sum, S
    <3>2. Sum(S) \in Nat
      BY <2>2, <3>1
    <3> QED
      BY <3>1, <3>2
  <2>9. Candidates = {slide}
    <3>1. Candidates = {c \in Guesses : \A other \in Guesses : Score(other) <= Score(c)}
      BY CandidatesAre
    <3> QED
      BY <2>6, <2>7, <2>8, <3>1
  <2>10. told = print_tables(slide, parse_trace(trace), Symbols)
    BY <2>9 DEF TraceInv
  <2> QED
    BY <2>10 DEF print_tables
<1> QED
  BY <1>1, TraceAlways, PTL

-----------------------------------------------------------------------------
(* The labels.                                                              *)

\* nearest_symbol: of the symbols up to the address, none is nearer.
LEMMA NearestIs ==
  ASSUME TraceInv, NEW offset \in Nat,
         NEW start \in DOMAIN Symbols, Symbols[start] <= offset
  PROVE  LET found == nearest_symbol(offset, Symbols) IN
         /\ found.name \in DOMAIN Symbols
         /\ Symbols[found.name] <= offset
         /\ \A other \in DOMAIN Symbols :
              Symbols[other] <= offset => Symbols[other] <= Symbols[found.name]
         /\ found.delta = offset - Symbols[found.name]
<1> DEFINE before == {name \in DOMAIN Symbols : Symbols[name] <= offset}
           at0 == {Symbols[name] : name \in before}
           best == CHOOSE name \in before :
                     \A other \in before : Symbols[other] <= Symbols[name]
<1>1. \A name \in DOMAIN Symbols : Symbols[name] \in Nat
  BY SymbolsAre
<1>2. \E name \in before : \A other \in before : Symbols[other] <= Symbols[name]
  <2>1. at0 \subseteq 0..offset
    BY <1>1
  <2>2. IsFiniteSet(0..offset)
    BY FS_Interval
  <2>3. IsFiniteSet(at0) /\ at0 # {} /\ at0 \in SUBSET Int
    BY <2>1, <2>2, FS_Subset
  <2>4. Max(at0) \in at0 /\ \A x \in at0 : x <= Max(at0)
    <3> HIDE DEF at0
    <3> QED
      BY <2>3, MaxIsLargest
  <2>5. PICK name \in before : Symbols[name] = Max(at0)
    BY <2>4
  <2> HIDE DEF before
  <2> QED
    BY <2>4, <2>5
<1>3. best \in before /\ \A other \in before : Symbols[other] <= Symbols[best]
  <2> HIDE DEF before
  <2> QED
    BY <1>2
<1>4. nearest_symbol(offset, Symbols) = [name |-> best, delta |-> offset - Symbols[best]]
  BY DEF nearest_symbol
<1> HIDE DEF best
<1> QED
  BY <1>3, <1>4

\* root_label: an index is the root's place in the table.
LEMMA RootLabelIs ==
  ASSUME TraceInv, NEW root \in Root,
         root_label(RuntimeRoot(root), slide, Symbols).label \in {"named", "root"}
  PROVE  RootAt[root] = root_label(RuntimeRoot(root), slide, Symbols).index
                          * ROOT_QUEUE_ENTRY_SIZE
<1> DEFINE label == root_label(RuntimeRoot(root), slide, Symbols)
           off == RuntimeRoot(root) - slide - Symbols["_dispatch_root_queues"]
           E == ROOT_QUEUE_ENTRY_SIZE
<1>1. "_dispatch_root_queues" \in DOMAIN Symbols
  BY DEF root_label
<1>2. off % E = 0 /\ label.index = off \div E
  BY <1>1 DEF root_label
<1>3. /\ RootAt[root] \in Int /\ slide \in Int /\ RootTable \in Int
      /\ E \in Nat \ {0}
  BY TraceAssumption DEF TraceInv
<1>4. off = RootAt[root]
  BY <1>1, <1>3, SymbolsAre DEF RuntimeRoot
<1> HIDE DEF off, label, E
<1>5. off \in Int /\ off = E * (off \div E) + (off % E)
  BY <1>3, <1>4
<1>6. off = (off \div E) * E
  BY <1>2, <1>3, <1>5
<1> QED
  BY <1>2, <1>4, <1>6 DEF label, E

\* With the right slide every line printed is true.
THEOREM LabelsCorrect == Spec => []LabelsAreRight
<1>1. TraceInv => LabelsAreRight
  <2> SUFFICES ASSUME TraceInv, told.outcome = "printed", told.slide = slide
               PROVE  LabelsAreRight
    BY DEF LabelsAreRight
  <2> DEFINE pushes == parse_trace(trace).pushes
  <2>1. told = print_tables(slide, parse_trace(trace), Symbols)
    <3>1. told # Pending /\ told # [outcome |-> "no_slide"]
      BY DEF Pending
    <3>2. PICK inferred \in Candidates :
            told = print_tables(inferred, parse_trace(trace), Symbols)
      BY <3>1 DEF TraceInv
    <3>3. told.slide = inferred
      BY <3>2 DEF print_tables
    <3> QED
      BY <3>2, <3>3
  <2>2. /\ DOMAIN told.pushes = DOMAIN pushes
        /\ \A p \in DOMAIN pushes : told.pushes[p] =
             [count |-> pushes[p],
              root |-> root_label(p[1], slide, Symbols),
              object |-> describe_vtable(p[2], slide, Symbols)]
    BY <2>1 DEF print_tables
  <2>3. /\ DOMAIN pushes = {RowOf(q) : q \in DOMAIN pushed}
        /\ \A q \in DOMAIN pushed :
             pushes[RowOf(q)] = pushed[q] /\ pushed[q] \in Nat \ {0}
    BY PushesAre
  <2>4. DOMAIN pushed \subseteq Root \X Object /\ IsFiniteSet(DOMAIN pushed)
    BY DEF TraceInv
  <2> HIDE DEF pushes
  <2>5. SumFunction([p \in DOMAIN told.pushes |-> told.pushes[p].count])
          = SumFunction(pushed)
    <3> DEFINE f == [p \in DOMAIN told.pushes |-> told.pushes[p].count]
               h == [q \in DOMAIN pushed |-> RowOf(q)]
    <3>1. DOMAIN f = {h[q] : q \in DOMAIN pushed}
      BY <2>2, <2>3
    <3>2. ASSUME NEW q \in DOMAIN pushed
          PROVE  f[h[q]] \in Int /\ pushed[q] = f[h[q]]
      <4>1. h[q] = RowOf(q) /\ RowOf(q) \in DOMAIN pushes
        BY <2>3
      <4>2. f[RowOf(q)] = told.pushes[RowOf(q)].count
        BY <2>2, <4>1
      <4>3. told.pushes[RowOf(q)].count = pushes[RowOf(q)]
        <5> DEFINE p == RowOf(q)
        <5>1. told.pushes[p] = [count |-> pushes[p],
                                root |-> root_label(p[1], slide, Symbols),
                                object |-> describe_vtable(p[2], slide, Symbols)]
          BY <2>2, <4>1
        <5> QED
          BY <5>1
      <4> QED
        BY <2>3, <4>1, <4>2, <4>3
    <3>3. \A p, q \in DOMAIN pushed : h[p] = h[q] => p = q
      BY <2>4, Injective DEF TraceInv
    <3> HIDE DEF f, h
    <3>4. SumFunctionOnSet(f, {h[q] : q \in DOMAIN pushed})
            = SumFunctionOnSet(pushed, DOMAIN pushed)
      BY <2>4, <3>2, <3>3, SumImage
    <3>5. SumFunction(f) = SumFunction(pushed)
      BY <3>1, <3>4 DEF SumFunction
    <3> QED
      BY <3>5 DEF f
  <2>6. ASSUME NEW q \in DOMAIN pushed
        PROVE  LET row == told.pushes[RowOf(q)]
                   object == q[2]
                   inside(name) == Symbols[name] <= VtableAt[object]
               IN /\ RowOf(q) = <<RuntimeRoot(q[1]), RuntimeVtable(object)>>
                  /\ BagIn(<<q[1], object>>, pushed)
                  /\ row.count = pushed[<<q[1], object>>]
                  /\ (row.root.label \in {"named", "root"}) =>
                       RootAt[q[1]] = row.root.index * ROOT_QUEUE_ENTRY_SIZE
                  /\ HasKnown(object) =>
                       /\ row.object.delta = 0
                       /\ Symbols[row.object.name] = VtableAt[object]
                  /\ HasOther(object) =>
                       \A name \in DOMAIN Symbols : inside(name) =>
                         Symbols[name] <= Symbols[row.object.name]
                           /\ inside(row.object.name)
                  /\ IsInline(object) => row.object.name = "continuation-inline"
    <3> DEFINE row == told.pushes[RowOf(q)]
               object == q[2]
               offset == VtableAt[object]
    <3>1. /\ row.count = pushed[q]
          /\ row.root = root_label(RuntimeRoot(q[1]), slide, Symbols)
          /\ row.object = describe_vtable(RuntimeVtable(object), slide, Symbols)
      <4>1. RowOf(q) \in DOMAIN pushes
        BY <2>3
      <4>2. RowOf(q)[1] = RuntimeRoot(q[1]) /\ RowOf(q)[2] = RuntimeVtable(object)
        BY DEF RowOf
      <4> DEFINE p == RowOf(q)
      <4>3. told.pushes[p] = [count |-> pushes[p],
                              root |-> root_label(p[1], slide, Symbols),
                              object |-> describe_vtable(p[2], slide, Symbols)]
        BY <2>2, <4>1
      <4>4. /\ row.count = pushes[p]
            /\ row.root = root_label(p[1], slide, Symbols)
            /\ row.object = describe_vtable(p[2], slide, Symbols)
        BY <4>3
      <4> QED
        BY <2>3, <4>2, <4>4
    <3>2. q = <<q[1], object>> /\ q[1] \in Root /\ object \in Object
      BY <2>4
    <3>3. /\ offset \in Nat /\ slide \in Nat /\ slide > Inline /\ Inline \in Nat
      BY <3>2, TraceAssumption DEF TraceInv
    <3>4. row.root.label \in {"named", "root"} =>
            RootAt[q[1]] = row.root.index * ROOT_QUEUE_ENTRY_SIZE
      BY <3>1, <3>2, RootLabelIs
    <3>5. IsInline(object) => row.object.name = "continuation-inline"
      BY <3>1, <3>3 DEF describe_vtable, RuntimeVtable, IsInline
    <3>6. ~IsInline(object) => row.object = nearest_symbol(offset, Symbols)
      <4> SUFFICES ASSUME ~IsInline(object)
                   PROVE  row.object = nearest_symbol(offset, Symbols)
        OBVIOUS
      <4>1. RuntimeVtable(object) = slide + offset
        BY DEF RuntimeVtable
      <4> DEFINE vt == RuntimeVtable(object)
      <4> HIDE DEF offset, row, object
      <4>2. vt - slide = offset /\ ~(vt < Inline)
        BY <3>3, <4>1
      <4> QED
        BY <3>1, <4>2 DEF describe_vtable
    <3>7. ASSUME ~IsInline(object), NEW name \in DOMAIN Symbols,
                 Symbols[name] <= offset
          PROVE  /\ row.object.name \in DOMAIN Symbols
                 /\ Symbols[name] <= Symbols[row.object.name]
                 /\ Symbols[row.object.name] <= offset
                 /\ row.object.delta = offset - Symbols[row.object.name]
      <4> HIDE DEF row, offset, object
      <4> QED
        BY <3>3, <3>6, <3>7, NearestIs
    <3>8. ASSUME HasKnown(object)
          PROVE  row.object.delta = 0 /\ Symbols[row.object.name] = offset
      <4>1. ~IsInline(object) /\ \E name \in DOMAIN Symbols : Symbols[name] = offset
        BY <3>8 DEF HasKnown, KnownAt
      <4>2. PICK name \in DOMAIN Symbols : Symbols[name] = offset
        BY <4>1
      <4> HIDE DEF row, offset, object
      <4>3. /\ row.object.name \in DOMAIN Symbols
            /\ offset <= Symbols[row.object.name]
            /\ Symbols[row.object.name] <= offset
            /\ row.object.delta = offset - Symbols[row.object.name]
        BY <3>3, <3>7, <4>1, <4>2
      <4>4. Symbols[row.object.name] \in Nat
        BY <4>3, SymbolsAre
      <4> QED
        BY <3>3, <4>3, <4>4
    <3>9. HasOther(object) =>
            \A name \in DOMAIN Symbols : Symbols[name] <= offset =>
              Symbols[name] <= Symbols[row.object.name]
                /\ Symbols[row.object.name] <= offset
      BY <3>7 DEF HasOther
    <3>10. /\ RowOf(q) = <<RuntimeRoot(q[1]), RuntimeVtable(object)>>
           /\ BagIn(<<q[1], object>>, pushed)
      BY <3>2 DEF RowOf, BagIn, BagToSet
    <3>11. row.count = pushed[<<q[1], object>>]
      BY <3>1, <3>2
    <3> QED
      BY <3>4, <3>5, <3>8, <3>9, <3>10, <3>11
  <2>7. ASSUME NEW p \in DOMAIN told.pushes
        PROVE  \E q \in DOMAIN pushed :
                 p = RowOf(q) /\ q[1] \in Root /\ q[2] \in Object
    BY <2>2, <2>3, <2>4
  <2> QED
    BY <2>5, <2>6, <2>7 DEF LabelsAreRight
<1> QED
  BY <1>1, TraceAlways, PTL

=============================================================================
