---------------------------- MODULE SnapshotRead ----------------------------
(***************************************************************************)
(* twq_pressure_provider_read_snapshot_v1 reads the kernel's counters by    *)
(* one sysctl after the other, and the kernel goes on counting in between:  *)
(* a snapshot is torn. The module models the reads of the cumulative bucket *)
(* counters, in the order of the code, and what the adapter makes of two    *)
(* snapshots of a session, its base and a later one.                        *)
(*                                                                          *)
(* The counters come in pairs of what is issued and what of it is settled:  *)
(* workers requested and admitted, block and unblock events. The kernel is  *)
(* not part of the repository; that it settles no more than was issued is   *)
(* taken from the recorded runs under benchmarks/baselines, none of which   *)
(* shows anything else.                                                     *)
(***************************************************************************)
EXTENDS PressureOps, Integers, Functions, FiniteSets

CONSTANTS Bucket, MaxEvents

ASSUME ReadAssumption == IsFiniteSet(Bucket) /\ MaxEvents \in Nat

Issued == {"bucket_req_total", "bucket_switch_block_total"}
Settled == {"bucket_admit_total", "bucket_switch_unblock_total"}
Field == Issued \cup Settled

settled_of(issued) ==
  IF issued = "bucket_req_total" THEN "bucket_admit_total"
  ELSE "bucket_switch_unblock_total"

VARIABLES
  counted,      \* counted[f][b]: the kernel's counters now
  events,       \* what the kernel has counted, for MaxEvents
  next,         \* the counter the running capture reads next
  reading,      \* what the running capture has read
  owed,         \* owed[f][b]: issued and not settled in the kernel when the
                \* running capture read the settled counter of f (a ghost)
  late,         \* late[f][b]: issued while the running capture was between
                \* its reads of f and of what settles f (a ghost)
  base,         \* the base of the session; <<>> when it is not primed
  current       \* the latest capture after the base; <<>> when there is none

readVars == <<counted, events, next, reading, owed, late, base, current>>

\* The running capture as the session keeps it, with its two ghosts.
finished == [counts |-> reading, owed |-> owed, late |-> late]

Counts == [Field -> [Bucket -> Nat]]

zero == [f \in Field |-> [b \in Bucket |-> 0]]

none == <<>>

ReadInit ==
  /\ counted = zero
  /\ events = 0
  /\ next = "bucket_req_total"
  /\ reading = zero
  /\ owed = [f \in Issued |-> [b \in Bucket |-> 0]]
  /\ late = [f \in Issued |-> [b \in Bucket |-> 0]]
  /\ base = none
  /\ current = none

-----------------------------------------------------------------------------
(* Mutated forms, each a plausible bug; no specification uses them.        *)

\* Reads that take the unblock events before the block events.
following_swapped ==
  [bucket_req_total |-> "bucket_admit_total",
   bucket_admit_total |-> "bucket_switch_unblock_total",
   bucket_switch_unblock_total |-> "bucket_switch_block_total",
   bucket_switch_block_total |-> "done"]

\* A backlog of all that was ever issued against what settled since the base.
backlog_half_based(f, from, to) ==
  FoldFunction(+, 0, to[f])
    - FoldFunction(+, 0, [b \in Bucket |-> to[settled_of(f)][b]
                                             - from[settled_of(f)][b]])

\* A sum that stops one bucket short.
sum_bucket_deltas_short(f, from, to) ==
  FoldFunction(+, 0, [b \in Bucket \ {CHOOSE b \in Bucket : TRUE} |->
                        delta_or_zero(to[f][b], from[f][b])])

-----------------------------------------------------------------------------
\* The kernel counts one request, admission, block or unblock event.
KernelCounts(f, b) ==
  /\ events < MaxEvents
  /\ events' = events + 1
  /\ \A i \in Issued :
       f = settled_of(i) => counted[f][b] < counted[i][b]
  /\ counted' = [counted EXCEPT ![f][b] = @ + 1]
  /\ late' = IF f \in Issued /\ next = settled_of(f)
             THEN [late EXCEPT ![f][b] = @ + 1] ELSE late
  /\ UNCHANGED <<next, reading, owed, base, current>>

\* The order of the reads.
following ==
  [bucket_req_total |-> "bucket_admit_total",
   bucket_admit_total |-> "bucket_switch_block_total",
   bucket_switch_block_total |-> "bucket_switch_unblock_total",
   bucket_switch_unblock_total |-> "done"]

\* One read_bucket_array: all the buckets of one counter.
ReadBuckets(f) ==
  /\ next = f
  /\ reading' = [reading EXCEPT ![f] = counted[f]]
  /\ owed' = [i \in Issued |->
                IF f = settled_of(i)
                THEN [b \in Bucket |-> counted[i][b] - counted[f][b]]
                ELSE owed[i]]
  /\ late' = [i \in Issued |->
                IF f = i THEN [b \in Bucket |-> 0] ELSE late[i]]
  /\ next' = following[f]
  /\ UNCHANGED <<counted, events, base, current>>

\* The capture is complete: the session is primed with it, or polled.
CaptureEnds(primes) ==
  /\ next = "done"
  /\ next' = "bucket_req_total"
  /\ IF primes THEN base' = finished /\ current' = none
     ELSE base # none /\ current' = finished /\ UNCHANGED base
  /\ UNCHANGED <<counted, events, reading, owed, late>>

\* A read fails: a poll returns with the session as it was, a prime has already
\* reset it.
CaptureFails(primes) ==
  /\ next \in Field
  /\ next' = "bucket_req_total"
  /\ IF primes THEN base' = none /\ current' = none
     ELSE base # none /\ UNCHANGED <<base, current>>
  /\ UNCHANGED <<counted, events, reading, owed, late>>

ReadNext ==
  \/ \E f \in Field, b \in Bucket : KernelCounts(f, b)
  \/ \E f \in Field : ReadBuckets(f)
  \/ \E primes \in BOOLEAN : CaptureEnds(primes) \/ CaptureFails(primes)

ReadSpec == ReadInit /\ [][ReadNext]_readVars

-----------------------------------------------------------------------------
\* twq_pressure_provider_adapter.c: the deltas saturate at zero, bucket by
\* bucket and once more between their sums.
sum_bucket_deltas(f, from, to) ==
  FoldFunction(+, 0, [b \in Bucket |-> delta_or_zero(to[f][b], from[f][b])])

\* request_backlog_total and block_backlog_total.
backlog(f, from, to) ==
  delta_or_zero(sum_bucket_deltas(f, from, to),
                sum_bucket_deltas(settled_of(f), from, to))

-----------------------------------------------------------------------------
PerIssued == [Issued -> [Bucket -> Nat]]
Captures == [counts : Counts, owed : PerIssued, late : PerIssued]

ReadTypeOK ==
  /\ counted \in Counts
  /\ \A i \in Issued, b \in Bucket : counted[settled_of(i)][b] <= counted[i][b]
  /\ events \in Nat
  /\ next \in Field \cup {"done"}
  /\ reading \in Counts
  /\ owed \in PerIssued
  /\ late \in PerIssued
  /\ base \in Captures \cup {none}
  /\ current \in Captures \cup {none}

\* A capture reads what was issued before what was settled, so it never shows
\* more outstanding than there was when it read the settled counter, however
\* many events the kernel counts between the two reads.
CaptureNeverOverstates ==
  current # none =>
    \A i \in Issued, b \in Bucket :
      current.counts[i][b] - current.counts[settled_of(i)][b]
        <= current.owed[i][b]

\* A base that shows no bucket with more settled than issued.
coherent(counts) ==
  \A i \in Issued, b \in Bucket : counts[settled_of(i)][b] <= counts[i][b]

\* Against a coherent base, the backlog of a view is no larger than what was
\* really outstanding: pressure it reports on that ground is real. Against a
\* torn base this fails, for as long as the session keeps that base.
BacklogIsReal ==
  current # none /\ coherent(base.counts) =>
    \A i \in Issued :
      backlog(i, base.counts, current.counts)
        <= FoldFunction(+, 0, current.owed[i])

\* How far a view can be wrong, against any base. What it reports beyond what
\* was outstanding was issued while the base was between its two reads, and is
\* reported for as long as the session keeps that base; what it leaves out was
\* outstanding when the session was primed, or was issued between the two reads
\* of the capture: a backlog that saturates at zero hides no more than that.
TearBoundsView ==
  current # none =>
    \A i \in Issued :
      LET shown == backlog(i, base.counts, current.counts)
          real == FoldFunction(+, 0, current.owed[i])
      IN /\ shown <= real + FoldFunction(+, 0, base.late[i])
         /\ real <= shown + FoldFunction(+, 0, base.owed[i])
                          + FoldFunction(+, 0, current.late[i])
=============================================================================
