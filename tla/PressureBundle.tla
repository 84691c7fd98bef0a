---------------------------- MODULE PressureBundle ----------------------------
(***************************************************************************)
(* The callable bundle of the pressure provider                             *)
(* (twq_pressure_provider_bundle.c over session, observer and tracker): one *)
(* caller initialises it, primes it with a baseline snapshot and polls it.  *)
(* Every snapshot read goes to kern.twq sysctls and may fail.               *)
(*                                                                          *)
(* The reader makes no assumption on what a snapshot holds except what the  *)
(* kernel gives any single reader: a cumulative counter never goes back.    *)
(* So a read that is torn across a busy pool is a legal read here too.      *)
(***************************************************************************)
EXTENDS PressureOps, Sequences

CONSTANTS Readings,  \* the counter records a snapshot read can return
          MaxTime,   \* bound on CLOCK_MONOTONIC
          MaxPolls   \* bound on the successful polls after one prime

ASSUME ReadingsAssumption == Readings \subseteq Counters
ASSUME BoundsAssumption == MaxTime \in Nat /\ MaxPolls \in Nat

VARIABLES
  session,   \* struct twq_pressure_provider_session_v1, embedded in the bundle
  observer,  \* struct twq_pressure_provider_observer_v1, embedded
  tracker,   \* struct twq_pressure_provider_tracker_v1, embedded
  bundle,    \* the bundle's own fields
  rc,        \* what the last call returned
  kernel,    \* the counters returned by the last complete read
  clock,     \* CLOCK_MONOTONIC
  log        \* history: the views delivered since the last successful prime

vars == <<session, observer, tracker, bundle, rc, kernel, clock, log>>

-----------------------------------------------------------------------------
zero_counters ==
  [req |-> 0, admit |-> 0, block |-> 0, unblock |-> 0, narrow |-> 0,
   total |-> 0, idle |-> 0, bucket_count |-> 0]

zero_snapshot == [counters |-> zero_counters, time |-> 0]

zero_view ==
  [generation |-> 0, time |-> 0, request_backlog |-> 0, block_backlog |-> 0,
   should_narrow |-> 0, total_workers |-> 0, nonidle_workers |-> 0,
   pressure_visible |-> FALSE]

session_init ==
  [next_generation |-> 1, primed |-> FALSE, base |-> zero_snapshot]

\* initialised stands for "version and struct_size hold their v1 values".
bundle_init ==
  [initialised |-> TRUE, seq |-> no_samples, current_view |-> zero_view,
   current |-> [s \in {"pressure_visible", "quiescent", "narrow_feedback"}
                  |-> FALSE]]

\* The snapshots one call of twq_pressure_provider_read_snapshot_v1 can
\* return now, with the clock after it. The clock may stand still between two
\* reads, and clock_gettime may fail, which the provider reports as time 0.
Reads ==
  {[counters |-> c, time |-> IF failed THEN 0 ELSE k, clock |-> k] :
     c \in {r \in Readings : \A f \in Cumulative : r[f] >= kernel[f]},
     k \in clock..MaxTime, failed \in BOOLEAN}

snapshot_of(read) == [counters |-> read.counters, time |-> read.time]

-----------------------------------------------------------------------------
(* Mutated forms of the actions below, each a plausible bug; Spec does not  *)
(* use them.                                                                *)

\* A prime that forgets to start the tracker again.
BundlePrime_keeps_tracker ==
  \E read \in Reads :
    /\ session' = [session_init EXCEPT !.primed = TRUE,
                                       !.base = snapshot_of(read)]
    /\ observer' = observer_init
    /\ bundle' = bundle_init
    /\ rc' = "0"
    /\ kernel' = read.counters
    /\ clock' = read.clock
    /\ log' = <<>>
    /\ UNCHANGED tracker

\* A prime that resets the summaries before it reads the baseline.
BundlePrimeFails_after_reset ==
  /\ session' = session_init
  /\ observer' = observer_init
  /\ tracker' = tracker_init
  /\ bundle' = bundle_init
  /\ log' = <<>>
  /\ rc' = "EIO"
  /\ UNCHANGED <<kernel, clock>>

\* A poll that takes its generation before it knows that the read succeeds.
BundlePollFails_takes_generation ==
  /\ bundle.initialised
  /\ session.primed
  /\ session.next_generation <= MaxPolls
  /\ session' = [session EXCEPT !.next_generation = @ + 1]
  /\ rc' = "EIO"
  /\ UNCHANGED <<observer, tracker, bundle, log, kernel, clock>>

-----------------------------------------------------------------------------
\* A caller's bundle is zeroed storage until it is initialised.
Init ==
  /\ session = [session_init EXCEPT !.next_generation = 0]
  /\ observer = observer_init
  /\ tracker = tracker_init
  /\ bundle = [bundle_init EXCEPT !.initialised = FALSE]
  /\ rc = "0"
  /\ kernel = zero_counters
  /\ clock = 0
  /\ log = <<>>

\* twq_pressure_provider_bundle_init_v1, legal at any time.
BundleInit ==
  /\ session' = session_init
  /\ observer' = observer_init
  /\ tracker' = tracker_init
  /\ bundle' = bundle_init
  /\ rc' = "0"
  /\ log' = <<>>
  /\ UNCHANGED <<kernel, clock>>

\* twq_pressure_provider_bundle_prime_v1 whose snapshot read succeeds.
BundlePrime ==
  \E read \in Reads :
    /\ session' = [session_init EXCEPT !.primed = TRUE,
                                       !.base = snapshot_of(read)]
    /\ observer' = observer_init
    /\ tracker' = tracker_init
    /\ bundle' = bundle_init
    /\ rc' = "0"
    /\ kernel' = read.counters
    /\ clock' = read.clock
    /\ log' = <<>>

\* The same call when a sysctl fails: the session has already been reset, the
\* summaries are reset only when the bundle was not initialised before.
BundlePrimeFails ==
  /\ session' = session_init
  /\ IF bundle.initialised
     THEN UNCHANGED <<observer, tracker, bundle, log>>
     ELSE /\ observer' = observer_init
          /\ tracker' = tracker_init
          /\ bundle' = bundle_init
          /\ log' = <<>>
  /\ rc' = "EIO"
  /\ UNCHANGED <<kernel, clock>>

-----------------------------------------------------------------------------
\* What twq_pressure_provider_session_poll_v1 makes of a read.
session_view(read) ==
  adapter_build(session.next_generation, session.base, snapshot_of(read))

\* The bundle's own fields after one more view.
bundle_update(view) ==
  [initialised |-> TRUE,
   seq |-> sequence_view(bundle.seq, view),
   current_view |-> view,
   current |-> [s \in {"pressure_visible", "quiescent", "narrow_feedback"}
                  |-> signals_of(view)[s]]]

\* twq_pressure_provider_bundle_poll_v1: the session takes its generation,
\* then observer, tracker and bundle take the view.
BundlePoll ==
  /\ bundle.initialised
  /\ session.primed
  /\ Len(log) < MaxPolls
  /\ \E read \in Reads :
       /\ read.counters.bucket_count = session.base.counters.bucket_count
       /\ LET view == session_view(read)
          IN /\ observer' = observer_update(observer, view)
             /\ tracker' = tracker_update(tracker, view)
             /\ bundle' = bundle_update(view)
             /\ log' = Append(log, view)
       /\ kernel' = read.counters
       /\ clock' = read.clock
  /\ session' = [session EXCEPT !.next_generation = @ + 1]
  /\ rc' = "0"

\* The refusals of a poll: a bundle never initialised, a session not primed.
BundlePollRefused ==
  /\ \/ ~bundle.initialised /\ rc' = "EPROTO"
     \/ bundle.initialised /\ ~session.primed /\ rc' = "ENXIO"
  /\ UNCHANGED <<session, observer, tracker, bundle, kernel, clock, log>>

\* A poll whose read fails, or returns another number of buckets than the
\* baseline has: no generation is taken.
BundlePollFails ==
  /\ bundle.initialised
  /\ session.primed
  /\ \/ rc' = "EIO" /\ UNCHANGED <<kernel, clock>>
     \/ /\ rc' = "EPROTO"
        /\ \E read \in Reads :
             /\ read.counters.bucket_count # session.base.counters.bucket_count
             /\ kernel' = read.counters
             /\ clock' = read.clock
  /\ UNCHANGED <<session, observer, tracker, bundle, log>>

Next ==
  \/ BundleInit
  \/ BundlePrime
  \/ BundlePrimeFails
  \/ BundlePoll
  \/ BundlePollRefused
  \/ BundlePollFails

Spec == Init /\ [][Next]_vars

-----------------------------------------------------------------------------
Session == [next_generation : Nat, primed : BOOLEAN, base : Snapshot]

Bundle == [initialised : BOOLEAN, seq : Sequencing, current_view : View,
           current : [{"pressure_visible", "quiescent", "narrow_feedback"}
                        -> BOOLEAN]]

TypeOK ==
  /\ session \in Session
  /\ observer \in Observer
  /\ tracker \in Tracker
  /\ bundle \in Bundle
  /\ rc \in {"0", "EIO", "EPROTO", "ENXIO"}
  /\ kernel \in Counters
  /\ clock \in Nat
  /\ log \in Seq(View)

\* The three summaries a bundle carries never tell different stories: whatever
\* fails in between (a read, a re-prime that resets only the session), bundle,
\* observer and tracker have counted the same views with the same continuity.
SummariesAgree ==
  /\ observer.seq = bundle.seq
  /\ tracker.seq = bundle.seq
  /\ observer.final =
       [s \in {"pressure_visible", "quiescent"} |-> bundle.current[s]]
  /\ \A s \in DOMAIN bundle.current : tracker.final[s] = bundle.current[s]

\* Generations are neither skipped nor reused while a session is primed: the
\* next one is one more than the number of views delivered, so a poll that
\* failed took none, a re-prime starts again at 1, and a bundle's own polls
\* never raise the "not contiguous" flag.
GenerationsAccounted ==
  /\ bundle.seq.sample_count = Len(log)
  /\ session.primed => session.next_generation = Len(log) + 1
  /\ bundle.seq.generation_contiguous
  /\ bundle.seq.generation_last = bundle.seq.sample_count
  /\ Len(log) > 0 => bundle.seq.generation_first = 1

\* Every rise the tracker counted is matched by a fall or by the signal being
\* on now, from where it started, and two neighbouring samples make at most one
\* edge: edges are neither lost nor counted twice, and the first sample of a
\* session makes none.
EdgesBalance ==
  LET On(b) == IF b THEN 1 ELSE 0
  IN \A s \in Signals :
       /\ tracker.rises[s] + On(tracker.initial[s]) =
            tracker.falls[s] + On(tracker.final[s])
       /\ tracker.seq.sample_count > 0 =>
            tracker.rises[s] + tracker.falls[s] < tracker.seq.sample_count

\* The observer's six counts fit one set of samples: quiescent and non-idle
\* samples exclude each other, and each pressure signal is part of
\* pressure_visible, which has no other source.
SamplesConsistent ==
  LET n == observer.samples
  IN /\ n["quiescent"] + n["nonidle"] <= observer.seq.sample_count
     /\ \A s \in {"nonidle", "request_backlog", "block_backlog",
                  "narrow_feedback"} : n[s] <= n["pressure_visible"]
     /\ n["pressure_visible"] <= n["nonidle"] + n["request_backlog"]
          + n["block_backlog"] + n["narrow_feedback"]

\* should_narrow_true_total is cumulative since the baseline, so narrow
\* feedback latches: once a view of a session showed it, every later view of
\* that session does, and pressure stays visible to the end of the session
\* although the pool may be quiescent.
NarrowLatches ==
  /\ tracker.falls["narrow_feedback"] = 0
  /\ tracker.rises["narrow_feedback"] <= 1
  /\ tracker.final["narrow_feedback"] => tracker.final["pressure_visible"]

\* The counts a bundle reports about its samples are all counts of one sequence
\* of views.
CountsConsistent == EdgesBalance /\ SamplesConsistent /\ NarrowLatches

\* What a caller holds changes only by a call that succeeds: a failing prime
\* or poll of an initialised bundle leaves observer, tracker and the bundle's
\* own fields as they were, and a session that a failed re-prime left
\* unprimed delivers no view until a prime succeeds.
FailuresKeepSummaries ==
  [][/\ rc' # "0" /\ bundle.initialised
          => UNCHANGED <<observer, tracker, bundle, log>>
     /\ rc' \in {"EIO", "ENXIO"} /\ ~session.primed => ~session'.primed
     /\ Len(log') > Len(log) => session.primed /\ session'.base = session.base
    ]_vars
=============================================================================
