----------------------------- MODULE WakeBench -----------------------------
(***************************************************************************)
(* twq_workqueue_wake_bench.c: the main thread asks the kernel for one      *)
(* worker after the other and times the callback of each; the callbacks run *)
(* on kernel threads and publish through g_state, under its lock. Request 0 *)
(* primes the pool, 1 .. Warmup warm it up and the rest are the samples.    *)
(*                                                                          *)
(* The kernel starts a callback for every request, on a new or an idle      *)
(* thread, and retires idle threads down to one, as the recorded runs show. *)
(***************************************************************************)
EXTENDS Naturals, FiniteSets

CONSTANTS
  Warmup, Samples,  \* --warmup and --samples
  Tid               \* kernel threads

ASSUME BenchAssumption ==
  /\ Warmup \in Nat /\ Samples \in Nat \ {0}
  /\ IsFiniteSet(Tid) /\ Tid # {}

VARIABLES
  faults,           \* whether requests may fail and deadlines pass in this run
  pc,               \* what main does next
  request,          \* the number of the running request
  expected_seq, callback_seq,
  callback,         \* the request g_state's callback fields are of
  total, idle,      \* the sums read last
  samples,          \* the request whose callback each sample was timed with
  sample_errors, status,
  pending,          \* requests the kernel has not started
  thread            \* thread[t]: what t does, and for which request

vars == <<faults, pc, request, expected_seq, callback_seq, callback, total,
          idle, samples, sample_errors, status, pending, thread>>

mainVars == <<pc, request, expected_seq, total, idle, samples, sample_errors,
              status>>

Last == Warmup + Samples
Request == 0..Last

none == Last + 1    \* no callback was timed

\* Where main waits for the pool to come to rest.
Resting == {"total", "idle", "active"}

Doing(doing) == {t \in Tid : thread[t].doing = doing}
InPool == Tid \ Doing("nothing")
Active == Doing("called") \cup Doing("returning")

Init ==
  /\ faults \in BOOLEAN
  /\ pc = "issue"
  /\ request = 0
  /\ expected_seq = 0
  /\ callback_seq = 0
  /\ callback = none
  /\ total = 0 /\ idle = 0
  /\ samples = [r \in Warmup + 1 .. Last |-> none]
  /\ sample_errors = 0
  /\ status = "running"
  /\ pending = {}
  /\ thread = [t \in Tid |-> [doing |-> "nothing", of |-> none]]

-----------------------------------------------------------------------------
(* Mutated forms, each a plausible bug; no specification uses them.         *)

\* A failing sample that is not counted.
Fail_silently ==
  /\ IF request <= Warmup
     THEN status' = "failed" /\ pc' = "done" /\ UNCHANGED request
     ELSE /\ UNCHANGED status
          /\ IF pc \in Resting \/ request = Last
             THEN pc' = "report" /\ UNCHANGED request
             ELSE pc' = "issue" /\ request' = request + 1
  /\ UNCHANGED <<sample_errors, expected_seq, callback_seq, callback, total,
                 idle, samples, pending, thread>>

\* A wait that sleeps before it looks at the sequence number.
CheckSeq_sleeps_first ==
  /\ pc = "check"
  /\ pc' = "blocked"
  /\ UNCHANGED <<request, expected_seq, callback_seq, callback, total, idle,
                 samples, sample_errors, status, pending, thread>>

\* A quiescent wait content with an idle pool of any size.
quiescent_any(active) == idle = total /\ active = 0

-----------------------------------------------------------------------------
\* The kernel takes up a request on an idle or a new thread; worker_cb reads
\* the clock ...
CallbackStarts(t, r) ==
  /\ r \in pending
  /\ thread[t].doing \in {"nothing", "idle"}
  /\ pending' = pending \ {r}
  /\ thread' = [thread EXCEPT ![t] = [doing |-> "called", of |-> r]]
  /\ UNCHANGED <<mainVars, callback_seq, callback>>

\* ... and publishes under the lock, with a broadcast.
Publish(t) ==
  /\ thread[t].doing = "called"
  /\ callback_seq' = callback_seq + 1
  /\ callback' = thread[t].of
  /\ thread' = [thread EXCEPT ![t].doing = "returning"]
  /\ pc' = IF pc = "blocked" THEN "check" ELSE pc
  /\ UNCHANGED <<request, expected_seq, total, idle, samples, sample_errors,
                 status, pending>>

CallbackReturns(t) ==
  /\ thread[t].doing = "returning"
  /\ thread' = [thread EXCEPT ![t].doing = "idle"]
  /\ UNCHANGED <<mainVars, callback_seq, callback, pending>>

\* The kernel retires an idle thread, but not the last.
Retire(t) ==
  /\ thread[t].doing = "idle"
  /\ InPool # {t}
  /\ thread' = [thread EXCEPT ![t].doing = "nothing"]
  /\ UNCHANGED <<mainVars, callback_seq, callback, pending>>

-----------------------------------------------------------------------------
\* A request or its quiescent wait failed. While the pool is primed or warmed
\* up that ends the process; a failed sample is counted, and the loop goes on
\* with the next request, or ends if it was the quiescent wait.
Fail ==
  /\ IF request <= Warmup
     THEN /\ status' = "failed" /\ pc' = "done"
          /\ UNCHANGED <<request, sample_errors>>
     ELSE /\ sample_errors' = sample_errors + 1
          /\ UNCHANGED status
          /\ IF pc \in Resting \/ request = Last
             THEN pc' = "report" /\ UNCHANGED request
             ELSE pc' = "issue" /\ request' = request + 1
  /\ UNCHANGED <<expected_seq, callback_seq, callback, total, idle, samples,
                 pending, thread>>

\* run_request: the next sequence number is expected ...
Expect ==
  /\ pc = "issue"
  /\ expected_seq' = callback_seq + 1
  /\ pc' = "add"
  /\ UNCHANGED <<request, callback_seq, callback, total, idle, samples,
                 sample_errors, status, pending, thread>>

\* ... and one thread asked for, or refused.
AddThreads ==
  /\ pc = "add"
  /\ pending' = pending \cup {request}
  /\ pc' = "check"
  /\ UNCHANGED <<request, expected_seq, callback_seq, callback, total, idle,
                 samples, sample_errors, status, thread>>

AddThreadsFails == faults /\ pc = "add" /\ Fail

\* One turn of the loop of wait_for_callback_seq: the lock is held from the
\* look at callback_seq to the wait.
CheckSeq ==
  /\ pc = "check"
  /\ IF callback_seq < expected_seq
     THEN pc' = "blocked" /\ UNCHANGED samples
     ELSE /\ pc' = "total"
          /\ samples' = IF request \in DOMAIN samples
                        THEN [samples EXCEPT ![request] = callback]
                        ELSE samples
  /\ UNCHANGED <<request, expected_seq, callback_seq, callback, total, idle,
                 sample_errors, status, pending, thread>>

DeadlinePasses == faults /\ pc = "blocked" /\ Fail

\* read_bucket_sums reads the three sums one after the other.
ReadTotal ==
  /\ pc = "total"
  /\ total' = Cardinality(InPool)
  /\ pc' = "idle"
  /\ UNCHANGED <<request, expected_seq, callback_seq, callback, idle, samples,
                 sample_errors, status, pending, thread>>

ReadIdle ==
  /\ pc = "idle"
  /\ idle' = Cardinality(Doing("idle"))
  /\ pc' = "active"
  /\ UNCHANGED <<request, expected_seq, callback_seq, callback, total, samples,
                 sample_errors, status, pending, thread>>

quiescent(active) == total = 1 /\ idle = 1 /\ active = 0

\* The pool is quiescent: on to the next request. Otherwise the sums are read
\* again.
ReadActive ==
  /\ pc = "active"
  /\ IF quiescent(Cardinality(Active))
     THEN IF request = Last THEN pc' = "report" /\ UNCHANGED request
          ELSE pc' = "issue" /\ request' = request + 1
     ELSE pc' = "total" /\ UNCHANGED request
  /\ UNCHANGED <<expected_seq, callback_seq, callback, total, idle, samples,
                 sample_errors, status, pending, thread>>

\* A sum cannot be read, or the time is up.
QuiescentWaitFails == faults /\ pc \in Resting /\ Fail

\* The sums or the counters before the first sample or after the last cannot be
\* read, or there is no memory for the samples: the process ends without a
\* report.
SettleFails ==
  /\ faults
  /\ pc = "report" \/ (pc = "issue" /\ request = Warmup + 1)
  /\ status' = "failed"
  /\ pc' = "done"
  /\ UNCHANGED <<request, expected_seq, callback_seq, callback, total, idle,
                 samples, sample_errors, pending, thread>>

Report ==
  /\ pc = "report"
  /\ pc' = "done"
  /\ status' = IF sample_errors = 0 THEN "ok" ELSE "error"
  /\ UNCHANGED <<request, expected_seq, callback_seq, callback, total, idle,
                 samples, sample_errors, pending, thread>>

Main ==
  \/ Expect \/ AddThreads \/ AddThreadsFails \/ CheckSeq \/ DeadlinePasses
  \/ ReadTotal \/ ReadIdle \/ ReadActive \/ QuiescentWaitFails
  \/ SettleFails \/ Report

Kernel(t) ==
  \/ \E r \in Request : CallbackStarts(t, r)
  \/ Publish(t) \/ CallbackReturns(t) \/ Retire(t)

Ended == pc = "done" /\ UNCHANGED vars

Next == ((Main \/ \E t \in Tid : Kernel(t)) /\ UNCHANGED faults) \/ Ended

\* The kernel serves every request and runs every thread.
Spec ==
  /\ Init /\ [][Next]_vars
  /\ WF_vars(Main /\ UNCHANGED faults)
  /\ \A t \in Tid : WF_vars(Kernel(t) /\ UNCHANGED faults)

-----------------------------------------------------------------------------
TypeOK ==
  /\ faults \in BOOLEAN
  /\ pc \in {"issue", "add", "check", "blocked", "total", "idle", "active",
             "report", "done"}
  /\ request \in Request
  /\ expected_seq \in Nat /\ callback_seq \in Nat
  /\ callback \in 0 .. none
  /\ total \in Nat /\ idle \in Nat
  /\ samples \in [Warmup + 1 .. Last -> 0 .. none]
  /\ sample_errors \in Nat
  /\ status \in {"running", "ok", "error", "failed"}
  /\ pending \subseteq Request
  /\ thread \in [Tid -> [doing : {"nothing", "called", "returning", "idle"},
                         of : 0 .. none]]

\* As long as nothing failed, a request is made of a pool of one idle worker
\* with no callback under way, although the three sums that tell main so are
\* read one after the other.
RequestsFromQuiet ==
  pc \in {"issue", "add"} /\ request > 0 /\ sample_errors = 0 =>
    pending = {} /\ Cardinality(InPool) = 1 /\ InPool = Doing("idle")

\* A run that reports no error has timed every sample with the callback of its
\* own request.
OkTimesOwnCallbacks ==
  status = "ok" => \A r \in DOMAIN samples : samples[r] = r

\* What elixir/lib/twq_test/workqueue_wake.ex, lines 5 and 6, says of every
\* sample: it is the latency from a request to its callback.
TimesOwnCallbacks ==
  \A r \in DOMAIN samples : samples[r] \in {r, none}

\* Without failures every callback is seen and every pool comes to rest: no
\* broadcast is lost between the look at callback_seq and the wait.
EndsOk == ~faults ~> status = "ok"
=============================================================================
