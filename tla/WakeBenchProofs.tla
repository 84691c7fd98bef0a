---------------------------- MODULE WakeBenchProofs ----------------------------
(***************************************************************************)
(* Proofs about WakeBench, for any numbers of requests and kernel threads.  *)
(***************************************************************************)
EXTENDS WakeBench, Integers, FiniteSetTheorems, TLAPS

\* Nothing has failed so far.
Clean == sample_errors = 0 /\ status # "failed"

\* No request is out: the kernel holds none, and no callback is to publish.
NoneOut == pending = {} /\ Doing("called") = {}

\* The running request is out, and no other.
OneOut ==
  \/ pending = {request} /\ Doing("called") = {}
  \/ /\ pending = {}
     /\ \E t \in Tid : Doing("called") = {t} /\ thread[t].of = request

\* The callback of the running request, and no other, has been published.
Answered == NoneOut /\ InPool # {} /\ callback_seq = expected_seq
              /\ callback = request

\* Where the running request is, as long as nothing has failed.
Served ==
  /\ pc \notin {"check", "blocked"} => NoneOut
  /\ pc = "add" => expected_seq = callback_seq + 1
  /\ pc \in {"check", "blocked"} =>
       (OneOut /\ expected_seq = callback_seq + 1) \/ Answered

\* A pool with no request out only shrinks, so it is no larger than the total
\* that was read last; and it keeps one thread.
Pool ==
  /\ pc \in {"total", "idle", "active"} => InPool # {}
  /\ pc \in {"idle", "active"} => Cardinality(InPool) <= total
  /\ pc \in {"issue", "add"} /\ request > 0 =>
       Cardinality(InPool) = 1 /\ InPool = Doing("idle")

\* The requests that were answered have been timed with their own callbacks.
Timed ==
  \A r \in DOMAIN samples :
    \/ r < request
    \/ r = request /\ pc \notin {"issue", "add", "check", "blocked"}
    => samples[r] = r

IInv ==
  /\ TypeOK
  /\ status # "running" => pc = "done"
  /\ status = "ok" => sample_errors = 0
  /\ Clean => /\ Served /\ Pool /\ Timed
              /\ pc \in {"report", "done"} => request = Last

-----------------------------------------------------------------------------
LEMMA Numbers ==
  /\ Last \in Nat \ {0} /\ none = Last + 1 /\ Request = 0..Last
  /\ Warmup \in Nat
BY BenchAssumption DEF Last, none, Request

LEMMA PoolFinite ==
  /\ IsFiniteSet(InPool) /\ Cardinality(InPool) \in Nat
  /\ IsFiniteSet(Active) /\ Cardinality(Active) \in Nat
  /\ Cardinality(Doing("idle")) \in Nat
<1>1. /\ InPool \in SUBSET Tid /\ Active \in SUBSET Tid
      /\ Doing("idle") \in SUBSET Tid
  BY DEF InPool, Active, Doing
<1> QED
  BY <1>1, BenchAssumption, FS_Subset, FS_CardinalityType

LEMMA InvariantInit == Init => IInv
<1> SUFFICES ASSUME Init PROVE IInv
  OBVIOUS
<1>1. TypeOK
  BY Numbers DEF Init, TypeOK
<1>2. NoneOut
  BY DEF Init, NoneOut, Doing
<1>3. Served /\ Pool
  BY <1>2 DEF Init, Served, Pool
<1>4. Timed
  <2>1. \A r \in DOMAIN samples : ~(r < request) /\ r # request
    BY Numbers DEF Init
  <2> QED
    BY <2>1 DEF Timed
<1> QED
  BY <1>1, <1>3, <1>4 DEF Init, IInv

\* A failure is remembered, and ends the loop or goes on to a next request.
LEMMA FailStep ==
  ASSUME IInv, Fail, faults' = faults, pc \notin {"report", "done"}
  PROVE  IInv'
<1>1. CASE request <= Warmup
  <2>1. /\ status' = "failed" /\ pc' = "done"
        /\ UNCHANGED <<request, sample_errors, expected_seq, callback_seq,
                       callback, total, idle, samples, pending, thread>>
    BY <1>1 DEF Fail
  <2> QED
    BY <2>1 DEF IInv, TypeOK, Clean
<1>2. CASE ~(request <= Warmup)
  <2>1. /\ sample_errors' = sample_errors + 1
        /\ UNCHANGED <<status, expected_seq, callback_seq, callback, total,
                       idle, samples, pending, thread>>
        /\ \/ pc' = "report" /\ request' = request
           \/ pc' = "issue" /\ request' = request + 1 /\ request # Last
    BY <1>2 DEF Fail
  <2>2. request' \in Request
    BY <2>1, Numbers DEF IInv, TypeOK
  <2>3. sample_errors' \in Nat /\ sample_errors' # 0
    BY <2>1 DEF IInv, TypeOK
  <2>4. pc' \in {"report", "issue"} /\ status # "ok"
    BY <2>1 DEF IInv, TypeOK
  <2>5. TypeOK'
    BY <2>1, <2>2, <2>3, <2>4 DEF IInv, TypeOK
  <2> QED
    BY <2>1, <2>3, <2>4, <2>5 DEF IInv, Clean
<1> QED
  BY <1>1, <1>2

-----------------------------------------------------------------------------
\* The kernel takes up the one request that is out.
LEMMA StartsStep ==
  ASSUME IInv, NEW t \in Tid, NEW r \in Request, CallbackStarts(t, r),
         faults' = faults
  PROVE  IInv'
<1>1. /\ r \in pending /\ thread[t].doing \in {"nothing", "idle"}
      /\ pending' = pending \ {r}
      /\ thread' = [thread EXCEPT ![t] = [doing |-> "called", of |-> r]]
      /\ UNCHANGED <<pc, request, expected_seq, total, idle, samples,
                     sample_errors, status, callback_seq, callback, faults>>
  BY DEF CallbackStarts, mainVars
<1>2. TypeOK'
  <2>1. r \in 0 .. none
    BY Numbers
  <2>2. thread' \in [Tid -> [doing : {"nothing", "called", "returning", "idle"},
                             of : 0 .. none]]
    BY <1>1, <2>1 DEF IInv, TypeOK
  <2> QED
    BY <1>1, <2>2 DEF IInv, TypeOK
<1>3. \A u \in Tid : thread'[u] = IF u = t THEN [doing |-> "called", of |-> r]
                                 ELSE thread[u]
  BY <1>1 DEF IInv, TypeOK
<1>4. ASSUME Clean
      PROVE  /\ pc \in {"check", "blocked"} /\ r = request
             /\ pending = {request} /\ Doing("called") = {}
             /\ expected_seq = callback_seq + 1
  BY <1>1, <1>4 DEF IInv, Served, NoneOut, OneOut, Answered
<1>5. ASSUME Clean
      PROVE  OneOut'
  <2>1. pending' = {}
    BY <1>1, <1>4, <1>5
  <2>2. thread'[t].of = request' /\ thread'[t].doing = "called"
    BY <1>1, <1>3, <1>4, <1>5
  <2>3. \A u \in Tid : thread'[u].doing = "called" <=> u = t
    BY <1>3, <1>4, <1>5, <2>2 DEF Doing
  <2>4. {u \in Tid : thread'[u].doing = "called"} = {t}
    BY <2>3
  <2> QED
    BY <2>1, <2>2, <2>4 DEF OneOut, Doing
<1>6. ASSUME Clean
      PROVE  Served' /\ Pool' /\ Timed' /\ (pc' \notin {"report", "done"})
  <2>1. Served'
    BY <1>1, <1>4, <1>5, <1>6 DEF Served
  <2>2. Pool'
    BY <1>1, <1>4, <1>6 DEF Pool
  <2>3. Timed'
    BY <1>1, <1>6 DEF IInv, Timed
  <2> QED
    BY <1>1, <1>4, <1>6, <2>1, <2>2, <2>3
<1>7. Clean' <=> Clean
  BY <1>1 DEF Clean
<1> QED
  BY <1>1, <1>2, <1>6, <1>7 DEF IInv

\* The callback that publishes is that of the running request.
LEMMA PublishStep ==
  ASSUME IInv, NEW t \in Tid, Publish(t), faults' = faults
  PROVE  IInv'
<1>1. /\ thread[t].doing = "called"
      /\ callback_seq' = callback_seq + 1
      /\ callback' = thread[t].of
      /\ thread' = [thread EXCEPT ![t].doing = "returning"]
      /\ pc' = pc \/ (pc = "blocked" /\ pc' = "check")
      /\ UNCHANGED <<request, expected_seq, total, idle, samples, sample_errors,
                     status, pending, faults>>
  BY DEF Publish
<1>2. TypeOK'
  <2>1. thread[t].of \in 0 .. none /\ callback_seq' \in Nat
    BY <1>1 DEF IInv, TypeOK
  <2>2. thread' \in [Tid -> [doing : {"nothing", "called", "returning", "idle"},
                             of : 0 .. none]]
    BY <1>1 DEF IInv, TypeOK
  <2>3. pc' \in {"issue", "add", "check", "blocked", "total", "idle", "active",
                 "report", "done"}
    BY <1>1 DEF IInv, TypeOK
  <2> QED
    BY <1>1, <2>1, <2>2, <2>3 DEF IInv, TypeOK
<1>3. \A u \in Tid : thread'[u].doing = IF u = t THEN "returning"
                                       ELSE thread[u].doing
  BY <1>1 DEF IInv, TypeOK
<1>4. t \in Doing("called")
  BY <1>1 DEF Doing
<1>5. ASSUME Clean
      PROVE  /\ pc \in {"check", "blocked"} /\ pending = {}
             /\ Doing("called") = {t} /\ thread[t].of = request
             /\ expected_seq = callback_seq + 1
  BY <1>4, <1>5 DEF IInv, Served, NoneOut, OneOut, Answered
<1>6. ASSUME Clean
      PROVE  Answered'
  <2>1. \A u \in Tid : thread'[u].doing # "called"
    BY <1>3, <1>5, <1>6 DEF Doing
  <2>2. t \in InPool'
    BY <1>3 DEF InPool, Doing
  <2> QED
    BY <1>1, <1>5, <1>6, <2>1, <2>2 DEF Answered, NoneOut, Doing
<1>7. ASSUME Clean
      PROVE  Served' /\ Pool' /\ Timed' /\ pc' \notin {"report", "done"}
  <2>1. pc' \in {"check", "blocked"}
    BY <1>1, <1>5, <1>7
  <2>2. Served' /\ Pool'
    BY <1>6, <1>7, <2>1 DEF Served, Pool
  <2>3. Timed'
    BY <1>1, <1>5, <1>7, <2>1 DEF IInv, Timed
  <2> QED
    BY <2>1, <2>2, <2>3
<1>8. /\ Clean' <=> Clean
      /\ status' = "ok" => sample_errors' = 0
      /\ status' # "running" => pc' = "done"
  BY <1>1 DEF IInv, Clean
<1> QED
  BY <1>2, <1>7, <1>8 DEF IInv

\* A thread that comes to rest or is retired: the pool keeps a thread, and the
\* callbacks stay where they are.
LEMMA RestStep ==
  ASSUME IInv, NEW t \in Tid, CallbackReturns(t) \/ Retire(t), faults' = faults
  PROVE  IInv'
<1>1. /\ \/ /\ thread[t].doing = "returning"
            /\ thread' = [thread EXCEPT ![t].doing = "idle"]
         \/ /\ thread[t].doing = "idle" /\ InPool # {t}
            /\ thread' = [thread EXCEPT ![t].doing = "nothing"]
      /\ UNCHANGED <<pc, request, expected_seq, total, idle, samples,
                     sample_errors, status, callback_seq, callback, pending,
                     faults>>
  BY DEF CallbackReturns, Retire, mainVars
<1>2. TypeOK'
  <2>1. thread' \in [Tid -> [doing : {"nothing", "called", "returning", "idle"},
                             of : 0 .. none]]
    BY <1>1 DEF IInv, TypeOK
  <2> QED
    BY <1>1, <2>1 DEF IInv, TypeOK
<1>3. /\ \A u \in Tid : u # t => thread'[u] = thread[u]
      /\ thread'[t].doing \in {"idle", "nothing"}
  BY <1>1 DEF IInv, TypeOK
<1>4. \A u \in Tid : thread[u].doing = "called" =>
                      u # t /\ thread'[u].of = thread[u].of
  BY <1>1, <1>3
<1>5. Doing("called")' = Doing("called")
  BY <1>1, <1>3 DEF Doing
<1>6. /\ InPool' \subseteq InPool
      /\ InPool # {} => InPool' # {}
      /\ Cardinality(InPool') <= Cardinality(InPool)
  <2>1. InPool' \subseteq InPool
    BY <1>1, <1>3 DEF InPool, Doing
  <2>2. InPool # {} => InPool' # {}
    <3>1. CASE thread[t].doing = "returning"
      <4>1. thread'[t].doing = "idle"
        BY <1>1, <3>1 DEF IInv, TypeOK
      <4> QED
        BY <4>1 DEF InPool, Doing
    <3>2. CASE thread[t].doing = "idle" /\ InPool # {t}
      <4>1. t \in InPool
        BY <3>2 DEF InPool, Doing
      <4>2. PICK u \in InPool : u # t
        BY <3>2, <4>1
      <4>3. u \in InPool'
        BY <1>3, <4>2 DEF InPool, Doing
      <4> QED
        BY <4>3
    <3> QED
      BY <1>1, <3>1, <3>2
  <2> QED
    BY <2>1, <2>2, PoolFinite, FS_Subset
<1>7. ASSUME Clean
      PROVE  Served'
  <2>1. NoneOut' <=> NoneOut
    BY <1>1, <1>5 DEF NoneOut
  <2>2. OneOut => OneOut'
    BY <1>1, <1>4, <1>5 DEF OneOut, Doing
  <2>3. Answered => Answered'
    BY <1>1, <1>6, <2>1 DEF Answered
  <2> QED
    BY <1>1, <1>7, <2>1, <2>2, <2>3 DEF IInv, Served
<1>8. ASSUME Clean
      PROVE  Pool'
  <2>1. ASSUME Cardinality(InPool) = 1, InPool = Doing("idle")
        PROVE  FALSE
    <3>1. thread[t].doing = "idle" /\ InPool # {t}
      BY <1>1, <2>1 DEF InPool, Doing
    <3>2. t \in InPool
      BY <3>1 DEF InPool, Doing
    <3>3. \E x : InPool = {x}
      BY <2>1, PoolFinite, FS_Singleton
    <3> QED
      BY <3>1, <3>2, <3>3
  <2>2. Cardinality(InPool') \in Nat
    BY <1>6, PoolFinite, FS_Subset, FS_CardinalityType
  <2>3. Cardinality(InPool) <= total => Cardinality(InPool') <= total
    BY <1>6, <2>2, PoolFinite DEF IInv, TypeOK
  <2> QED
    BY <1>1, <1>6, <1>8, <2>1, <2>3 DEF IInv, Pool
<1>9. /\ Clean' <=> Clean
      /\ Clean => Timed'
  BY <1>1 DEF IInv, Clean, Timed
<1> QED
  BY <1>1, <1>2, <1>7, <1>8, <1>9 DEF IInv

-----------------------------------------------------------------------------
LEMMA ExpectStep ==
  ASSUME IInv, Expect, faults' = faults
  PROVE  IInv'
<1>1. /\ pc = "issue" /\ pc' = "add" /\ expected_seq' = callback_seq + 1
      /\ UNCHANGED <<request, callback_seq, callback, total, idle, samples,
                     sample_errors, status, pending, thread, faults>>
  BY DEF Expect
<1>2. TypeOK'
  BY <1>1 DEF IInv, TypeOK
<1>3. Clean => Served' /\ Pool' /\ Timed'
  BY <1>1 DEF IInv, Served, Pool, Timed, NoneOut, InPool, Doing
<1> QED
  BY <1>1, <1>2, <1>3 DEF IInv, Clean

LEMMA AddStep ==
  ASSUME IInv, AddThreads, faults' = faults
  PROVE  IInv'
<1>1. /\ pc = "add" /\ pc' = "check" /\ pending' = pending \cup {request}
      /\ UNCHANGED <<request, expected_seq, callback_seq, callback, total, idle,
                     samples, sample_errors, status, thread, faults>>
  BY DEF AddThreads
<1>2. TypeOK'
  BY <1>1 DEF IInv, TypeOK
<1>3. ASSUME Clean
      PROVE  Served' /\ Pool' /\ Timed'
  <2>1. NoneOut /\ expected_seq = callback_seq + 1
    BY <1>1, <1>3 DEF IInv, Served
  <2>2. OneOut'
    BY <1>1, <2>1 DEF NoneOut, OneOut, Doing
  <2> QED
    BY <1>1, <1>3, <2>1, <2>2 DEF IInv, Served, Pool, Timed
<1> QED
  BY <1>1, <1>2, <1>3 DEF IInv, Clean

\* The sequence number tells main that its own request was answered.
LEMMA CheckStep ==
  ASSUME IInv, CheckSeq, faults' = faults
  PROVE  IInv'
<1>1. /\ pc = "check"
      /\ UNCHANGED <<request, expected_seq, callback_seq, callback, total, idle,
                     sample_errors, status, pending, thread, faults>>
  BY DEF CheckSeq
<1>2. CASE callback_seq < expected_seq
  <2>1. pc' = "blocked" /\ samples' = samples
    BY <1>2 DEF CheckSeq
  <2>2. TypeOK'
    BY <1>1, <2>1 DEF IInv, TypeOK
  <2>3. ASSUME Clean
        PROVE  Served' /\ Pool' /\ Timed'
    <3>1. ~Answered
      BY <1>2 DEF IInv, TypeOK, Answered
    <3>2. OneOut /\ expected_seq = callback_seq + 1
      BY <1>1, <2>3, <3>1 DEF IInv, Served
    <3>3. OneOut'
      BY <1>1, <3>2 DEF OneOut, Doing
    <3> QED
      BY <1>1, <2>1, <2>3, <3>2, <3>3 DEF IInv, Served, Pool, Timed
  <2> QED
    BY <1>1, <2>1, <2>2, <2>3 DEF IInv, Clean
<1>3. CASE ~(callback_seq < expected_seq)
  <2>1. /\ pc' = "total"
        /\ samples' = IF request \in DOMAIN samples
                      THEN [samples EXCEPT ![request] = callback]
                      ELSE samples
    BY <1>3 DEF CheckSeq
  <2>2. TypeOK'
    BY <1>1, <2>1 DEF IInv, TypeOK
  <2>3. ASSUME Clean
        PROVE  Served' /\ Pool' /\ Timed'
    <3>1. expected_seq # callback_seq + 1
      BY <1>3 DEF IInv, TypeOK
    <3>2. Answered
      BY <1>1, <2>3, <3>1 DEF IInv, Served
    <3>3. NoneOut' /\ InPool' # {}
      BY <1>1, <3>2 DEF Answered, NoneOut, InPool, Doing
    <3>4. \A r \in DOMAIN samples' :
            r < request \/ r = request => samples'[r] = r
      <4>1. DOMAIN samples' = DOMAIN samples
        BY <2>1
      <4>2. \A r \in DOMAIN samples : r < request => samples[r] = r
        BY <2>3 DEF IInv, Timed
      <4>3. \A r \in DOMAIN samples : r < request => r # request
        BY Numbers DEF IInv, TypeOK
      <4>4. callback = request
        BY <3>2 DEF Answered
      <4> QED
        BY <2>1, <4>1, <4>2, <4>3, <4>4
    <3> QED
      BY <1>1, <2>1, <3>3, <3>4 DEF Served, Pool, Timed
  <2> QED
    BY <1>1, <2>1, <2>2, <2>3 DEF IInv, Clean
<1> QED
  BY <1>2, <1>3

\* A read of a sum: what was read is as large as the pool now.
LEMMA ReadStep ==
  ASSUME IInv, ReadTotal \/ ReadIdle, faults' = faults
  PROVE  IInv'
<1>1. /\ \/ /\ pc = "total" /\ pc' = "idle"
            /\ total' = Cardinality(InPool) /\ idle' = idle
         \/ /\ pc = "idle" /\ pc' = "active"
            /\ idle' = Cardinality(Doing("idle")) /\ total' = total
      /\ UNCHANGED <<request, expected_seq, callback_seq, callback, samples,
                     sample_errors, status, pending, thread, faults>>
  BY DEF ReadTotal, ReadIdle
<1>2. TypeOK'
  <2>1. total' \in Nat /\ idle' \in Nat
    BY <1>1, PoolFinite DEF IInv, TypeOK
  <2> QED
    BY <1>1, <2>1 DEF IInv, TypeOK
<1>3. InPool' = InPool /\ (NoneOut' <=> NoneOut)
  BY <1>1 DEF InPool, NoneOut, Doing
<1>4. ASSUME Clean
      PROVE  Served' /\ Pool' /\ Timed'
  <2>1. Served'
    BY <1>1, <1>3, <1>4 DEF IInv, Served
  <2>2. Cardinality(InPool) <= total'
    BY <1>1, <1>4, PoolFinite DEF IInv, Pool
  <2>3. Pool'
    BY <1>1, <1>3, <1>4, <2>2 DEF IInv, Pool
  <2>4. Timed'
    BY <1>1, <1>4 DEF IInv, Timed
  <2> QED
    BY <2>1, <2>3, <2>4
<1> QED
  BY <1>1, <1>2, <1>4 DEF IInv, Clean

\* Sums that say "one idle worker" say so of the pool as it is now, although
\* they were read one after the other.
LEMMA ActiveStep ==
  ASSUME IInv, ReadActive, faults' = faults
  PROVE  IInv'
<1>1. /\ pc = "active"
      /\ UNCHANGED <<expected_seq, callback_seq, callback, total, idle, samples,
                     sample_errors, status, pending, thread, faults>>
  BY DEF ReadActive
<1>2. /\ InPool' = InPool /\ Doing("idle")' = Doing("idle")
      /\ NoneOut' <=> NoneOut
  BY <1>1 DEF InPool, NoneOut, Doing
<1>3. CASE quiescent(Cardinality(Active))
  <2>1. \/ request = Last /\ pc' = "report" /\ request' = request
        \/ request # Last /\ pc' = "issue" /\ request' = request + 1
    BY <1>3 DEF ReadActive
  <2>2. TypeOK'
    <3>1. request' \in Request
      BY <2>1, Numbers DEF IInv, TypeOK
    <3>2. pc' \in {"report", "issue"}
      BY <2>1
    <3> QED
      BY <1>1, <3>1, <3>2 DEF IInv, TypeOK
  <2>3. ASSUME Clean
        PROVE  Served' /\ Pool' /\ Timed'
    <3>1. Active = {} /\ total = 1
      BY <1>3, PoolFinite, FS_EmptySet DEF quiescent
    <3>2. InPool = Doing("idle")
      <4>1. \A u \in Tid : thread[u].doing \in
                            {"nothing", "called", "returning", "idle"}
        BY DEF IInv, TypeOK
      <4> QED
        BY <3>1, <4>1 DEF InPool, Active, Doing
    <3>3. Cardinality(InPool) = 1
      <4>1. InPool # {} /\ Cardinality(InPool) <= 1
        BY <1>1, <2>3, <3>1 DEF IInv, Pool
      <4>2. Cardinality(InPool) # 0
        BY <4>1, PoolFinite, FS_EmptySet
      <4> QED
        BY <4>1, <4>2, PoolFinite
    <3>4. Served'
      BY <1>1, <1>2, <2>1, <2>3 DEF IInv, Served
    <3>5. Pool'
      BY <1>2, <2>1, <3>2, <3>3 DEF Pool
    <3>6. Timed'
      <4>1. \A r \in DOMAIN samples : r <= request => samples[r] = r
        BY <1>1, <2>3, Numbers DEF IInv, TypeOK, Timed
      <4>2. \A r \in DOMAIN samples :
              \/ r < request'
              \/ r = request' /\ pc' = "report"
              => r <= request
        BY <2>1, Numbers DEF IInv, TypeOK
      <4> QED
        BY <1>1, <2>1, <4>1, <4>2 DEF Timed
    <3> QED
      BY <3>4, <3>5, <3>6
  <2>4. /\ pc' \in {"report", "done"} => request' = Last
        /\ status' = "running"
    BY <1>1, <2>1 DEF IInv
  <2> QED
    BY <1>1, <2>2, <2>3, <2>4 DEF IInv, Clean
<1>4. CASE ~quiescent(Cardinality(Active))
  <2>1. pc' = "total" /\ request' = request
    BY <1>4 DEF ReadActive
  <2>2. TypeOK'
    BY <1>1, <2>1 DEF IInv, TypeOK
  <2>3. Clean => Served' /\ Pool' /\ Timed'
    BY <1>1, <1>2, <2>1 DEF IInv, Served, Pool, Timed
  <2> QED
    BY <1>1, <2>1, <2>2, <2>3 DEF IInv, Clean
<1> QED
  BY <1>3, <1>4

\* A process that ends without a report claims nothing.
LEMMA SettleStep ==
  ASSUME IInv, SettleFails, faults' = faults
  PROVE  IInv'
<1>1. /\ status' = "failed" /\ pc' = "done"
      /\ UNCHANGED <<request, sample_errors, expected_seq, callback_seq,
                     callback, total, idle, samples, pending, thread>>
  BY DEF SettleFails
<1> QED
  BY <1>1 DEF IInv, TypeOK, Clean

LEMMA ReportStep ==
  ASSUME IInv, Report, faults' = faults
  PROVE  IInv'
<1>1. /\ pc = "report" /\ pc' = "done"
      /\ status' = IF sample_errors = 0 THEN "ok" ELSE "error"
      /\ UNCHANGED <<request, expected_seq, callback_seq, callback, total, idle,
                     samples, sample_errors, pending, thread, faults>>
  BY DEF Report
<1>2. TypeOK'
  BY <1>1 DEF IInv, TypeOK
<1>3. CASE sample_errors = 0 /\ status # "failed"
  <2>1. Clean /\ NoneOut
    BY <1>1, <1>3 DEF IInv, Clean, Served
  <2>2. NoneOut'
    BY <1>1, <2>1 DEF NoneOut, Doing
  <2>3. Served' /\ Pool' /\ Timed'
    BY <1>1, <2>1, <2>2 DEF IInv, Served, Pool, Timed
  <2> QED
    BY <1>1, <1>2, <1>3, <2>1, <2>3 DEF IInv
<1>4. CASE sample_errors # 0
  BY <1>1, <1>2, <1>4 DEF IInv, Clean
<1>5. status # "failed"
  BY <1>1 DEF IInv
<1> QED
  BY <1>3, <1>4, <1>5

LEMMA InvariantStep == IInv /\ [Next]_vars => IInv'
<1> SUFFICES ASSUME IInv, [Next]_vars PROVE IInv'
  OBVIOUS
<1>1. CASE UNCHANGED vars
  BY <1>1 DEF vars, mainVars, IInv, TypeOK, Clean, Served, Pool, Timed, NoneOut,
     OneOut, Answered, InPool, Doing
<1>2. ASSUME Main, faults' = faults
      PROVE  IInv'
  <2>1. AddThreadsFails \/ DeadlinePasses \/ QuiescentWaitFails
          => Fail /\ pc \notin {"report", "done"}
    BY DEF AddThreadsFails, DeadlinePasses, QuiescentWaitFails, Resting
  <2> QED
    BY <1>2, <2>1, FailStep, ExpectStep, AddStep, CheckStep, ReadStep, ActiveStep,
       SettleStep, ReportStep DEF Main
<1>3. ASSUME NEW t \in Tid, Kernel(t), faults' = faults
      PROVE  IInv'
  BY <1>3, StartsStep, PublishStep, RestStep DEF Kernel
<1> QED
  BY <1>1, <1>2, <1>3 DEF Next, Ended

LEMMA Invariant == Spec => []IInv
BY InvariantInit, InvariantStep, PTL DEF Spec

-----------------------------------------------------------------------------
\* Type correctness of main, callbacks and kernel.
THEOREM TypeCorrect == Spec => []TypeOK
<1>1. IInv => TypeOK
  BY DEF IInv
<1> QED
  BY <1>1, Invariant, PTL

\* As long as nothing failed, every request but the first is made of a pool of
\* one idle worker: the order in which the three sums are read is safe, since a
\* pool without requests only shrinks.
THEOREM QuietCorrect == Spec => []RequestsFromQuiet
<1>1. IInv => RequestsFromQuiet
  <2> SUFFICES ASSUME IInv, pc \in {"issue", "add"}, request > 0,
                      sample_errors = 0
               PROVE  pending = {} /\ Cardinality(InPool) = 1
                        /\ InPool = Doing("idle")
    BY DEF RequestsFromQuiet
  <2>1. Clean
    BY DEF IInv, Clean
  <2> QED
    BY <2>1 DEF IInv, Served, Pool, NoneOut
<1> QED
  BY <1>1, Invariant, PTL

\* An ok run has timed each sample with the callback of its own request.
THEOREM TimesCorrect == Spec => []OkTimesOwnCallbacks
<1>1. IInv => OkTimesOwnCallbacks
  <2> SUFFICES ASSUME IInv, status = "ok", NEW r \in DOMAIN samples
               PROVE  samples[r] = r
    BY DEF OkTimesOwnCallbacks
  <2>1. Clean /\ pc = "done"
    BY DEF IInv, Clean
  <2>2. request = Last /\ Timed
    BY <2>1 DEF IInv
  <2>3. r < Last \/ r = Last
    BY Numbers DEF IInv, TypeOK
  <2> QED
    BY <2>1, <2>2, <2>3 DEF Timed
<1> QED
  BY <1>1, Invariant, PTL
=============================================================================
