---------------------------- MODULE SnapshotSpi ----------------------------
(***************************************************************************)
(* The private SPI __pthread_workqueue_pressure_snapshot_np, called by the  *)
(* threads of a process, and tbbx_twq_bridge_wrapping_delta_u32, by which a *)
(* thread that keeps the snapshot it used last finds what was counted since. *)
(* Of the counters in a compact snapshot the workers requested stand for    *)
(* all: each is cut to Width bits, 32 in the code. That a thread keeps its  *)
(* last snapshot is not in the repository.                                  *)
(***************************************************************************)
EXTENDS Naturals

CONSTANTS
  Caller,
  Width,
  MaxRequests, MaxCaptures    \* bounds of a run

ASSUME SpiAssumption == {Width, MaxRequests, MaxCaptures} \subseteq Nat

VARIABLES
  requested,            \* the kernel's count of workers ever requested
  captures,             \* how many captures were made, which dates them
  next_generation,
  at,                   \* what each caller does next
  preview,              \* what the running call of a caller has captured
  snapshot,             \* the compact snapshot a caller was filled last
  kept                  \* the one it used last

spiVars == <<requested, captures, next_generation, at, preview, snapshot, kept>>

PreviewReadings == [requested : 0..MaxRequests, capture : 0..MaxCaptures]

no_reading == [requested |-> 0, capture |-> 0]

\* The field "of" is not in the code: it keeps what the snapshot was made of.
no_snapshot == [generation |-> 0, requested_workers |-> 0, of |-> no_reading]

SpiInit ==
  /\ requested = 0
  /\ captures = 0
  /\ next_generation = 1
  /\ at = [c \in Caller |-> "call"]
  /\ preview = [c \in Caller |-> no_reading]
  /\ snapshot = [c \in Caller |-> no_snapshot]
  /\ kept = [c \in Caller |-> no_snapshot]

-----------------------------------------------------------------------------
(* Mutated forms, each a plausible bug; no specification uses them.        *)

\* A delta that takes a wrapped counter for one that was reset.
wrapping_delta_saturates(current, before) ==
  IF current < before THEN 0 ELSE current - before

-----------------------------------------------------------------------------
low(value) == value % 2^Width

\* A mutated form of Fill: a generation that is loaded and not added to.
Fill_loads(c) ==
  /\ at[c] = "fill"
  /\ snapshot' = [snapshot EXCEPT ![c] =
                    [generation |-> next_generation,
                     requested_workers |-> low(preview[c].requested),
                     of |-> preview[c]]]
  /\ at' = [at EXCEPT ![c] = "delta"]
  /\ UNCHANGED <<requested, captures, next_generation, preview, kept>>

KernelRequests ==
  /\ requested < MaxRequests
  /\ requested' = requested + 1
  /\ UNCHANGED <<captures, next_generation, at, preview, snapshot, kept>>

\* The call clears the snapshot and reads the kernel.
Capture(c) ==
  /\ at[c] = "call"
  /\ captures < MaxCaptures
  /\ captures' = captures + 1
  /\ snapshot' = [snapshot EXCEPT ![c] = no_snapshot]
  /\ preview' = [preview EXCEPT ![c] =
                   [requested |-> requested, capture |-> captures']]
  /\ at' = [at EXCEPT ![c] = "fill"]
  /\ UNCHANGED <<requested, next_generation, kept>>

\* A read that fails leaves the snapshot cleared and takes no generation.
PreviewFails(c) ==
  /\ at[c] = "call"
  /\ snapshot' = [snapshot EXCEPT ![c] = no_snapshot]
  /\ UNCHANGED <<requested, captures, next_generation, at, preview, kept>>

\* The generation is taken after the read, and the snapshot filled.
Fill(c) ==
  /\ at[c] = "fill"
  /\ snapshot' = [snapshot EXCEPT ![c] =
                    [generation |-> next_generation,
                     requested_workers |-> low(preview[c].requested),
                     of |-> preview[c]]]
  /\ next_generation' = next_generation + 1
  /\ at' = [at EXCEPT ![c] = "delta"]
  /\ UNCHANGED <<requested, captures, preview, kept>>

\* tbbx_twq_bridge_wrapping_delta_u32.
wrapping_delta(current, before) == (current + 2^Width - before) % 2^Width

\* The caller takes its delta and keeps the snapshot.
TakeDelta(c) ==
  /\ at[c] = "delta"
  /\ kept' = [kept EXCEPT ![c] = snapshot[c]]
  /\ at' = [at EXCEPT ![c] = "call"]
  /\ UNCHANGED <<requested, captures, next_generation, preview, snapshot>>

SpiNext ==
  \/ KernelRequests
  \/ \E c \in Caller : Capture(c) \/ PreviewFails(c) \/ Fill(c) \/ TakeDelta(c)

SpiSpec == SpiInit /\ [][SpiNext]_spiVars

-----------------------------------------------------------------------------
Snapshots ==
  [generation : Nat, requested_workers : 0 .. 2^Width - 1, of : PreviewReadings]

SpiTypeOK ==
  /\ requested \in 0..MaxRequests
  /\ captures \in 0..MaxCaptures
  /\ next_generation \in Nat \ {0}
  /\ at \in [Caller -> {"call", "fill", "delta"}]
  /\ preview \in [Caller -> PreviewReadings]
  /\ snapshot \in [Caller -> Snapshots]
  /\ kept \in [Caller -> Snapshots]

\* A generation names one snapshot of one caller, generation 0 one that holds
\* no data, and the snapshots a caller gets come in the order of their
\* generations and of their captures.
GenerationsNameSnapshots ==
  \A c \in Caller :
    /\ at[c] # "delta" \/ snapshot[c].generation > 0
    /\ at[c] = "delta" =>
         /\ kept[c].generation < snapshot[c].generation
         /\ kept[c].of.capture < snapshot[c].of.capture
    /\ \A d \in Caller \ {c} :
         snapshot[c].generation # 0 =>
           snapshot[c].generation \notin {snapshot[d].generation,
                                          kept[d].generation}

\* Two snapshots of a caller give the exact number of requests between them,
\* although the counter may have wrapped, unless there were 2^Width or more.
DeltasSurviveWrap ==
  \A c \in Caller :
    at[c] = "delta" =>
      LET exact == snapshot[c].of.requested - kept[c].of.requested
      IN exact < 2^Width =>
           wrapping_delta(snapshot[c].requested_workers,
                          kept[c].requested_workers) = exact
=============================================================================
