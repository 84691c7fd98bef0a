--------------------------- MODULE MCBundleReplay ---------------------------
(* A bundle fed with a small set of counter records: an idle pool, one      *)
(* worker asked for, admitted, blocked, unblocked and narrowed, reads torn  *)
(* so that more workers are idle than exist, and another bucket count.      *)
EXTENDS BundleReplay

Reading(req, admit, block, unblock, narrow, total, idle, buckets) ==
  [req |-> req, admit |-> admit, block |-> block, unblock |-> unblock,
   narrow |-> narrow, total |-> total, idle |-> idle,
   bucket_count |-> buckets]

MCReadings ==
  {Reading(0, 0, 0, 0, 0, 0, 0, 1),   \* no worker yet
   Reading(1, 0, 0, 0, 0, 0, 0, 1),   \* asked for
   Reading(1, 1, 0, 0, 0, 1, 0, 1),   \* admitted, running
   Reading(1, 1, 1, 0, 0, 1, 0, 1),   \* blocked
   Reading(1, 1, 1, 1, 0, 1, 1, 1),   \* unblocked, then idle
   Reading(1, 1, 1, 1, 1, 2, 0, 1),   \* narrowed
   Reading(1, 1, 1, 1, 1, 0, 1, 1),   \* torn: idle without a worker
   Reading(1, 1, 1, 1, 1, 0, 0, 1),   \* retired
   Reading(0, 0, 0, 0, 0, 0, 0, 2)}   \* another bucket count
=============================================================================
