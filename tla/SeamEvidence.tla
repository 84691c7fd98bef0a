---------------------------- MODULE SeamEvidence ----------------------------
(***************************************************************************)
(* The two kits that say which objects cross the default-overcommit seam,   *)
(* and so whether it is worth tuning: the macOS lane compares the counters  *)
(* of stock libdispatch with FreeBSD's, the D script names what is pushed   *)
(* on FreeBSD. A session uses one of them; they share no files.             *)
(***************************************************************************)
EXTENDS MacosLane, VtableTrace

VARIABLE kit  \* "macos" or "dtrace"

evidenceVars == <<kit, macosVars, traceVars>>

\* The other kit's variables are held at one initial state.
Init ==
  /\ kit \in {"macos", "dtrace"}
  /\ MacosInit
  /\ TraceInit
  /\ kit = "macos" =>
       /\ library = CHOOSE l \in Libraries : TRUE
       /\ slide = CHOOSE s \in Slides : TRUE
  /\ kit = "dtrace" =>
       /\ pass = "stock" /\ skipped = {} /\ ~hooks
       /\ host = CHOOSE h \in Hosts : TRUE
       /\ requested = CHOOSE n \in RequestedRounds : TRUE

Next ==
  \/ kit = "macos" /\ MacosNext /\ UNCHANGED <<kit, traceVars>>
  \/ kit = "dtrace" /\ TraceNext /\ UNCHANGED <<kit, macosVars>>

Spec == Init /\ [][Next]_evidenceVars
=============================================================================
