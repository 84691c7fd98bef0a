----------------------------- MODULE MCGroupWait -----------------------------
(* Three callbacks on two threads, a table of threads with room for both, and*)
(* a group the callbacks leave through state->group, waited for by main or by *)
(* a root worker.                                                            *)
EXTENDS NestedWait
=============================================================================
