---------------------------- MODULE MCRepeatAfter ----------------------------
(* An executor queue one or two callbacks wide: one or two logical CPUs.     *)
EXTENDS RepeatAfter
=============================================================================
