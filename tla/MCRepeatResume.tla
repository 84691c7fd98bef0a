--------------------------- MODULE MCRepeatResume ---------------------------
(* Three rounds of three tasks: a first, a middle and a last round.          *)
EXTENDS RepeatResume
=============================================================================
