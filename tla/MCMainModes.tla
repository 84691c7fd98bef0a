---- MODULE MCMainModes ----
EXTENDS MainModes
============================
