---- MODULE MCWakeBench ----
EXTENDS WakeBench
============================
