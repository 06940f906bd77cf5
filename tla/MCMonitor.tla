---------------------------- MODULE MCMonitor ----------------------------
(* Batches for TLC: single transactions, and a batch that repeats one. *)
EXTENDS Monitor

CONSTANTS s1, s2

Mixed == { <<s1>>, <<s2, s1>>, <<s1, s2, s1>> }
=============================================================================
