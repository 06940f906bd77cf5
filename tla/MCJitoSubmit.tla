--------------------------- MODULE MCJitoSubmit ---------------------------
(* Configurations of JitoSubmit for TLC. *)
EXTENDS JitoSubmit

Cfg(minIv, cooldown, failover, fallback, oneshot) ==
    [minIv |-> minIv, cooldown |-> cooldown, failover |-> failover,
     fallback |-> fallback, oneshot |-> oneshot]

(* No interval at all, an interval of two ms; no failover, some, more than *)
(* there are endpoints.                                                    *)
Settings == { Cfg(2, 0, 1, TRUE, FALSE), Cfg(0, 1, 5, TRUE, TRUE),
              Cfg(2, 0, 0, FALSE, FALSE) }

(* Failover and the fallback, for the run against config.rs:195. *)
Failover == { Cfg(2, 0, 1, TRUE, FALSE) }
=============================================================================
