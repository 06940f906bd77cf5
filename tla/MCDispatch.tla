---------------------------- MODULE MCDispatch ----------------------------
(* Configurations of Dispatch for TLC. *)
EXTENDS Dispatch, TLC

Cfg(mode, jito, oneshot, covers, lossy) ==
    [mode |-> mode, jito |-> jito, oneshot |-> oneshot,
     covers |-> covers, lossy |-> lossy]

(* Every path of on_signal, with and without each timing assumption. *)
AllPaths ==
    { Cfg("log", FALSE, FALSE, FALSE, FALSE),
      Cfg("other", TRUE, FALSE, FALSE, FALSE),
      Cfg("demo", FALSE, TRUE, FALSE, TRUE),
      Cfg("bundle_pumpbuy", FALSE, FALSE, FALSE, FALSE),
      Cfg("bundle_pumpbuy", TRUE, FALSE, FALSE, FALSE),
      Cfg("bundle_pumpbuy", TRUE, FALSE, TRUE, TRUE),
      Cfg("bundle_pumpbuy", TRUE, TRUE, FALSE, FALSE) }

(* The paths for the liveness run: those that may keep the gate.  covers   *)
(* would only take steps away; replies are lost in demo.                   *)
LivePaths ==
    {c \in AllPaths : ~c.covers /\ (c.mode = "demo" \/ (c.mode = "bundle_pumpbuy" /\ c.jito))}

(* Mints and permits are interchangeable: sound for the safety runs. *)
Symmetry == Permutations(Mint) \cup Permutations(Worker)

(* The shipped behaviour with every reply delivered. *)
Bundle == { Cfg("bundle_pumpbuy", TRUE, FALSE, FALSE, FALSE) }
=============================================================================
