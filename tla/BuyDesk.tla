------------------------------ MODULE BuyDesk ------------------------------
(***************************************************************************)
(* What the executor promises about buying, whoever runs it and however    *)
(* it submits: one client at a time is served; a sale is confirmed at most *)
(* once for the client being served, and nothing is tried after that; a    *)
(* client leaves the desk after a confirmed sale or without one; the desk  *)
(* shuts (ONESHOT) only right after a confirmed sale; and a confirmed sale *)
(* never keeps the desk for ever.  What it does not promise: once a sale   *)
(* may have been made without the desk hearing of it, the client is in     *)
(* doubt, and another may be made to the same client before it leaves.     *)
(* Dispatch implements it with the exec_gate permit, JitoSubmit with the   *)
(* control flow of the bundle submission.                                  *)
(***************************************************************************)
CONSTANTS Client,    \* mints that may be bought
          NoClient   \* nobody is served

VARIABLES client,    \* who is served
          phase      \* "free", "open" (trying, nothing sold), "doubt" (trying,
                     \* something may be sold), "sold" (confirmed), "shut"

deskVars == <<client, phase>>

DeskTypeOK ==
    /\ client \in Client \cup {NoClient}
    /\ phase \in {"free", "open", "doubt", "sold", "shut"}

Init == client = NoClient /\ phase = "free"

Open(c) ==
    /\ phase = "free"
    /\ phase' = "open"
    /\ client' = c

(* A sale is made and not heard of.                                         *)
Doubt ==
    /\ phase = "open"
    /\ phase' = "doubt"
    /\ UNCHANGED client

Sell ==
    /\ phase \in {"open", "doubt"}
    /\ phase' = "sold"
    /\ UNCHANGED client

(* The client leaves without a confirmed sale.                              *)
LeaveUnsold ==
    /\ phase \in {"open", "doubt"}
    /\ phase' = "free"
    /\ client' = NoClient

LeaveSold ==
    /\ phase = "sold"
    /\ phase' = "free"
    /\ client' = NoClient

Shut ==
    /\ phase = "sold"
    /\ phase' = "shut"
    /\ UNCHANGED client

Next ==
    \/ \E c \in Client : Open(c)
    \/ Doubt
    \/ Sell
    \/ LeaveUnsold
    \/ LeaveSold
    \/ Shut

SafeSpec == Init /\ [][Next]_deskVars

Spec == SafeSpec /\ WF_deskVars(LeaveSold \/ Shut)
=============================================================================
