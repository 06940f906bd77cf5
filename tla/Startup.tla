------------------------------ MODULE Startup ------------------------------
(***************************************************************************)
(* Starting the bot: main up to the monitors, Executor::new and the WSOL   *)
(* bank, under an operator or a supervisor that starts it again after it   *)
(* exits or crashes.  The wallet's WSOL outlives the process, and so do    *)
(* wraps that were sent and are not final yet.                             *)
(*                                                                         *)
(* An operator X_Mut before X is X with a plausible bug; it is used only   *)
(* to show that a property notices the bug.                                *)
(***************************************************************************)
EXTENDS Integers, Sequences, SequencesExt, Functions

CONSTANTS Settings,  \* settings the bot may be started with
          Balances,  \* WSOL the wallet may hold at first
          MaxStarts  \* bound: starts of the bot

(* urls is JITO_BLOCK_ENGINE_URLS after splitting: an unset variable gives  *)
(* one blank entry.  tip is JITO_TIP_ACCOUNT: blank, an address, or         *)
(* unusable.  inputs says whether wallet, leaders and wrappers parse.       *)
Tips == {"", "operator's", "unusable"}
SettingType ==
    [mode : STRING, useJito : BOOLEAN, urls : Seq(STRING), url : STRING, tip : Tips,
     reserve : Nat, min : Nat, target : Nat, inputs : BOOLEAN, proxies : BOOLEAN]

ASSUME SettingAssumption ==
    Settings \subseteq SettingType /\ \A s \in Settings : s.urls # <<>>
ASSUME BoundAssumption == Balances \subseteq Nat /\ MaxStarts \in Nat \ {0}

VARIABLES cfg,     \* the settings
          pc,      \* where main is
          tip,     \* tip_account
          want,    \* wrap_lamports
          starts,  \* starts so far
          wsol,    \* ledger: final balance of the wallet's WSOL account
          wrap,    \* ledger: wrap sent by the n-th start, 0 if none or settled
          initial, \* history: wsol at first
          blind    \* history: starts that wrapped without knowing the balance

ledger == <<wsol, wrap>>
past == <<initial, blind>>
vars == <<cfg, pc, tip, want, starts, ledger, past>>

PCs == {"down", "inputs", "tip", "ask", "bank", "hash", "send", "proxies", "running"}
TipAccounts == {"default", "operator's", "engine's"}

TypeOK ==
    /\ cfg \in Settings
    /\ pc \in PCs /\ tip \in TipAccounts
    /\ want \in Nat
    /\ starts \in 0 .. MaxStarts
    /\ wsol \in Nat /\ wrap \in [1 .. MaxStarts -> Nat]
    /\ initial \in Nat /\ blind \in 0 .. MaxStarts

Init ==
    /\ cfg \in Settings
    /\ pc = "down" /\ tip = "default" /\ want = 0 /\ starts = 0
    /\ wsol \in Balances /\ wrap = [n \in 1 .. MaxStarts |-> 0]
    /\ initial = wsol /\ blind = 0

Go(next) == pc' = next /\ UNCHANGED <<cfg, starts>>

---------------------------------------------------------------------------
(* main and Executor::new.                                                  *)

Start ==
    /\ pc = "down" /\ starts < MaxStarts
    /\ starts' = starts + 1
    /\ pc' = "inputs" /\ tip' = "default" /\ want' = 0
    /\ UNCHANGED <<cfg, ledger, past>>

(* load_payer, parse_leaders and parse_pubkey_list.                         *)
Inputs ==
    /\ pc = "inputs"
    /\ Go(IF cfg.inputs THEN "tip" ELSE "down")
    /\ UNCHANGED <<tip, want, ledger, past>>

WantJito == cfg.useJito \/ cfg.mode \in {"demo", "bundle_pumpbuy"}
Named(urls) == SelectSeq(urls, LAMBDA u : u # "")
Clients ==
    IF ~WantJito THEN <<>>
    ELSE Named(IF cfg.urls = <<>> THEN <<cfg.url>> ELSE cfg.urls)

(* The tip account, if it takes no request: the operator's, or none where   *)
(* the mode can do without a client.                                        *)
Tip_Mut ==
    /\ pc = "tip"
    /\ IF ~WantJito \/ (cfg.tip = "" /\ Clients = <<>>)
       THEN Go("bank") /\ UNCHANGED tip
       ELSE IF cfg.tip = "" THEN Go("ask") /\ UNCHANGED tip
       ELSE IF cfg.tip = "unusable" THEN Go("down") /\ UNCHANGED tip
       ELSE Go("bank") /\ tip' = "operator's"
    /\ UNCHANGED <<want, ledger, past>>
Tip ==
    /\ pc = "tip"
    /\ UNCHANGED <<want, ledger, past>>
    /\ \/ ~WantJito /\ Go("bank") /\ UNCHANGED tip
       \/ WantJito /\ cfg.tip = "operator's" /\ Go("bank") /\ tip' = cfg.tip
       \/ WantJito /\ cfg.tip = "unusable" /\ Go("down") /\ UNCHANGED tip
       \/ WantJito /\ cfg.tip = "" /\ Clients # <<>> /\ Go("ask") /\ UNCHANGED tip
       \/ /\ WantJito /\ cfg.tip = "" /\ Clients = <<>>
          /\ Go(IF cfg.mode = "bundle_pumpbuy" THEN "down" ELSE "bank") /\ UNCHANGED tip

(* getTipAccounts of the first client; a failure counts as no accounts,     *)
(* which, like one that does not parse, ends the start.                     *)
Asked ==
    /\ pc = "ask"
    /\ \/ Go("bank") /\ tip' = "engine's"
       \/ Go("down") /\ UNCHANGED tip
    /\ UNCHANGED <<want, ledger, past>>

---------------------------------------------------------------------------
(* WsolBank::bootstrap.                                                     *)

TopsUp == cfg.min > 0 /\ cfg.target > 0

DesiredWrap_Mut(current) ==
    IF ~TopsUp THEN cfg.reserve ELSE IF current >= cfg.min THEN 0 ELSE cfg.target
DesiredWrap_Mut2(current) ==
    IF ~TopsUp THEN cfg.reserve ELSE IF current >= cfg.min THEN 0 ELSE cfg.target - current
DesiredWrap(current) ==
    IF ~TopsUp THEN cfg.reserve
    ELSE IF current >= cfg.min \/ current > cfg.target THEN 0 ELSE cfg.target - current

(* The balance is the final one; a failed read is taken for zero.           *)
Unsettled == \E n \in DOMAIN wrap : wrap[n] > 0

Read(current, known) ==
    /\ pc = "bank" /\ cfg.reserve + cfg.min + cfg.target > 0
    /\ want' = DesiredWrap(current)
    /\ Go(IF want' = 0 THEN "proxies" ELSE "hash")
    /\ blind' = IF want' > 0 /\ (~known \/ Unsettled \/ ~TopsUp) THEN blind + 1 ELSE blind
    /\ UNCHANGED <<tip, ledger, initial>>
ReadBalance == Read(wsol, TRUE)
ReadFails == Read(0, FALSE)

NoBank ==
    /\ pc = "bank" /\ cfg.reserve + cfg.min + cfg.target = 0
    /\ Go("proxies")
    /\ UNCHANGED <<tip, want, ledger, past>>

(* get_or_fetch.                                                            *)
Hash ==
    /\ pc = "hash"
    /\ Go("send") \/ Go("down")
    /\ UNCHANGED <<tip, want, ledger, past>>

(* Without a client the wrap is built and not sent.                         *)
NotSent ==
    /\ pc = "send" /\ Clients = <<>>
    /\ Go("proxies")
    /\ UNCHANGED <<tip, want, ledger, past>>

(* The engine takes the wrap, and its reply arrives or is lost.             *)
Sent ==
    /\ pc = "send" /\ Clients # <<>>
    /\ wrap' = [wrap EXCEPT ![starts] = want]
    /\ Go("proxies") \/ Go("down")
    /\ UNCHANGED <<tip, want, wsol, past>>

Refused ==
    /\ pc = "send" /\ Clients # <<>>
    /\ Go("down")
    /\ UNCHANGED <<tip, want, ledger, past>>

(* Only now main looks at SHREDSTREAM_PROXY_GRPC_URLS.                      *)
Proxies ==
    /\ pc = "proxies"
    /\ Go(IF cfg.proxies THEN "running" ELSE "down")
    /\ UNCHANGED <<tip, want, ledger, past>>

---------------------------------------------------------------------------
(* Surroundings.                                                            *)

Crash == pc # "down" /\ Go("down") /\ UNCHANGED <<tip, want, ledger, past>>

Land(n) ==
    /\ wrap[n] > 0
    /\ wsol' = wsol + wrap[n]
    /\ wrap' = [wrap EXCEPT ![n] = 0]
    /\ UNCHANGED <<cfg, pc, tip, want, starts, past>>

(* It expires with its blockhash.                                           *)
Lapse(n) ==
    /\ wrap[n] > 0
    /\ wrap' = [wrap EXCEPT ![n] = 0]
    /\ UNCHANGED <<cfg, pc, tip, want, starts, wsol, past>>

(* A buy from a pool spends WSOL.                                           *)
Spend ==
    /\ pc = "running" /\ wsol > 0
    /\ wsol' = wsol - 1
    /\ UNCHANGED <<cfg, pc, tip, want, starts, wrap, past>>

StartStep ==
    Inputs \/ Tip \/ Asked \/ NoBank \/ ReadBalance \/ ReadFails \/ Hash
    \/ NotSent \/ Sent \/ Refused \/ Proxies

Next ==
    \/ Start \/ StartStep \/ Crash \/ Spend
    \/ \E n \in 1 .. MaxStarts : Land(n) \/ Lapse(n)

Spec == Init /\ [][Next]_vars

---------------------------------------------------------------------------
(* Properties.                                                              *)

AtLeast(a, b) == IF a >= b THEN a ELSE b

(* However often the bot is restarted while wraps are under way, the WSOL   *)
(* of the wallet, with all wraps that may still land, exceeds what it had   *)
(* or the target only by one target (or one reserve) for each start that    *)
(* could not know the balance: its read failed, an earlier wrap was not     *)
(* final, or it wraps a reserve without looking.                            *)
ExposureBounded ==
    wsol + FoldFunction(+, 0, wrap)
        <= AtLeast(initial, cfg.target) + blind * AtLeast(cfg.target, cfg.reserve)

(* Mirroring in bundle mode never starts with the default tip account, and  *)
(* without a client only if the operator named a tip account himself.       *)
BundleReady ==
    pc = "running" /\ cfg.mode = "bundle_pumpbuy" =>
        /\ tip # "default"
        /\ Clients = <<>> => tip = "operator's"
=============================================================================
