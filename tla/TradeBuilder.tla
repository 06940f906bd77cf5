---------------------------- MODULE TradeBuilder ----------------------------
(***************************************************************************)
(* build_trade_bundle_txs of executor/pumpbuy.rs: from a signal to one     *)
(* signed transaction.  Signals with enough of the leader's instruction    *)
(* are copied without asking the chain; for the others the bonding curve   *)
(* decides between a curve buy and a buy from the AMM pool, while the      *)
(* token may be migrating from the one to the other.                       *)
(*                                                                         *)
(* An account is known by its role.  Amounts keep the code's narrowing:    *)
(* Word stands for 2^64 and Word * Word for 2^128.                         *)
(*                                                                         *)
(* An operator X_Mut before X is X with a plausible bug; it is used only   *)
(* to show that a property notices the bug.                                *)
(***************************************************************************)
EXTENDS Integers, Sequences, Sublist

CONSTANTS Theirs,     \* accounts the leader's instructions may name
          Signals,    \* signals that reach the builder
          Reserves,   \* <<base, quote>> amounts the pool may hold
          BuyLamports,\* buy_sol in lamports, one value per configuration
          SlippageBps,\* slippage_bps, one value per configuration
          Bps,        \* 10_000
          Word        \* one more than the largest u64

Sources == {"wrapper_mirror", "curve_direct_buy", "curve_cpi_buy",
            "amm_axiom_buy", "curve_pda_buyish", "rpc_buyish"}

(* accounts is what the parser carries of the leader's accounts, in order   *)
(* and without those it could not resolve.  full, which the builder does    *)
(* not see, is what the leader wrote: with anything from "global" on, for a *)
(* wrapper.  terms is what the fields leader_in and leader_min_out hold of  *)
(* a global:buy, empty if it was too short: the first is the amount of      *)
(* tokens, the second the most SOL to be paid for them.  Every signal has a *)
(* blockhash.                                                               *)
SignalType == [source : Sources, accounts : Seq(Theirs), full : Seq(Theirs), terms : Seq(Nat)]

Own == {"our_user", "our_wsol", "our_ata", "our_assoc_user", "our_user_volume_accumulator"}

Amount == 0 .. Word - 1

ASSUME WordAssumption == Word \in Nat \ {0, 1} /\ Bps \in Nat \ {0} /\ Bps <= Word
ASSUME SignalAssumption ==
    /\ Signals \subseteq SignalType
    /\ \A s \in Signals : s.terms \in Seq(Amount) /\ Len(s.terms) \in {0, 2}
ASSUME AmountAssumption ==
    /\ Reserves \subseteq Amount \X Amount
    /\ BuyLamports \subseteq Amount /\ SlippageBps \subseteq Amount

(* The accounts of a Pump.fun buy.  The payer's own take slots 5, 6 and 13  *)
(* (one more here: sequences start at 1).                                   *)
Layout == <<"global", "fee_recipient", "mint", "bonding_curve", "assoc_bonding_curve",
            "assoc_user", "user", "system_program", "token_program", "creator_vault",
            "event_authority", "pump_program", "global_volume_accumulator",
            "user_volume_accumulator", "fee_config", "fee_program">>
OwnLayout == [Layout EXCEPT ![6] = "our_assoc_user", ![7] = "our_user",
                            ![14] = "our_user_volume_accumulator"]

VARIABLES chain,    \* the token on chain: not visible yet, on its curve,
                    \* curve complete, pool created
          mayhem,   \* is_mayhem_mode of the curve
          cfg,      \* [buy, slip], chosen at start
          pc,       \* what the builder does next
          sig,      \* the signal being built
          quote,    \* <<base, quote>> reserves read, empty if none
          reads,    \* history: requests for accounts in this build
          before,   \* history: the token when this build began
          poolRead, \* history: how the accounts of the pool were answered
          tx        \* what was built

world == <<chain, mayhem, cfg>>
past == <<before, poolRead>>
vars == <<world, pc, sig, quote, reads, past, tx>>

Lives == {"hidden", "curve", "complete", "pool"}
PCs == {"idle", "route", "mint", "curve", "ammFee", "pool", "vaults", "ammHash",
        "mint2", "curve2", "fee", "hash"}

(* limit is the least amount of tokens accepted, cap the most SOL paid.     *)
Tx(route, accounts, limit, cap) ==
    [route |-> route, accounts |-> accounts, limit |-> limit, cap |-> cap]
NoTx == Tx("none", <<>>, 0, 0)
Routes == {"none", "mirror", "direct", "cpi", "curve", "amm"}

NoSignal == [source |-> "rpc_buyish", accounts |-> <<>>, full |-> <<>>, terms |-> <<>>]

MaxReads == 9  \* most requests for accounts in a build; reads saturates one above

TypeOK ==
    /\ chain \in Lives /\ mayhem \in BOOLEAN
    /\ cfg \in [buy : BuyLamports, slip : SlippageBps]
    /\ pc \in PCs
    /\ sig \in Signals \cup {NoSignal}
    /\ quote \in {<<>>} \cup Reserves
    /\ reads \in 0 .. MaxReads
    /\ before \in Lives
    /\ poolRead \in {"none", "ok", "missing", "failed"}
    /\ tx \in [route : Routes, accounts : Seq(Theirs \cup Own), limit : Amount, cap : Amount]

Init ==
    /\ chain \in Lives /\ mayhem \in BOOLEAN
    /\ cfg \in [buy : BuyLamports, slip : SlippageBps]
    /\ pc = "idle" /\ sig = NoSignal /\ quote = <<>>
    /\ reads = 0 /\ before = chain /\ poolRead = "none" /\ tx = NoTx

---------------------------------------------------------------------------
(* Arithmetic.                                                              *)

AtLeast(a, b) == IF a >= b THEN a ELSE b
AtMost(a, b) == IF a <= b THEN a ELSE b

(* u128 multiplication saturates; a cast to u64 keeps the low bits.         *)
Times(a, b) == AtMost(a * b, Word * Word - 1)
Narrow(a) == a % Word

LessSlippage(a, slip) == Times(a, AtLeast(Bps - slip, 0)) \div Bps

(* scale_min_out: minOut scaled by our amount over in, less the slippage.   *)
ScaleMinOut_Mut(in, minOut, our, slip) ==
    IF in = 0 \/ minOut = 0 THEN 1
    ELSE AtLeast(Narrow(LessSlippage(Times(in, our) \div minOut, slip)), 1)
ScaleMinOut(in, minOut, our, slip) ==
    IF in = 0 \/ minOut = 0 THEN 1
    ELSE AtLeast(Narrow(LessSlippage(Times(minOut, our) \div in, slip)), 1)

(* The constant-product estimate for an AMM buy, less the slippage.         *)
BaseOut_Mut(base, pooled, in, slip) ==
    AtLeast(1, Narrow(Times(Times(in, base) \div (pooled + in), Bps + slip) \div Bps))
BaseOut(base, pooled, in, slip) ==
    AtLeast(1, Narrow(LessSlippage(Times(in, base) \div (pooled + in), slip)))

MaxQuoteIn(in, slip) == Narrow(Times(in, Bps + slip) \div Bps)

---------------------------------------------------------------------------
(* A build begins and ends.                                                 *)

Begin(s) ==
    /\ pc = "idle"
    /\ sig' = s /\ pc' = "route"
    /\ quote' = <<>> /\ reads' = 0 /\ before' = chain /\ poolRead' = "none" /\ tx' = NoTx
    /\ UNCHANGED world

Built(t) == tx' = t /\ pc' = "idle" /\ UNCHANGED <<world, sig, quote, reads, past>>

(* Err: the caller sees no transaction.                                     *)
Err == pc' = "idle" /\ UNCHANGED <<world, sig, quote, tx>>

---------------------------------------------------------------------------
(* Copies of the leader's instruction.                                      *)

(* The wrapper's instruction with the leader's wallet, WSOL account and     *)
(* token account (of the legacy token program) replaced by ours.            *)
Ours(a) == CASE a = "leader" -> "our_user"
             [] a = "leader_wsol" -> "our_wsol"
             [] a = "leader_ata" -> "our_ata"
             [] OTHER -> a

Mirror ==
    /\ pc = "route" /\ sig.source = "wrapper_mirror"
    /\ Built(Tx("mirror", [k \in DOMAIN sig.accounts |-> Ours(sig.accounts[k])], 0, 0))

IsDirect == sig.source = "curve_direct_buy" /\ sig.terms # <<>>

(* The payer's own accounts go to fixed positions; only the first sixteen   *)
(* accounts are used.                                                       *)
Swapped_Mut == [k \in 1 .. 16 |-> CASE k = 5 -> "our_assoc_user"
                                [] k = 6 -> "our_user"
                                [] k = 14 -> "our_user_volume_accumulator"
                                [] OTHER -> sig.accounts[k]]
Swapped == [k \in 1 .. 16 |-> CASE k = 6 -> "our_assoc_user"
                                [] k = 7 -> "our_user"
                                [] k = 14 -> "our_user_volume_accumulator"
                                [] OTHER -> sig.accounts[k]]

Direct ==
    /\ pc = "route" /\ IsDirect
    /\ Len(sig.accounts) >= 16
    /\ Built(Tx("direct", Swapped,
                ScaleMinOut(sig.terms[1], sig.terms[2], cfg.buy, cfg.slip), cfg.buy))

Cpi ==
    /\ pc = "route" /\ sig.source = "curve_cpi_buy"
    /\ Len(sig.accounts) >= 16
    /\ Built(Tx("cpi", Swapped, 1, cfg.buy))

TooShort ==
    /\ pc = "route" /\ (IsDirect \/ sig.source = "curve_cpi_buy")
    /\ Len(sig.accounts) < 16
    /\ Err /\ UNCHANGED <<reads, past>>

AskChain ==
    /\ pc = "route" /\ ~IsDirect
    /\ sig.source \notin {"wrapper_mirror", "curve_cpi_buy"}
    /\ pc' = "mint"
    /\ UNCHANGED <<world, sig, quote, reads, past, tx>>

---------------------------------------------------------------------------
(* Reading the chain.  Any request may fail, and any account may turn out   *)
(* not to parse.                                                            *)

Visible == chain # "hidden"

Requests(n) == reads' = AtMost(reads + n, MaxReads + 1)
Ask == Requests(1)
AskBoth == Requests(2)
Goto(station) == pc' = station /\ UNCHANGED <<world, sig, tx>>

(* An account that has to be there for the build to go on.                  *)
Read(from, to) ==
    /\ pc = from
    /\ Ask /\ Goto(to) /\ UNCHANGED <<quote, past>>

ReadFails ==
    /\ pc \in {"mint", "curve", "ammFee", "pool", "vaults", "mint2", "curve2", "fee"}
    /\ IF pc = "vaults" THEN AskBoth ELSE Ask
    /\ Err /\ UNCHANGED past

ReadMint == Visible /\ Read("mint", "curve")

(* The state of the curve decides.  In mayhem mode the fee recipient comes  *)
(* from a list.                                                             *)
ReadCurve_Mut == Visible /\ Read("curve", "mint2")
ReadCurve ==
    /\ Visible
    /\ Read("curve", IF chain = "curve" THEN "mint2"
                     ELSE IF mayhem THEN "pool" ELSE "ammFee")

ReadAmmFee == Read("ammFee", "pool")

(* If the pool account cannot be read, whatever the reason, the builder     *)
(* goes back to the curve.                                                  *)
ReadPool ==
    /\ pc = "pool" /\ chain = "pool"
    /\ Ask /\ Goto("vaults") /\ poolRead' = "ok"
    /\ UNCHANGED <<quote, before>>

NoPool_Mut ==
    /\ pc = "pool"
    /\ Ask /\ Goto("vaults")
    /\ poolRead' = IF chain = "pool" THEN "failed" ELSE "missing"
    /\ UNCHANGED <<quote, before>>
NoPool_Mut2 ==
    /\ pc = "pool"
    /\ Ask /\ Goto("mint")
    /\ poolRead' = IF chain = "pool" THEN "failed" ELSE "missing"
    /\ UNCHANGED <<quote, before>>
NoPool ==
    /\ pc = "pool"
    /\ Ask /\ Goto("mint2")
    /\ poolRead' = IF chain = "pool" THEN "failed" ELSE "missing"
    /\ UNCHANGED <<quote, before>>

(* Both token accounts of the pool, which exist since it does, are asked    *)
(* for at once.                                                             *)
ReadVaults(r) ==
    /\ pc = "vaults" /\ cfg.buy > 0
    /\ AskBoth /\ Goto("ammHash") /\ quote' = r
    /\ UNCHANGED past

(* A vault that is not found, or whose request is reported so, also leads   *)
(* back to the curve.                                                       *)
NoVaults ==
    /\ pc = "vaults"
    /\ AskBoth /\ Goto("mint2") /\ poolRead' = "failed"
    /\ UNCHANGED <<quote, before>>

BuyTooSmall ==
    /\ pc = "vaults" /\ cfg.buy = 0
    /\ AskBoth /\ Err /\ UNCHANGED past

(* build_curve_buy_tx_bytes fetches the same accounts again and uses only   *)
(* the creator, the mode and the token program.                             *)
ReadMint2 == Visible /\ Read("mint2", "curve2")
ReadCurve2 == Visible /\ Read("curve2", IF mayhem THEN "hash" ELSE "fee")
ReadFee == Read("fee", "hash")

(* The blockhash is cached, or fetched, which may fail.                     *)
NoHash ==
    /\ pc \in {"hash", "ammHash"}
    /\ Err /\ UNCHANGED <<reads, past>>

CurveBuy == pc = "hash" /\ Built(Tx("curve", <<>>, 1, cfg.buy))

AmmBuy ==
    /\ pc = "ammHash"
    /\ Built(Tx("amm", <<>>, BaseOut(quote[1], quote[2], cfg.buy, cfg.slip),
                MaxQuoteIn(cfg.buy, cfg.slip)))

---------------------------------------------------------------------------
(* The token becomes visible to the RPC node, the curve completes, the pool *)
(* is created.                                                              *)
Migrate ==
    /\ chain' = CASE chain = "hidden" -> "curve"
                  [] chain = "curve" -> "complete"
                  [] OTHER -> "pool"
    /\ chain # "pool"
    /\ UNCHANGED <<mayhem, cfg, pc, sig, quote, reads, past, tx>>

BuilderStep ==
    \/ Mirror \/ Direct \/ Cpi \/ TooShort \/ AskChain
    \/ ReadFails
    \/ ReadMint \/ ReadCurve \/ ReadAmmFee \/ ReadPool \/ NoPool
    \/ \E r \in Reserves : ReadVaults(r)
    \/ NoVaults \/ BuyTooSmall
    \/ ReadMint2 \/ ReadCurve2 \/ ReadFee
    \/ NoHash \/ CurveBuy \/ AmmBuy

Next ==
    \/ \E s \in Signals : Begin(s)
    \/ BuilderStep
    \/ Migrate

SafeSpec == Init /\ [][Next]_vars

(* Every request ends: the RPC client has a timeout of its own.             *)
Spec == SafeSpec /\ WF_vars(BuilderStep)

---------------------------------------------------------------------------
(* Properties.                                                              *)

(* A buy from the pool is built only for a token that has one.              *)
AmmOnlyAfterMigration == tx.route = "amm" => chain = "pool"

(* A curve buy worked out from the chain has one of three reasons.  The     *)
(* curve was read before it was complete, so it could be bought from at     *)
(* that moment of the build.  Or the curve was complete and the pool not    *)
(* created yet, the transition for which the code falls back to the curve:  *)
(* that buy cannot succeed.  Or a read of the pool or of its vaults failed: *)
(* neither can that one.                                                    *)
CurveBuyJustified ==
    tx.route = "curve" =>
        \/ poolRead = "none" /\ before \in {"hidden", "curve"}
        \/ poolRead = "missing" /\ before # "pool"
        \/ poolRead = "failed"

(* A copied curve buy has in every slot the account the leader wrote there, *)
(* except for the payer's own in the payer's slots, if what is carried is   *)
(* either the beginning of what the leader wrote, or what could be resolved *)
(* of no more than sixteen accounts.  (Of more accounts than sixteen some   *)
(* may be lost and the others move up, and a stale table may name others.)  *)
Beginning ==
    /\ Len(sig.accounts) <= Len(sig.full)
    /\ sig.accounts = SubSeq(sig.full, 1, Len(sig.accounts))
Resolved ==
    /\ Len(sig.full) <= 16
    /\ sig.accounts = Only(sig.full, {sig.accounts[k] : k \in DOMAIN sig.accounts})
SlotsFaithful ==
    tx.route \in {"direct", "cpi"} /\ (Beginning \/ Resolved) =>
        tx.accounts = [k \in 1 .. 16 |-> IF OwnLayout[k] \in Own THEN OwnLayout[k] ELSE sig.full[k]]

(* The AMM buy asks for no more than the product of the reserves read       *)
(* allows for buy_sol, unless that is less than one unit.                   *)
AmmBuyFillable ==
    tx.route = "amm" =>
        \/ tx.limit = 1
        \/ /\ tx.limit <= quote[1]
           /\ (quote[1] - tx.limit) * (quote[2] + cfg.buy) >= quote[1] * quote[2]

(* limit is minOut scaled by our amount over in: never more and, where that *)
(* fits a u64, not further below than the slippage allows, up to the two    *)
(* roundings.                                                               *)
Scaled(limit, in, minOut) ==
    LET scaled == minOut * cfg.buy
    IN  /\ limit = 1 \/ limit * in <= scaled
        /\ scaled \div in < Word
             => (limit + 2) * in * Bps > scaled * AtLeast(Bps - cfg.slip, 0)

(* The limit of a copied buy is the leader's second term scaled by the      *)
(* first, whatever they mean: rounding and narrowing never put it above,    *)
(* nor below what the slippage explains.                                    *)
LimitScaled ==
    tx.route = "direct" /\ sig.terms[1] > 0 => Scaled(tx.limit, sig.terms[1], sig.terms[2])

(* pumpbuy.rs:54 "more tolerant = reduce min_out by slippage_bps": the      *)
(* limit of a copied buy, the least tokens for our SOL, is what the leader  *)
(* asked for in tokens per SOL, less the slippage.  The leader's is a       *)
(* global:buy, of an amount of tokens for at most an amount of SOL.         *)
LeaderPrice ==
    tx.route = "direct" /\ sig.terms[2] > 0 => Scaled(tx.limit, sig.terms[2], sig.terms[1])

(* A build ends, whatever the requests are answered.                        *)
BuildEnds == pc = "route" ~> pc = "idle"
=============================================================================
