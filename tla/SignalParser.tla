---------------------------- MODULE SignalParser ----------------------------
(***************************************************************************)
(* From a transaction to a signal (monitor/shredstream_proxy.rs): the      *)
(* stage-0 filter of run_monitor, which sees the static keys only, and     *)
(* parse_buy_signal_from_tx, which first resolves the lookup tables and    *)
(* then tries one way after the other to find a buy and its mint.  Parses  *)
(* run concurrently and share the resolver.                                *)
(*                                                                         *)
(* An account is a name and positions count from one.                      *)
(*                                                                         *)
(* An operator X_Mut before X is X with a plausible bug; it is used only   *)
(* to show that a property notices the bug.                                *)
(***************************************************************************)
EXTENDS AltResolver, Sublist, SequencesExt

CONSTANTS Table,     \* the addresses of each table, as the runtime has them
          Arrivals,  \* transactions that may arrive at a parse slot
          Settings,  \* settings the bot may be started with
          PumpNamed, \* accounts whose name ends with "pump"
          MintLike,  \* accounts that find_first_spl_mint_in_accounts accepts
          Derived,   \* [mint, curve, assoc]: the curve's addresses per mint
          MinWrap    \* MIN_WRAP_LAMPORTS

(* data is the instruction's method with its argument: the amount of a wrap *)
(* or, for a buy that is long enough to have them, its two numbers.         *)
Instruction == [prog : Nat, accounts : Seq(Nat), method : STRING, args : Seq(Nat)]
Lookup == [table : TableKey, writable : Seq(Nat), readonly : Seq(Nat)]
Transaction == [keys : Seq(STRING), signers : Nat, lookups : Seq(Lookup), ixs : Seq(Instruction)]

(* Programs and signers of a transaction are static keys, and its lookups   *)
(* are within the tables: the runtime executes no other.                    *)
Executable(tx) ==
    /\ tx.signers \in 1 .. Len(tx.keys)
    /\ \A k \in DOMAIN tx.ixs : tx.ixs[k].prog \in 1 .. Len(tx.keys)
    /\ \A k \in DOMAIN tx.lookups :
          LET l == tx.lookups[k]
          IN  ToSet(l.writable \o l.readonly) \subseteq DOMAIN Table[l.table]

ASSUME TableContents ==
    \A t \in TableKey : Table[t] \in Seq(STRING) /\ Len(Table[t]) = Size[t]
ASSUME ArrivalAssumption ==
    \A c \in Client : \A tx \in Arrivals[c] : tx \in Transaction /\ Executable(tx)
ASSUME SettingAssumption ==
    Settings \subseteq [leaders : SUBSET STRING, strict : BOOLEAN, resolve : BOOLEAN,
                        skip : BOOLEAN, cpi : BOOLEAN, wrappers : SUBSET STRING]

VARIABLES cfg, \* the settings, chosen at start
          job  \* what each parse slot does

vars == <<alt, cfg, job>>

(* The result of a parse is a signal or, by its source, why there is none.  *)
Sources == {"curve_direct_buy", "curve_cpi_buy", "amm_axiom_buy", "curve_pda_buyish",
            "rpc_buyish", "wrapper_mirror"}
Reasons == {"none", "filtered", "missed", "error"}
Name == STRING \cup {""}
Result == [source : Sources \cup Reasons, leader : Name, mint : Name,
           accounts : Seq(Name), terms : Seq(Nat), program : Name]
Nothing(reason) == [source |-> reason, leader |-> "", mint |-> "",
                    accounts |-> <<>>, terms |-> <<>>, program |-> ""]
NoSignal == Nothing("none")

NoTx == [keys |-> <<>>, signers |-> 0, lookups |-> <<>>, ixs |-> <<>>]
Idle(tx, w, r, res) ==
    [at |-> "idle", tx |-> tx, next |-> 1, writable |-> w, readonly |-> r, res |-> res]

TypeOK ==
    /\ AltTypeOK
    /\ cfg \in Settings
    /\ \A c \in Client :
          /\ job[c].at \in {"idle", "lookups", "probe"}
          /\ job[c].tx \in Arrivals[c] \cup {NoTx}
          /\ job[c].next \in 1 .. Len(job[c].tx.lookups) + 1
          /\ {job[c].writable, job[c].readonly} \subseteq Seq(STRING)
          /\ job[c].res \in Result
          /\ call[c].op # "idle" => job[c].at = IF call[c].table = NoTable THEN "probe" ELSE "lookups"

Init ==
    /\ AltInit
    /\ cfg \in Settings
    /\ job = [c \in Client |-> Idle(NoTx, <<>>, <<>>, NoSignal)]

---------------------------------------------------------------------------
(* What a parse sees of a transaction, given all its keys as far as they    *)
(* are resolved: accounts that are not are left out of an instruction.      *)
View(tx, keys) ==
    LET At(i) == IF i \in DOMAIN keys THEN keys[i] ELSE "unresolved"
        All(ix) == [k \in DOMAIN ix.accounts |-> At(ix.accounts[k])]
    IN  [keys |-> keys, signers |-> tx.signers,
         ixs |-> [k \in DOMAIN tx.ixs |->
                     [prog |-> tx.keys[tx.ixs[k].prog], method |-> tx.ixs[k].method,
                      args |-> tx.ixs[k].args, all |-> All(tx.ixs[k]),
                      accounts |-> Only(All(tx.ixs[k]), ToSet(keys))]]]

(* The first result that is one.  What the instructions yield is bound to s *)
(* so that TLC works it out once.                                           *)
First(s, none) ==
    IF \A k \in DOMAIN s : s[k] = none THEN none
    ELSE s[CHOOSE k \in DOMAIN s : s[k] # none /\ \A j \in 1 .. k - 1 : s[j] = none]
FirstFound(v, Found(_), none) ==
    CHOOSE x \in {First(s, none) : s \in {[k \in DOMAIN v.ixs |-> Found(v.ixs[k])]}} : TRUE
Else(a, b) == IF a # NoSignal THEN a ELSE b

FirstIn(s, T) == Head(Append(Only(s, T), ""))
Position(s, a) == SelectInSeq(s, LAMBDA b : b = a)

(* The leaders among the signers, or among all keys, in order.              *)
Followed(v) ==
    IF cfg.leaders = {} THEN v.keys
    ELSE Only(IF cfg.strict THEN SubSeq(v.keys, 1, v.signers) ELSE v.keys, cfg.leaders)

Signal(v, source, mint, accounts) ==
    [Nothing(source) EXCEPT !.leader = Head(Followed(v)), !.mint = mint, !.accounts = accounts]

Names(v, a) == a \in ToSet(v.keys)
HasAta(v) == \E k \in DOMAIN v.ixs : v.ixs[k].prog = "ata"

(* axiom_wrap_amount_lamports: the first wrap of SOL that Axiom makes.      *)
Wraps(v) ==
    LET Amount(ix) == IF /\ ix.prog = "axiom" /\ ix.method = "wrap"
                         /\ {"wsol", "sys", "tok"} \subseteq ToSet(ix.accounts)
                      THEN Head(ix.args) ELSE -1
    IN  FirstFound(v, Amount, -1) >= MinWrap

(* axiom_infer_amm_base_mint: the account left of WSOL in the first Axiom   *)
(* instruction that swaps.  An account that cannot be resolved, or a swap   *)
(* without WSOL, ends the search.                                           *)
BaseMint(v) ==
    LET Left(accs) == IF Position(accs, "wsol") > 1 THEN accs[Position(accs, "wsol") - 1] ELSE "wsol"
        Swaps(ix) == "amm" \in ToSet(ix.accounts)
        Dead(ix) == \/ "unresolved" \in ToSet(ix.all)
                    \/ Swaps(ix) /\ Position(ix.accounts, "wsol") = 0
        Found(ix) == IF ix.prog # "axiom" THEN "go on"
                     ELSE IF Dead(ix) THEN ""
                     ELSE IF Swaps(ix) /\ Left(ix.accounts) \notin {"wsol", "sys", "tok", "axiom", "amm"}
                     THEN Left(ix.accounts) ELSE "go on"
        found == FirstFound(v, Found, "go on")
    IN  IF found = "go on" THEN "" ELSE found

---------------------------------------------------------------------------
(* The ways to find a buy, in the order of the code.                        *)

(* 1: an instruction of the Pump.fun program itself.                        *)
Direct(v) ==
    LET IsBuy(ix) == /\ ix.prog = "pump" /\ ix.method = "buy"
                     /\ Len(ix.all) > 2 /\ ix.all[3] # "unresolved"
        Found(ix) == IF IsBuy(ix)
                     THEN [Signal(v, "curve_direct_buy", ix.all[3], ix.accounts) EXCEPT !.terms = ix.args]
                     ELSE NoSignal
    IN  FirstFound(v, Found, NoSignal)

(* 2: the sixteen accounts of a Pump.fun buy inside an Axiom instruction.   *)
Cpi(v) ==
    LET Block(accs) == SubSeq(accs, Position(accs, "global"), Position(accs, "global") + 15)
        IsBlock(b) == /\ b[8] = "sys" /\ b[9] \in {"tok", "tok22"} /\ b[12] = "pump"
                      /\ b[16] = "fee" /\ b[3] \in PumpNamed
        IsBuy(ix) == /\ ix.prog = "axiom"
                     /\ Position(ix.accounts, "global") \in 1 .. Len(ix.accounts) - 15
                     /\ \E b \in {Block(ix.accounts)} : IsBlock(b)
        Found(ix) == IF IsBuy(ix)
                     THEN Signal(v, "curve_cpi_buy", Block(ix.accounts)[3], Block(ix.accounts))
                     ELSE NoSignal
    IN  IF HasAta(v) THEN FirstFound(v, Found, NoSignal) ELSE NoSignal

(* 3: a swap with the AMM through Axiom.                                    *)
Amm(v) ==
    IF Names(v, "amm") /\ Wraps(v) /\ BaseMint(v) # ""
    THEN Signal(v, "amm_axiom_buy", BaseMint(v), <<>>) ELSE NoSignal

(* infer_pump_mint_by_pdas: the first key whose curve is among the keys.    *)
Pda(v) ==
    LET mints == {d.mint : d \in {e \in Derived : Names(v, e.curve) /\ Names(v, e.assoc)}}
        mint == FirstIn(v.keys, mints)
    IN  IF (\A a \in {"pump", "global", "event"} : Names(v, a)) /\ HasAta(v) /\ mint # ""
        THEN Signal(v, "curve_pda_buyish", mint, <<>>) ELSE NoSignal

(* 4: find_first_spl_mint_in_accounts, given what the RPC node shows.       *)
Buyish(v) == IF Names(v, "amm") THEN Wraps(v) ELSE HasAta(v)
Probed(v) == UNION {ToSet(v.ixs[k].accounts) : k \in DOMAIN v.ixs} \ {"tok", "tok22", "wsol"}
Probe(v, shown) ==
    LET Found(ix) == FirstIn(ix.accounts, Probed(v) \cap MintLike \cap shown)
        mint == FirstFound(v, Found, "")
    IN  IF Buyish(v) /\ mint # "" THEN Signal(v, "rpc_buyish", mint, <<>>) ELSE NoSignal

(* 5: the instruction of a wrapper program.  infer_mint_by_suffix_pump      *)
(* takes any key with the right name.                                       *)
Mirror(v) ==
    LET Suffix == FirstIn(v.keys, PumpNamed)
        OnAmm(ix) == ix.prog = "axiom" /\ Names(v, "amm")
        Mint(ix) == IF OnAmm(ix) /\ BaseMint(v) # "" THEN BaseMint(v) ELSE Suffix
        IsBuy(ix) == /\ ix.prog \in cfg.wrappers \ {"trojan"}
                     /\ OnAmm(ix) => Wraps(v)
                     /\ Mint(ix) # ""
        Found(ix) == IF IsBuy(ix)
                     THEN [Signal(v, "wrapper_mirror", Mint(ix), ix.accounts) EXCEPT !.program = ix.prog]
                     ELSE NoSignal
    IN  FirstFound(v, Found, NoSignal)

(* All that needs no request, and all of it in one go.                      *)
Offline(v) ==
    IF Followed(v) = <<>> THEN NoSignal
    ELSE Else(Direct(v), IF cfg.cpi THEN Else(Cpi(v), Else(Amm(v), Pda(v))) ELSE NoSignal)
Late(v, shown) ==
    IF Followed(v) # <<>> /\ cfg.cpi THEN Else(Probe(v, shown), Mirror(v))
    ELSE NoSignal
Verdict(v, shown) == Else(Offline(v), Late(v, shown))

---------------------------------------------------------------------------
(* The steps of a parse.                                                    *)

Finish(c, res) == job' = [job EXCEPT ![c] = Idle(@.tx, @.writable, @.readonly, res)]
Abandon(c, reason) == job' = [job EXCEPT ![c] = Idle(@.tx, <<>>, <<>>, Nothing(reason))]

(* Stage 0: the leader, and anything of Pump.fun or a lookup table.         *)
Passes_Mut(tx) ==
    /\ Followed(tx) # <<>>
    /\ {"pump", "amm", "global", "event"} \cap ToSet(tx.keys) # {}
Passes(tx) ==
    /\ Followed(tx) # <<>>
    /\ \/ {"pump", "amm", "global", "event"} \cap ToSet(tx.keys) # {}
       \/ cfg.cpi /\ tx.lookups # <<>>

Begin(c, tx) ==
    /\ job[c].at = "idle"
    /\ LET new == Idle(tx, <<>>, <<>>, Nothing("filtered"))
       IN  job' = [job EXCEPT ![c] = IF Passes(tx)
                                     THEN [new EXCEPT !.at = "lookups", !.res = NoSignal] ELSE new]
    /\ UNCHANGED <<alt, cfg>>

Pending(c) ==
    /\ job[c].at = "lookups" /\ call[c].op = "idle"
    /\ cfg.resolve /\ job[c].next <= Len(job[c].tx.lookups)
Due(c) == job[c].tx.lookups[job[c].next]

(* The addresses of a lookup, given the length of the list; indexes beyond  *)
(* it are skipped.                                                          *)
Loaded(t, len, indexes) ==
    LET known == Only(indexes, 1 .. len)
    IN  [k \in DOMAIN known |-> Table[t][known[k]]]

Load_Mut(c, len) ==
    LET l == Due(c)
    IN  job' = [job EXCEPT ![c].next = @ + 1,
                           ![c].writable = @ \o Loaded(l.table, len, l.writable)
                                             \o Loaded(l.table, len, l.readonly)]
Load(c, len) ==
    LET l == Due(c)
    IN  job' = [job EXCEPT ![c].next = @ + 1,
                           ![c].writable = @ \o Loaded(l.table, len, l.writable),
                           ![c].readonly = @ \o Loaded(l.table, len, l.readonly)]

(* ALT_MISS_SKIP: a miss gives the transaction up and fetches for others.   *)
Peek(c) ==
    /\ Pending(c) /\ cfg.skip
    /\ LET t == Due(c).table
       IN  IF cache[t] # Missing THEN Load(c, cache[t]) /\ UNCHANGED alt
           ELSE Abandon(c, "missed") /\ Spawn(t)
    /\ UNCHANGED cfg

Ask_Mut(c) ==
    /\ Pending(c) /\ ~cfg.skip
    /\ Get(c, Due(c).table)
    /\ Abandon(c, "missed")
    /\ UNCHANGED cfg
Ask(c) ==
    /\ Pending(c) /\ ~cfg.skip
    /\ Get(c, Due(c).table)
    /\ UNCHANGED <<cfg, job>>

Answer_Mut(c) ==
    /\ job[c].at = "lookups" /\ Take(c)
    /\ IF call[c].op = "got" THEN Load(c, call[c].len) ELSE UNCHANGED job
    /\ UNCHANGED cfg
Answer(c) ==
    /\ job[c].at = "lookups" /\ Take(c)
    /\ IF call[c].op = "got" THEN Load(c, call[c].len) ELSE Abandon(c, "error")
    /\ UNCHANGED cfg

Keys(c) == job[c].tx.keys \o job[c].writable \o job[c].readonly

(* All lookups are done: the cascade, up to the request of the fourth way.  *)
Decide(c) ==
    /\ job[c].at = "lookups" /\ call[c].op = "idle"
    /\ cfg.resolve => job[c].next > Len(job[c].tx.lookups)
    /\ \E v \in {View(job[c].tx, Keys(c))} : \E early \in {Offline(v)} :
          IF /\ early = NoSignal /\ Followed(v) # <<>>
             /\ cfg.cpi /\ Buyish(v) /\ Probed(v) # {}
          THEN Batch(c) /\ job' = [job EXCEPT ![c].at = "probe"]
          ELSE Finish(c, Verdict(v, {})) /\ UNCHANGED alt
    /\ UNCHANGED cfg

(* The node shows some of the accounts.                                     *)
ProbeEnds(c) ==
    /\ job[c].at = "probe" /\ Take(c)
    /\ IF call[c].op = "failed" THEN Abandon(c, "error")
       ELSE \E v \in {View(job[c].tx, Keys(c))}, shown \in SUBSET MintLike : Finish(c, Late(v, shown))
    /\ UNCHANGED cfg

ParseStep(c) == Peek(c) \/ Ask(c) \/ Answer(c) \/ Decide(c) \/ ProbeEnds(c)

Next ==
    \/ ResolverStep /\ UNCHANGED <<cfg, job>>
    \/ \E c \in Client : ParseStep(c) \/ \E tx \in Arrivals[c] : Begin(c, tx)

SafeSpec == Init /\ [][Next]_vars
Spec == SafeSpec /\ AltFairness /\ \A c \in Client : WF_vars(ParseStep(c))

---------------------------------------------------------------------------
(* Properties.                                                              *)

(* The keys of a transaction as the runtime orders them: static, writable   *)
(* of all tables, readonly of all tables.                                   *)
Chosen(tx, indexes(_)) ==
    FlattenSeq([k \in DOMAIN tx.lookups |->
                   Loaded(tx.lookups[k].table, Size[tx.lookups[k].table], indexes(tx.lookups[k]))])
RuntimeKeys(tx) ==
    tx.keys \o Chosen(tx, LAMBDA l : l.writable) \o Chosen(tx, LAMBDA l : l.readonly)

(* What a parse may say of a transaction it sees as the runtime does,       *)
(* whichever accounts the RPC node shows.                                   *)
Verdicts(tx) == {Verdict(View(tx, RuntimeKeys(tx)), shown) : shown \in SUBSET MintLike}

(* However fetches, expiry and the growth of tables interleave, a parse     *)
(* that skipped no index finds what the transaction as executed contains:   *)
(* the same leader, mint and accounts, or no signal.                        *)
SignalFaithful ==
    \A c \in Client :
        LET tx == job[c].tx
        IN  /\ job[c].at = "idle" /\ job[c].res.source \in Sources \cup {"none"}
            /\ Len(Keys(c)) = Len(RuntimeKeys(tx))
            => job[c].res \in Verdicts(tx)

(* Stage 0 loses no signal of a transaction that touches Pump.fun, in its   *)
(* static keys or in a table, unless the leader does not sign, is in no     *)
(* static key and STRICT_SIGNER is off.                                     *)
StageZeroComplete ==
    \A c \in Client :
        LET tx == job[c].tx
        IN  /\ job[c].res.source = "filtered"
            /\ {"pump", "amm", "global", "event"} \cap ToSet(RuntimeKeys(tx)) # {}
            /\ Verdicts(tx) # {NoSignal}
            => ~cfg.strict /\ cfg.leaders \cap ToSet(tx.keys) = {}

(* A parse ends, whoever else waits for the same table or for a permit.     *)
ParseEnds == \A c \in Client : job[c].at # "idle" ~> job[c].at = "idle"
=============================================================================
