--------------------------- MODULE MCTradeBuilder ---------------------------
(* Values for checking TradeBuilder: whole instructions, ones that lack an  *)
(* account in various places, ones longer than the layout, ones whose       *)
(* accounts a stale table replaced or that never follow the layout, and     *)
(* ones that were too short to have terms.                                  *)
EXTENDS TradeBuilder

Carry(source, full, accounts, terms) ==
    [source |-> source, accounts |-> accounts, full |-> full, terms |-> terms]
Whole(source, full, terms) == Carry(source, full, full, terms)
Lacking(source, full, lost, terms) ==
    Carry(source, full, Only(full, {full[k] : k \in DOMAIN full} \ {lost}), terms)

Losses == {"global", "assoc_user", "token_program", "fee_program"}
Terms == {<<>>, <<0, 3>>, <<3, 0>>, <<2, 3>>, <<3, 2>>, <<1, 15>>, <<7, 15>>, <<15, 15>>}
Wrapped == <<"leader", "leader_wsol", "leader_ata", "other">>
Longer == Append(Layout, "other")
Reversed == [k \in 1 .. 16 |-> Layout[17 - k]]
Stale == [Layout EXCEPT ![4] = "other", ![10] = "bonding_curve"]

MCTheirs == {Layout[k] : k \in DOMAIN Layout} \cup {Wrapped[k] : k \in DOMAIN Wrapped}
MCSignals ==
    {Whole("curve_direct_buy", Layout, t) : t \in Terms}
    \cup {Lacking("curve_direct_buy", full, lost, <<3, 2>>) :
              full \in {Layout, Longer}, lost \in Losses}
    \cup {Whole("curve_direct_buy", full, <<3, 2>>) : full \in {Longer, Reversed}}
    \cup {Carry("curve_direct_buy", Layout, Stale, <<3, 2>>),
          Whole("curve_cpi_buy", Layout, <<>>),
          Carry("curve_cpi_buy", Longer, Layout, <<>>),
          Whole("wrapper_mirror", Wrapped, <<>>),
          Whole("amm_axiom_buy", <<>>, <<>>)}
MCReserves == {<<0, 5>>, <<9, 0>>, <<1, 15>>, <<15, 1>>, <<13, 7>>}

(* Twelve tokens for at most three units of SOL.                            *)
MCBuys == {Whole("curve_direct_buy", Layout, <<12, 3>>)}
=============================================================================
