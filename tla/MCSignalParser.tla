-------------------------- MODULE MCSignalParser --------------------------
(* Values for checking SignalParser: one transaction per way to find a      *)
(* buy, its accounts spread over static keys and two tables, and others     *)
(* that look like buys.                                                     *)
EXTENDS SignalParser

MCTable == [t1 |-> <<"mint", "curve", "assoc">>, t2 |-> <<"amm", "leader">>]
MCSize == [t \in DOMAIN MCTable |-> Len(MCTable[t])]
MCStart == [MCSize EXCEPT !.t1 = @ - 1]
MCDerived == {[mint |-> "mint", curve |-> "curve", assoc |-> "assoc"]}

Ix(prog, accounts, method, args) ==
    [prog |-> prog, accounts |-> accounts, method |-> method, args |-> args]
Use(t, w, r) == [table |-> t, writable |-> w, readonly |-> r]
Transact(keys, lookups, ixs) == [keys |-> keys, signers |-> 1, lookups |-> lookups, ixs |-> ixs]

(* Accounts of t1 writable and readonly, and of t2: the order of the keys   *)
(* depends on all four lists.                                               *)
DirectTables ==
    Transact(<<"leader", "pump", "global">>, <<Use("t1", <<2>>, <<1>>), Use("t2", <<2>>, <<1>>)>>,
             <<Ix(2, <<3, 1, 6, 4>>, "buy", <<5, 7>>)>>)
DirectSell ==
    Transact(<<"leader", "pump", "global", "event", "ata">>, <<Use("t1", <<1, 2, 3>>, <<>>)>>,
             <<Ix(5, <<1, 6>>, "create", <<>>), Ix(2, <<3, 1, 6, 7>>, "sell", <<5, 7>>)>>)
CpiBuy ==
    Transact(<<"leader", "axiom", "ata", "global", "fr", "user", "sys", "tok", "cv",
               "event", "pump", "gv", "uv", "fc", "fee">>,
             <<Use("t1", <<2, 3, 1>>, <<>>)>>,
             <<Ix(3, <<1>>, "create", <<>>),
               Ix(2, <<1, 4, 5, 18, 16, 17, 6, 6, 7, 8, 9, 10, 11, 12, 13, 14, 15>>, "other", <<>>),
               Ix(2, <<1, 4, 5, 18, 16, 17, 6, 7, 8, 9, 10, 11, 12, 13, 14, 15>>, "other", <<>>)>>)
AmmBuy(amount) ==
    Transact(<<"leader", "axiom", "wsol", "sys", "tok">>, <<Use("t2", <<>>, <<1>>), Use("t1", <<1>>, <<>>)>>,
             <<Ix(2, <<3, 4, 5>>, "wrap", <<amount>>), Ix(2, <<7, 6, 3>>, "other", <<>>)>>)
Routed ==
    Transact(<<"leader", "router", "ata", "tok">>, <<Use("t1", <<2, 1>>, <<>>)>>,
             <<Ix(3, <<1, 6>>, "create", <<>>), Ix(2, <<4, 6, 5>>, "other", <<>>)>>)
Wrapper ==
    Transact(<<"leader", "gmgn", "trojan", "mint", "event">>, <<>>,
             <<Ix(3, <<1>>, "other", <<>>), Ix(2, <<1, 4>>, "other", <<>>)>>)
Unfollowed ==
    Transact(<<"other", "pump", "mint">>, <<Use("t2", <<2>>, <<>>)>>,
             <<Ix(2, <<1, 4, 3>>, "buy", <<>>)>>)
Stranger ==
    Transact(<<"leader", "gmgn", "mint">>, <<>>, <<Ix(2, <<1, 3>>, "other", <<>>)>>)

MCArrivals ==
    [c1 |-> {DirectTables, DirectSell, CpiBuy, AmmBuy(9), AmmBuy(1), Routed, Wrapper, Unfollowed, Stranger},
     c2 |-> {DirectTables}]

Setting(leaders, strict, resolve, skip, cpi) ==
    [leaders |-> leaders, strict |-> strict, resolve |-> resolve, skip |-> skip, cpi |-> cpi,
     wrappers |-> {"gmgn", "axiom", "trojan"}]
MCSettings ==
    {Setting({"leader"}, TRUE, TRUE, TRUE, TRUE),
     Setting({"leader"}, FALSE, TRUE, FALSE, TRUE), Setting({}, FALSE, TRUE, FALSE, FALSE),
     Setting({"leader"}, FALSE, FALSE, FALSE, TRUE)}
=============================================================================
