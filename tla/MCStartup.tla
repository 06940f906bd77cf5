----------------------------- MODULE MCStartup -----------------------------
(* Values for checking Startup: every mode with every kind of client list   *)
(* and tip account, and every way to ask for WSOL.                          *)
EXTENDS Startup

Setting(mode, useJito, urls, tipAccount, bank) ==
    [mode |-> mode, useJito |-> useJito, urls |-> urls, url |-> "e0", tip |-> tipAccount,
     reserve |-> bank[1], min |-> bank[2], target |-> bank[3],
     inputs |-> TRUE, proxies |-> TRUE]

Lists == {<<"">>, <<"e1">>, <<"", "e2">>}
Engines ==
    {Setting(mode, useJito, urls, t, <<0, 2, 3>>) :
        mode \in {"log", "demo", "bundle_pumpbuy"}, useJito \in BOOLEAN,
        urls \in Lists, t \in Tips}
(* <<reserve, min, target>>: none, a reserve, top-ups, and targets that are *)
(* at, and below, the minimum.                                              *)
Banks ==
    {Setting("bundle_pumpbuy", TRUE, <<"e1">>, "operator's", bank) :
        bank \in {<<0, 0, 0>>, <<2, 0, 0>>, <<1, 0, 3>>, <<5, 2, 3>>, <<0, 3, 3>>, <<0, 4, 2>>}}
Faulty ==
    {[Setting("log", TRUE, <<"e1">>, "", <<2, 0, 0>>) EXCEPT !.inputs = FALSE],
     [Setting("bundle_pumpbuy", TRUE, <<"e1">>, "", <<2, 0, 0>>) EXCEPT !.proxies = FALSE]}

MCSettings == Engines \cup Banks \cup Faulty
=============================================================================
