------------------------- MODULE TradeBuilderProofs -------------------------
(***************************************************************************)
(* Proofs about TradeBuilder, for any signals, reserves and configuration  *)
(* and any width of the integers.                                          *)
(***************************************************************************)
EXTENDS TradeBuilder, FoldLemmas, SequenceTheorems, TLAPS

---------------------------------------------------------------------------
(* Arithmetic.                                                              *)

LEMMA Quotient ==
    ASSUME NEW a \in Nat, NEW b \in Nat \ {0}
    PROVE  a \div b \in Nat /\ b * (a \div b) <= a /\ a < b * (a \div b) + b
OBVIOUS

LEMMA Monotone ==
    ASSUME NEW a \in Nat, NEW b \in Nat, NEW c \in Nat, a <= b
    PROVE  a * c <= b * c /\ a * c \in Nat /\ b * c \in Nat
OBVIOUS

LEMMA NarrowType == ASSUME NEW a \in Nat PROVE Narrow(a) \in Amount /\ Narrow(a) <= a
BY WordAssumption DEF Narrow, Amount

LEMMA TimesType ==
    ASSUME NEW a \in Nat, NEW b \in Nat
    PROVE  Times(a, b) \in Nat /\ Times(a, b) <= a * b /\ a * b \in Nat
<1>1. a * b \in Nat /\ Word * Word - 1 \in Nat
  BY WordAssumption
<1> QED
  BY <1>1 DEF Times, AtMost

(* Taking the slippage off never adds to an amount.                         *)
LEMMA SlippageShrinks ==
    ASSUME NEW a \in Nat, NEW slip \in Nat
    PROVE  LessSlippage(a, slip) \in Nat /\ LessSlippage(a, slip) <= a
<1> DEFINE left == AtLeast(Bps - slip, 0)
           t == Times(a, left)
<1>1. left \in Nat /\ left <= Bps
  BY WordAssumption DEF AtLeast
<1>2. t \in Nat /\ t <= a * left
  BY <1>1, TimesType
<1>3. left * a <= Bps * a /\ a * left = left * a /\ Bps * a \in Nat
  BY <1>1, Monotone, WordAssumption
<1>4. t \div Bps \in Nat /\ Bps * (t \div Bps) <= t
  BY <1>2, Quotient, WordAssumption
<1> HIDE DEF t, left
<1>5. Bps * (t \div Bps) <= Bps * a
  BY <1>1, <1>2, <1>3, <1>4, WordAssumption
<1>6. t \div Bps <= a
  BY <1>4, <1>5, WordAssumption
<1> QED
  BY <1>4, <1>6 DEF LessSlippage, t, left

(* What is asked of the pool never exceeds the constant product, unless it  *)
(* is the single unit of the code's lower limit.                            *)
LEMMA BaseOutFillable ==
    ASSUME NEW base \in Amount, NEW pooled \in Amount, NEW in \in Amount, in > 0,
           NEW slip \in Nat
    PROVE  LET out == BaseOut(base, pooled, in, slip)
           IN  /\ out \in Nat \ {0}
               /\ \/ out = 1
                  \/ out <= base /\ (base - out) * (pooled + in) >= base * pooled
<1> DEFINE sum == pooled + in
           t == Times(in, base)
           est == t \div sum
           less == LessSlippage(est, slip)
           out == BaseOut(base, pooled, in, slip)
<1>1. base \in Nat /\ pooled \in Nat /\ in \in Nat \ {0} /\ sum \in Nat \ {0}
  BY WordAssumption DEF Amount
<1>2. t \in Nat /\ t <= in * base
  BY <1>1, TimesType
<1>3. est \in Nat /\ sum * est <= t
  BY <1>1, <1>2, Quotient
<1>4. less \in Nat /\ less <= est
  BY <1>3, SlippageShrinks
<1>5. Narrow(less) \in Nat /\ Narrow(less) <= less
  BY <1>4, NarrowType, WordAssumption DEF Amount
<1>6. out = AtLeast(1, Narrow(less))
  BY DEF BaseOut
<1> HIDE DEF sum, t, est, less, out
<1>7. out \in Nat \ {0} /\ (out = 1 \/ out <= est)
  BY <1>3, <1>4, <1>5, <1>6 DEF AtLeast
<1>8. ASSUME out <= est
      PROVE  out <= base /\ (base - out) * sum >= base * pooled
  <2>1. out * sum <= est * sum
    BY <1>1, <1>3, <1>7, <1>8, Monotone
  <2>2. out * sum <= in * base
    BY <2>1, <1>1, <1>2, <1>3, <1>7
  <2>3. in * base + pooled * base = sum * base /\ pooled * base \in Nat
    BY <1>1 DEF sum
  <2>4. out * sum <= sum * base
    BY <2>2, <2>3, <1>1, <1>7
  <2>5. out <= base
    <3> SUFFICES ASSUME out >= base + 1 PROVE FALSE
      BY <1>1, <1>7
    <3>1. (base + 1) * sum <= out * sum
      BY <1>1, <1>7, Monotone
    <3> QED
      BY <3>1, <2>4, <1>1, <1>7
  <2>6. (base - out) * sum = sum * base - out * sum
    BY <1>1, <1>7
  <2> QED
    BY <2>2, <2>3, <2>5, <2>6, <1>1, <1>7
<1> QED
  BY <1>7, <1>8 DEF sum, out

---------------------------------------------------------------------------
(* Types.  How far a build has come bounds its requests; the longest one    *)
(* goes to the vaults of the pool and back to the curve.                    *)

MostReads == [p \in PCs |-> CASE p \in {"idle", "hash"} -> MaxReads
                              [] p \in {"route", "mint"} -> 0
                              [] p = "curve" -> 1
                              [] p = "ammFee" -> 2
                              [] p = "pool" -> 3
                              [] p = "vaults" -> 4
                              [] p \in {"ammHash", "mint2"} -> 6
                              [] p = "curve2" -> 7
                              [] p = "fee" -> 8]

TypeInv ==
    /\ TypeOK
    /\ reads <= MostReads[pc]
    /\ pc # "idle" => sig \in Signals
    /\ pc = "ammHash" => quote \in Reserves /\ cfg.buy > 0

TxType == [route : Routes, accounts : Seq(Theirs \cup Own), limit : Amount, cap : Amount]

LEMMA LimitTypes ==
    ASSUME NEW a \in Amount, NEW b \in Amount, NEW c \in Amount, NEW slip \in Nat
    PROVE  /\ ScaleMinOut(a, b, c, slip) \in Amount
           /\ c > 0 => BaseOut(a, b, c, slip) \in Amount
           /\ MaxQuoteIn(c, slip) \in Amount
<1>1. /\ a \in Nat /\ b \in Nat /\ c \in Nat /\ 1 \in Amount
      /\ (c > 0 => b + c \in Nat \ {0}) /\ Bps + slip \in Nat
  BY WordAssumption DEF Amount
<1>2. ASSUME NEW n \in Nat PROVE AtLeast(Narrow(n), 1) \in Amount /\ AtLeast(1, Narrow(n)) \in Amount
  BY <1>1, NarrowType DEF AtLeast
<1>3. ScaleMinOut(a, b, c, slip) \in Amount
  <2>1. CASE a = 0
    BY <2>1, <1>1 DEF ScaleMinOut
  <2>2. CASE a # 0
    <3>1. Times(b, c) \div a \in Nat
      BY <2>2, <1>1, TimesType, Quotient
    <3>2. LessSlippage(Times(b, c) \div a, slip) \in Nat
      BY <3>1, SlippageShrinks
    <3> QED
      BY <3>2, <1>1, <1>2 DEF ScaleMinOut
  <2> QED
    BY <2>1, <2>2
<1>4. ASSUME c > 0 PROVE BaseOut(a, b, c, slip) \in Amount
  <2>1. Times(c, a) \div (b + c) \in Nat
    BY <1>1, <1>4, TimesType, Quotient
  <2>2. LessSlippage(Times(c, a) \div (b + c), slip) \in Nat
    BY <2>1, SlippageShrinks
  <2> QED
    BY <2>2, <1>2 DEF BaseOut
<1>5. MaxQuoteIn(c, slip) \in Amount
  <2>1. Times(c, Bps + slip) \div Bps \in Nat
    BY <1>1, TimesType, Quotient, WordAssumption
  <2> QED
    BY <2>1, NarrowType DEF MaxQuoteIn
<1> QED
  BY <1>3, <1>4, <1>5

(* A mirrored instruction names the leader's accounts and ours.             *)
LEMMA MirrorType ==
    ASSUME NEW s \in Seq(Theirs)
    PROVE  [k \in DOMAIN s |-> Ours(s[k])] \in Seq(Theirs \cup Own)
<1>1. \A a \in Theirs : Ours(a) \in Theirs \cup Own
  BY DEF Ours, Own
<1>2. Len(s) \in Nat /\ DOMAIN s = 1 .. Len(s) /\ \A k \in 1 .. Len(s) : s[k] \in Theirs
  BY ElementOfSeq, LenProperties
<1>3. [k \in 1 .. Len(s) |-> Ours(s[k])] \in [1 .. Len(s) -> Theirs \cup Own]
  BY <1>1, <1>2
<1> QED
  BY <1>2, <1>3, SeqDef

LEMMA NextType == TypeInv /\ [Next]_vars => TypeInv'
<1> SUFFICES ASSUME TypeInv, [Next]_vars PROVE TypeInv'
  OBVIOUS
<1> USE DEF TypeInv, TypeOK, MostReads, MaxReads, PCs, Lives, world, past
<1>1. /\ cfg.buy \in BuyLamports /\ cfg.buy \in Amount /\ cfg.slip \in Nat
      /\ 0 \in Amount /\ 1 \in Amount
  BY AmountAssumption, WordAssumption DEF Amount
<1>2. ASSUME NEW t \in TxType, Built(t) PROVE TypeInv'
  BY <1>2 DEF Built, TxType
<1>0. <<>> \in Seq(Theirs \cup Own)
  OBVIOUS
<1>3. ASSUME NEW s \in Signals, Begin(s) PROVE TypeInv'
  <2>1. NoTx \in TxType
    BY <1>1 DEF NoTx, Tx, TxType, Routes
  <2> QED
    BY <1>3, <2>1 DEF Begin, TxType
<1>4. pc # "idle" => sig \in SignalType
  BY SignalAssumption
<1>5. ASSUME Mirror PROVE TypeInv'
  <2>1. sig.accounts \in Seq(Theirs)
    BY <1>4, <1>5 DEF Mirror, SignalType
  <2>2. [k \in DOMAIN sig.accounts |-> Ours(sig.accounts[k])] \in Seq(Theirs \cup Own)
    BY <2>1, MirrorType
  <2> QED
    BY <1>1, <1>2, <1>5, <2>2 DEF Mirror, Tx, TxType, Routes
<1>6. ASSUME pc = "route", Len(sig.accounts) >= 16 PROVE Swapped \in Seq(Theirs \cup Own)
  <2>1. sig.accounts \in Seq(Theirs)
    BY <1>4, <1>6 DEF SignalType
  <2>2. \A k \in 1 .. 16 : sig.accounts[k] \in Theirs
    BY <2>1, <1>6
  <2>3. \A k \in 1 .. 16 : Swapped[k] \in Theirs \cup Own
    BY <2>2 DEF Swapped, Own
  <2>4. Swapped = [k \in 1 .. 16 |-> Swapped[k]]
    BY DEF Swapped
  <2> QED
    BY <2>3, <2>4
<1>7. ASSUME Direct PROVE TypeInv'
  <2>1. sig.terms[1] \in Amount /\ sig.terms[2] \in Amount
    <3>1. sig \in Signals /\ sig.terms # <<>>
      BY <1>7 DEF Direct, IsDirect
    <3>2. sig.terms \in Seq(Amount) /\ Len(sig.terms) = 2
      BY <3>1, SignalAssumption
    <3> QED
      BY <3>2
  <2>2. ScaleMinOut(sig.terms[1], sig.terms[2], cfg.buy, cfg.slip) \in Amount
    BY <1>1, <2>1, LimitTypes
  <2> QED
    BY <1>1, <1>2, <1>6, <1>7, <2>2 DEF Direct, Tx, TxType, Routes
<1>8. ASSUME Cpi PROVE TypeInv'
  BY <1>1, <1>2, <1>6, <1>8 DEF Cpi, Tx, TxType, Routes
<1>9. ASSUME CurveBuy PROVE TypeInv'
  BY <1>1, <1>2, <1>9, <1>0 DEF CurveBuy, Tx, TxType, Routes
<1>10. ASSUME AmmBuy PROVE TypeInv'
  <2>1. quote[1] \in Amount /\ quote[2] \in Amount
    BY <1>10, AmountAssumption DEF AmmBuy
  <2>2. cfg.buy > 0
    BY <1>10 DEF AmmBuy
  <2>3. /\ BaseOut(quote[1], quote[2], cfg.buy, cfg.slip) \in Amount
        /\ MaxQuoteIn(cfg.buy, cfg.slip) \in Amount
    BY <1>1, <2>1, <2>2, LimitTypes
  <2> QED
    BY <1>1, <1>2, <1>10, <1>0, <2>3 DEF AmmBuy, Tx, TxType, Routes
<1>11. ASSUME TooShort \/ AskChain \/ NoHash PROVE TypeInv'
  BY <1>11 DEF TooShort, AskChain, NoHash, Err
<1>12. ASSUME ReadFails \/ BuyTooSmall PROVE TypeInv'
  BY <1>12 DEF ReadFails, BuyTooSmall, Err, Ask, AskBoth, Requests, AtMost
<1>13. ASSUME ReadMint \/ ReadCurve \/ ReadAmmFee PROVE TypeInv'
  BY <1>13 DEF ReadMint, ReadCurve, ReadAmmFee, Read, Goto, Ask, Requests, AtMost
<1>14. ASSUME ReadMint2 \/ ReadCurve2 \/ ReadFee PROVE TypeInv'
  BY <1>14 DEF ReadMint2, ReadCurve2, ReadFee, Read, Goto, Ask, Requests, AtMost
<1>15. ASSUME ReadPool \/ NoPool \/ NoVaults PROVE TypeInv'
  BY <1>15 DEF ReadPool, NoPool, NoVaults, Goto, Ask, AskBoth, Requests, AtMost
<1>16. ASSUME NEW r \in Reserves, ReadVaults(r) PROVE TypeInv'
  BY <1>16 DEF ReadVaults, Goto, AskBoth, Requests, AtMost
<1>17. ASSUME Migrate \/ UNCHANGED vars PROVE TypeInv'
  BY <1>17 DEF Migrate, vars
<1> QED
  BY <1>3, <1>5, <1>7, <1>8, <1>9, <1>10, <1>11, <1>12, <1>13, <1>14, <1>15, <1>16, <1>17
     DEF Next, BuilderStep

(* For every signal, configuration and word size, limits and caps fit the   *)
(* word, and a build makes at most MaxReads (nine) requests for accounts:   *)
(* so many when it finds the pool, fails at one of its two vaults and goes  *)
(* back to the curve.                                                       *)
THEOREM TypeCorrect == SafeSpec => []TypeOK
<1>1. Init => TypeInv
  BY WordAssumption
     DEF Init, TypeInv, TypeOK, MostReads, MaxReads, PCs, Lives, NoTx, Tx, Routes, Amount
<1>2. TypeInv => TypeOK
  BY DEF TypeInv
<1> QED
  BY <1>1, <1>2, NextType, PTL DEF SafeSpec

---------------------------------------------------------------------------
(* Routes.                                                                  *)

AfterPool == {"vaults", "ammHash"}
OnCurve == {"mint2", "curve2", "fee", "hash"}

CurveReason ==
    \/ poolRead = "none" /\ before \in {"hidden", "curve"}
    \/ poolRead = "missing" /\ before # "pool"
    \/ poolRead = "failed"

(* A token never goes back to where it was before the build began; the      *)
(* builder is past the pool read only if there is a pool, and on its way to *)
(* a curve buy only for a reason.                                           *)
RouteInv ==
    /\ chain \in Lives /\ before \in Lives /\ pc \in PCs
    /\ before = "pool" => chain = "pool"
    /\ chain = "curve" => before \in {"hidden", "curve"}
    /\ chain = "hidden" => before = "hidden"
    /\ pc \in {"route", "mint", "curve"} => poolRead = "none"
    /\ pc \in AfterPool => chain = "pool"
    /\ pc \in OnCurve => CurveReason
    /\ pc # "idle" => tx.route = "none"
    /\ AmmOnlyAfterMigration /\ CurveBuyJustified

LEMMA NextRoute == RouteInv /\ [Next]_vars => RouteInv'
<1> SUFFICES ASSUME RouteInv, [Next]_vars PROVE RouteInv'
  OBVIOUS
<1> USE DEF RouteInv, CurveReason, AmmOnlyAfterMigration, CurveBuyJustified, AfterPool, OnCurve,
            Lives, PCs, world, past, Tx, NoTx
<1>1. ASSUME NEW s \in Signals, Begin(s) PROVE RouteInv'
  BY <1>1 DEF Begin
<1>2. ASSUME Mirror \/ Direct \/ Cpi PROVE RouteInv'
  BY <1>2 DEF Mirror, Direct, Cpi, Built
<1>3. ASSUME TooShort \/ AskChain PROVE RouteInv'
  BY <1>3 DEF TooShort, AskChain, Err
<1>4. ASSUME ReadFails \/ BuyTooSmall \/ NoHash PROVE RouteInv'
  BY <1>4 DEF ReadFails, BuyTooSmall, NoHash, Err
<1>5. ASSUME ReadMint \/ ReadCurve \/ ReadAmmFee PROVE RouteInv'
  BY <1>5 DEF ReadMint, ReadCurve, ReadAmmFee, Read, Goto
<1>6. ASSUME ReadPool \/ NoPool \/ NoVaults PROVE RouteInv'
  BY <1>6 DEF ReadPool, NoPool, NoVaults, Goto
<1>7. ASSUME NEW r \in Reserves, ReadVaults(r) PROVE RouteInv'
  BY <1>7 DEF ReadVaults, Goto
<1>8. ASSUME ReadMint2 \/ ReadCurve2 \/ ReadFee PROVE RouteInv'
  BY <1>8 DEF ReadMint2, ReadCurve2, ReadFee, Read, Goto
<1>9. ASSUME CurveBuy \/ AmmBuy PROVE RouteInv'
  BY <1>9 DEF CurveBuy, AmmBuy, Built
<1>10. ASSUME Migrate PROVE RouteInv'
  BY <1>10 DEF Migrate
<1>11. ASSUME UNCHANGED vars PROVE RouteInv'
  BY <1>11 DEF vars
<1> QED
  BY <1>1, <1>2, <1>3, <1>4, <1>5, <1>6, <1>7, <1>8, <1>9, <1>10, <1>11
     DEF Next, BuilderStep

LEMMA InitRoute == Init => RouteInv
BY DEF Init, RouteInv, CurveReason, Lives, PCs, AfterPool, OnCurve, NoTx, Tx,
       AmmOnlyAfterMigration, CurveBuyJustified

(* However the migration overtakes a build, and whichever requests fail: a  *)
(* buy from the pool is built only for a token that has a pool.             *)
THEOREM AmmBuysFindAPool == SafeSpec => []AmmOnlyAfterMigration
<1>1. RouteInv => AmmOnlyAfterMigration
  BY DEF RouteInv
<1> QED
  BY <1>1, InitRoute, NextRoute, PTL DEF SafeSpec

(* However the migration overtakes a build, and whichever requests fail: a  *)
(* curve buy worked out from the chain is there because the curve was still *)
(* open during the build, or because there was no pool yet, or because a    *)
(* read of the pool failed; only the first of them can succeed.             *)
THEOREM CurveBuysHaveAReason == SafeSpec => []CurveBuyJustified
<1>1. RouteInv => CurveBuyJustified
  BY DEF RouteInv
<1> QED
  BY <1>1, InitRoute, NextRoute, PTL DEF SafeSpec

---------------------------------------------------------------------------
(* Amounts of an AMM buy.                                                   *)

QuoteInv ==
    /\ cfg \in [buy : BuyLamports, slip : SlippageBps]
    /\ pc # "idle" => tx.route # "amm"
    /\ pc = "ammHash" => quote \in Reserves /\ cfg.buy > 0
    /\ AmmBuyFillable

LEMMA AmmBuyQuote == QuoteInv /\ AmmBuy => QuoteInv'
<1> SUFFICES ASSUME QuoteInv, AmmBuy PROVE QuoteInv'
  OBVIOUS
<1>1. /\ pc' = "idle" /\ UNCHANGED <<cfg, quote>>
      /\ tx'.limit = BaseOut(quote[1], quote[2], cfg.buy, cfg.slip)
  BY DEF AmmBuy, Built, Tx, world
<1>2. /\ quote[1] \in Amount /\ quote[2] \in Amount
      /\ cfg.buy \in Amount /\ cfg.buy > 0 /\ cfg.slip \in Nat
  <2>1. quote \in Amount \X Amount /\ cfg.buy > 0
    BY AmountAssumption DEF QuoteInv, AmmBuy
  <2>2. cfg.buy \in Amount /\ cfg.slip \in Amount
    BY AmountAssumption DEF QuoteInv
  <2> QED
    BY <2>1, <2>2, WordAssumption DEF Amount
<1>3. AmmBuyFillable'
  BY <1>1, <1>2, BaseOutFillable DEF AmmBuyFillable
<1> QED
  BY <1>1, <1>3 DEF QuoteInv

LEMMA NextQuote == QuoteInv /\ [Next]_vars => QuoteInv'
<1> SUFFICES ASSUME QuoteInv, [Next]_vars PROVE QuoteInv'
  OBVIOUS
<1> USE DEF QuoteInv, AmmBuyFillable, world, Tx, NoTx
<1>1. ASSUME NEW s \in Signals, Begin(s) PROVE QuoteInv'
  BY <1>1 DEF Begin
<1>2. ASSUME Mirror \/ Direct \/ Cpi \/ CurveBuy PROVE QuoteInv'
  BY <1>2 DEF Mirror, Direct, Cpi, CurveBuy, Built
<1>3. ASSUME TooShort \/ AskChain PROVE QuoteInv'
  BY <1>3 DEF TooShort, AskChain, Err
<1>4. ASSUME ReadFails \/ BuyTooSmall \/ NoHash PROVE QuoteInv'
  BY <1>4 DEF ReadFails, BuyTooSmall, NoHash, Err
<1>5. ASSUME ReadMint \/ ReadCurve \/ ReadAmmFee \/ ReadMint2 \/ ReadCurve2 \/ ReadFee
      PROVE  QuoteInv'
  BY <1>5 DEF ReadMint, ReadCurve, ReadAmmFee, ReadMint2, ReadCurve2, ReadFee, Read, Goto
<1>6. ASSUME ReadPool \/ NoPool \/ NoVaults PROVE QuoteInv'
  BY <1>6 DEF ReadPool, NoPool, NoVaults, Goto
<1>7. ASSUME NEW r \in Reserves, ReadVaults(r) PROVE QuoteInv'
  BY <1>7 DEF ReadVaults, Goto
<1>8. ASSUME Migrate \/ UNCHANGED vars PROVE QuoteInv'
  BY <1>8 DEF Migrate, vars
<1> QED
  BY <1>1, <1>2, <1>3, <1>4, <1>5, <1>6, <1>7, <1>8, AmmBuyQuote DEF Next, BuilderStep

(* For all reserves, amounts and slippages: the AMM buy never asks for more *)
(* than the reserves it was worked out from can give.                       *)
THEOREM AmmBuysAreFillable == SafeSpec => []AmmBuyFillable
<1>1. Init => QuoteInv
  BY DEF Init, QuoteInv, NoTx, Tx, AmmBuyFillable
<1>2. QuoteInv => AmmBuyFillable
  BY DEF QuoteInv
<1> QED
  BY <1>1, <1>2, NextQuote, PTL DEF SafeSpec

---------------------------------------------------------------------------
(* The limit of a copied buy.                                               *)

LEMMA ScaledLimit ==
    ASSUME NEW in \in Amount, in > 0, NEW minOut \in Amount,
           NEW our \in Amount, NEW slip \in Nat
    PROVE  LET limit == ScaleMinOut(in, minOut, our, slip)
               scaled == minOut * our
           IN  /\ limit = 1 \/ limit * in <= scaled
               /\ scaled \div in < Word
                    => (limit + 2) * in * Bps > scaled * AtLeast(Bps - slip, 0)
<1> DEFINE scaled == minOut * our
           left == AtLeast(Bps - slip, 0)
           v == scaled \div in
           w == Times(v, left) \div Bps
           limit == ScaleMinOut(in, minOut, our, slip)
<1>1. /\ in \in Nat \ {0} /\ minOut \in Nat /\ our \in Nat
      /\ minOut <= Word - 1 /\ our <= Word - 1 /\ Word \in Nat \ {0}
      /\ Bps \in Nat \ {0} /\ Bps <= Word
  BY WordAssumption DEF Amount
<1>2. scaled \in Nat /\ scaled <= Word * Word - 1
  <2>1. minOut * our <= (Word - 1) * our
    BY <1>1, Monotone
  <2>2. our * (Word - 1) <= (Word - 1) * (Word - 1)
    BY <1>1, Monotone
  <2> QED
    BY <1>1, <2>1, <2>2
<1>3. left \in Nat /\ left <= Bps
  BY <1>1 DEF AtLeast
<1>4. v \in Nat /\ in * v <= scaled /\ scaled < in * v + in
  BY <1>1, <1>2, Quotient
<1>5. w \in Nat /\ w <= v
  BY <1>4, SlippageShrinks DEF LessSlippage
<1>6. limit = IF minOut = 0 THEN 1 ELSE AtLeast(Narrow(w), 1)
  <2>1. Times(minOut, our) = scaled
    BY <1>2, <1>1 DEF Times, AtMost
  <2> QED
    BY <2>1, <1>1 DEF ScaleMinOut, LessSlippage
<1>7. Narrow(w) \in Nat /\ Narrow(w) <= w
  BY <1>5, NarrowType, <1>1 DEF Amount
<1> HIDE DEF scaled, left, v, w, limit
<1>8. limit \in Nat \ {0} /\ (limit = 1 \/ limit <= v)
  BY <1>4, <1>5, <1>6, <1>7 DEF AtLeast
<1>9. limit = 1 \/ limit * in <= scaled
  <2>1. limit <= v => limit * in <= v * in
    BY <1>1, <1>4, <1>8, Monotone
  <2> QED
    BY <2>1, <1>1, <1>2, <1>4, <1>8
<1>10. ASSUME v < Word PROVE (limit + 2) * in * Bps > scaled * left
  <2>1. v * left <= Word * Word - 1 /\ v * left \in Nat
    <3>1. v * left <= (Word - 1) * left
      BY <1>1, <1>3, <1>4, <1>10, Monotone
    <3>2. left * (Word - 1) <= Word * (Word - 1)
      BY <1>1, <1>3, Monotone
    <3> QED
      BY <3>1, <3>2, <1>1, <1>3, <1>4
  <2>2. w = (v * left) \div Bps
    BY <2>1, <1>1, <1>3, <1>4 DEF w, Times, AtMost
  <2>3. v * left < Bps * w + Bps
    BY <2>1, <2>2, <1>1, Quotient
  <2>4. Narrow(w) = w
    BY <1>1, <1>4, <1>5, <1>10 DEF Narrow
  <2>5. w <= limit \/ scaled = 0
    BY <2>4, <1>1, <1>5, <1>6 DEF AtLeast, scaled
  <2>6. CASE scaled = 0
    <3>1. scaled * left = 0
      BY <2>6, <1>3
    <3>2. (limit + 2) * in \in Nat \ {0}
      BY <1>1, <1>8
    <3>3. ((limit + 2) * in) * Bps \in Nat \ {0}
      BY <3>2, <1>1
    <3> QED
      BY <3>1, <3>3
  <2>7. CASE w <= limit
    <3>1. scaled * left <= (in * v + in) * left
      BY <1>1, <1>2, <1>3, <1>4, Monotone
    <3>2. (in * v + in) * left = (v * left) * in + left * in
      BY <1>1, <1>3, <1>4
    <3>3. left * in <= Bps * in
      BY <1>1, <1>3, Monotone
    <3>4. (v * left + 1) * in <= (Bps * w + Bps) * in
      BY <2>1, <2>3, <1>1, <1>5, Monotone
    <3>5. (v * left + 1) * in = (v * left) * in + in
      BY <2>1, <1>1
    <3>6. (w + 2) * (in * Bps) <= (limit + 2) * (in * Bps)
      BY <2>7, <1>1, <1>5, <1>8, Monotone
    <3>7. (w + 2) * (in * Bps) = (Bps * w + Bps) * in + Bps * in
      BY <1>1, <1>5
    <3>8. (limit + 2) * (in * Bps) = (limit + 2) * in * Bps
      BY <1>1, <1>8
    <3> DEFINE a == scaled * left
               b == (v * left) * in
               c == left * in
               d == Bps * in
               e == (Bps * w + Bps) * in
               f == (w + 2) * (in * Bps)
               g == (limit + 2) * in * Bps
    <3>9. a \in Int /\ b \in Int /\ c \in Int /\ d \in Int /\ e \in Int /\ f \in Int /\ g \in Int
      BY <2>1, <1>1, <1>2, <1>3, <1>5, <1>8
    <3>10. a <= b + c /\ c <= d /\ b + in <= e /\ f = e + d /\ f <= g
      BY <3>1, <3>2, <3>3, <3>4, <3>5, <3>6, <3>7, <3>8
    <3> HIDE DEF a, b, c, d, e, f, g
    <3>11. g > a
      BY <3>9, <3>10, <1>1
    <3> QED
      BY <3>11 DEF a, g
  <2> QED
    BY <2>5, <2>6, <2>7
<1> QED
  BY <1>9, <1>10 DEF scaled, left, v, limit

LimitInv ==
    /\ cfg \in [buy : BuyLamports, slip : SlippageBps]
    /\ pc # "idle" => sig \in Signals /\ tx.route # "direct"
    /\ LimitScaled

LEMMA DirectLimit == LimitInv /\ Direct => LimitInv'
<1> SUFFICES ASSUME LimitInv, Direct PROVE LimitInv'
  OBVIOUS
<1>1. /\ pc' = "idle" /\ UNCHANGED <<cfg, sig>>
      /\ tx'.limit = ScaleMinOut(sig.terms[1], sig.terms[2], cfg.buy, cfg.slip)
  BY DEF Direct, Built, Tx, world
<1>2. sig.terms[1] \in Amount /\ sig.terms[2] \in Amount
  <2>1. sig \in Signals /\ sig.terms # <<>>
    BY DEF LimitInv, Direct, IsDirect
  <2>2. sig.terms \in Seq(Amount) /\ Len(sig.terms) = 2
    BY <2>1, SignalAssumption
  <2> QED
    BY <2>2
<1>3. cfg.buy \in Amount /\ cfg.slip \in Nat
  <2>1. cfg.buy \in Amount /\ cfg.slip \in Amount
    BY AmountAssumption DEF LimitInv
  <2> QED
    BY <2>1, WordAssumption DEF Amount
<1>4. LimitScaled'
  <2> SUFFICES ASSUME sig.terms[1] > 0
               PROVE  Scaled(tx'.limit, sig.terms[1], sig.terms[2])
    BY <1>1 DEF LimitScaled, Scaled
  <2> QED
    BY <1>1, <1>2, <1>3, ScaledLimit DEF Scaled
<1> QED
  BY <1>1, <1>4 DEF LimitInv

LEMMA NextLimit == LimitInv /\ [Next]_vars => LimitInv'
<1> SUFFICES ASSUME LimitInv, [Next]_vars PROVE LimitInv'
  OBVIOUS
<1> USE DEF LimitInv, world, Tx, NoTx
<1>1. ASSUME tx'.route # "direct", cfg' = cfg, pc' # "idle" => sig' \in Signals
      PROVE  LimitInv'
  BY <1>1 DEF LimitScaled
<1>2. ASSUME UNCHANGED <<cfg, sig, tx>>, pc' # "idle" => pc # "idle"
      PROVE  LimitInv'
  BY <1>2 DEF LimitScaled, Scaled
<1>3. ASSUME NEW s \in Signals, Begin(s) PROVE LimitInv'
  BY <1>3, <1>1 DEF Begin
<1>4. ASSUME Mirror \/ Cpi \/ CurveBuy \/ AmmBuy PROVE LimitInv'
  BY <1>4, <1>1 DEF Mirror, Cpi, CurveBuy, AmmBuy, Built
<1>5. ASSUME TooShort \/ AskChain PROVE LimitInv'
  BY <1>5, <1>2 DEF TooShort, AskChain, Err
<1>6. ASSUME ReadFails \/ BuyTooSmall \/ NoHash PROVE LimitInv'
  BY <1>6, <1>2 DEF ReadFails, BuyTooSmall, NoHash, Err
<1>7. ASSUME ReadMint \/ ReadCurve \/ ReadAmmFee \/ ReadMint2 \/ ReadCurve2 \/ ReadFee
      PROVE  LimitInv'
  BY <1>7, <1>2 DEF ReadMint, ReadCurve, ReadAmmFee, ReadMint2, ReadCurve2, ReadFee,
                    Read, Goto
<1>8. ASSUME ReadPool \/ NoPool \/ NoVaults PROVE LimitInv'
  BY <1>8, <1>2 DEF ReadPool, NoPool, NoVaults, Goto
<1>9. ASSUME NEW r \in Reserves, ReadVaults(r) PROVE LimitInv'
  BY <1>9, <1>2 DEF ReadVaults, Goto
<1>10. ASSUME Migrate \/ UNCHANGED vars PROVE LimitInv'
  BY <1>10, <1>2 DEF Migrate, vars
<1> QED
  BY <1>3, <1>4, <1>5, <1>6, <1>7, <1>8, <1>9, <1>10, DirectLimit DEF Next, BuilderStep

(* For all terms, amounts and slippages: scale_min_out yields its second    *)
(* term scaled by the first, never above it nor, short of an overflow,      *)
(* further below than the slippage explains.  This is about the arithmetic: *)
(* that the terms of a global:buy are the wrong way round for it is shown   *)
(* by the violation of LeaderPrice.                                         *)
THEOREM CopiedLimitIsScaled == SafeSpec => []LimitScaled
<1>1. Init => LimitInv
  BY DEF Init, LimitInv, NoTx, Tx, LimitScaled
<1>2. LimitInv => LimitScaled
  BY DEF LimitInv
<1> QED
  BY <1>1, <1>2, NextLimit, PTL DEF SafeSpec

---------------------------------------------------------------------------
(* The accounts of a copied curve buy.                                      *)

(* Members are left out and none is added, so as many can only be all.      *)
LEMMA AllCarried ==
    ASSUME NEW E, NEW s \in Seq(E), NEW T, Len(Only(s, T)) >= Len(s)
    PROVE  Only(s, T) = s
<1>1. /\ Only(s, T) \in Seq(E)
      /\ Len(Only(s, T)) <= Len(s)
      /\ Len(Only(s, T)) = Len(s) => Only(s, T) = s
  BY OnlyFacts
<1>2. Len(Only(s, T)) \in Nat /\ Len(s) \in Nat BY <1>1, LenProperties
<1> QED BY <1>1, <1>2

(* Sixteen accounts or more, either way, are the leader's in their slots.   *)
LEMMA FirstSixteen ==
    ASSUME sig \in SignalType, Len(sig.accounts) >= 16, Beginning \/ Resolved
    PROVE  \A k \in 1 .. 16 : sig.accounts[k] = sig.full[k]
<1> DEFINE a == sig.accounts
           f == sig.full
           known == {a[k] : k \in DOMAIN a}
<1>1. a \in Seq(Theirs) /\ f \in Seq(Theirs) /\ Len(a) \in Nat /\ Len(f) \in Nat /\ Len(a) >= 16
  BY LenProperties DEF SignalType
<1>2. CASE Beginning
  <2>1. a = SubSeq(f, 1, Len(a)) BY <1>2 DEF Beginning
  <2> HIDE DEF a, f
  <2>2. \A k \in 1 .. Len(a) - 1 + 1 : SubSeq(f, 1, Len(a))[k] = f[1 + k - 1]
    <3> DEFINE S == {f[k] : k \in 1 .. Len(a)}
    <3>1. 1 \in Int /\ Len(a) \in Int /\ \A k \in 1 .. Len(a) : f[k] \in S BY <1>1
    <3> HIDE DEF S
    <3> QED BY <3>1, SubSeqProperties
  <2>3. ASSUME NEW k \in 1 .. 16 PROVE a[k] = f[k]
    <3>1. k \in 1 .. Len(a) - 1 + 1 /\ 1 + k - 1 = k BY <1>1
    <3>2. SubSeq(f, 1, Len(a))[k] = f[1 + k - 1] BY <2>2, <3>1
    <3> QED BY <2>1, <3>1, <3>2
  <2> QED BY <2>3 DEF a, f
<1>3. CASE Resolved
  <2>1. a = Only(f, known) /\ Len(f) <= 16 BY <1>3 DEF Resolved
  <2> HIDE DEF a, f, known
  <2>2. Len(Only(f, known)) >= Len(f) BY <1>1, <2>1
  <2>3. Only(f, known) = f BY <1>1, <2>2, AllCarried
  <2> QED BY <2>1, <2>3 DEF a, f
<1> QED BY <1>2, <1>3

(* The payer's accounts are in the payer's slots.                           *)
LEMMA SwappedSlots ==
    ASSUME \A k \in 1 .. 16 : sig.accounts[k] = sig.full[k]
    PROVE  Swapped = [k \in 1 .. 16 |-> IF OwnLayout[k] \in Own THEN OwnLayout[k] ELSE sig.full[k]]
<1>1. /\ OwnLayout[6] = "our_assoc_user" /\ OwnLayout[7] = "our_user"
      /\ OwnLayout[14] = "our_user_volume_accumulator"
      /\ \A k \in (1 .. 16) \ {6, 7, 14} : OwnLayout[k] \notin Own
  BY DEF OwnLayout, Layout, Own
<1>2. ASSUME NEW k \in 1 .. 16
      PROVE  Swapped[k] = IF OwnLayout[k] \in Own THEN OwnLayout[k] ELSE sig.full[k]
  BY <1>1 DEF Swapped, Own
<1>3. Swapped = [k \in 1 .. 16 |-> Swapped[k]]
  BY DEF Swapped
<1> QED
  BY <1>2, <1>3

SlotInv == (pc # "idle" => sig \in Signals) /\ SlotsFaithful

LEMMA NextSlots == SlotInv /\ [Next]_vars => SlotInv'
<1> SUFFICES ASSUME SlotInv, [Next]_vars PROVE SlotInv'
  OBVIOUS
<1> USE DEF SlotInv, world, past, Tx, NoTx
<1>10. ASSUME tx'.route \notin {"direct", "cpi"}, pc' # "idle" => sig' \in Signals
       PROVE  SlotInv'
  BY <1>10 DEF SlotsFaithful
<1>11. ASSUME UNCHANGED <<sig, tx>>, pc' # "idle" => pc # "idle"
       PROVE  SlotInv'
  BY <1>11 DEF SlotsFaithful, Beginning, Resolved
<1>1. ASSUME NEW s \in Signals, Begin(s) PROVE SlotInv'
  BY <1>1, <1>10 DEF Begin
<1>2. ASSUME Mirror \/ CurveBuy \/ AmmBuy PROVE SlotInv'
  BY <1>2, <1>10 DEF Mirror, CurveBuy, AmmBuy, Built
<1>3. ASSUME Direct \/ Cpi PROVE SlotInv'
  <2>1. sig \in SignalType /\ Len(sig.accounts) >= 16
    BY <1>3, SignalAssumption DEF Direct, Cpi
  <2>2. pc' = "idle" /\ tx'.accounts = Swapped /\ UNCHANGED sig
    BY <1>3 DEF Direct, Cpi, Built
  <2>3. (Beginning \/ Resolved)' => Beginning \/ Resolved
    BY <2>2 DEF Beginning, Resolved
  <2>4. ASSUME Beginning \/ Resolved
        PROVE  tx'.accounts
                 = [k \in 1 .. 16 |-> IF OwnLayout[k] \in Own THEN OwnLayout[k] ELSE sig.full[k]]
    BY <2>1, <2>2, <2>4, FirstSixteen, SwappedSlots
  <2> QED
    BY <2>2, <2>3, <2>4 DEF SlotsFaithful
<1>4. ASSUME TooShort \/ AskChain PROVE SlotInv'
  BY <1>4, <1>11 DEF TooShort, AskChain, Err
<1>5. ASSUME ReadFails \/ BuyTooSmall \/ NoHash PROVE SlotInv'
  BY <1>5, <1>11 DEF ReadFails, BuyTooSmall, NoHash, Err
<1>6. ASSUME ReadMint \/ ReadCurve \/ ReadAmmFee \/ ReadMint2 \/ ReadCurve2 \/ ReadFee
      PROVE  SlotInv'
  BY <1>6, <1>11 DEF ReadMint, ReadCurve, ReadAmmFee, ReadMint2, ReadCurve2, ReadFee, Read, Goto
<1>7. ASSUME ReadPool \/ NoPool \/ NoVaults PROVE SlotInv'
  BY <1>7, <1>11 DEF ReadPool, NoPool, NoVaults, Goto
<1>8. ASSUME NEW r \in Reserves, ReadVaults(r) PROVE SlotInv'
  BY <1>8, <1>11 DEF ReadVaults, Goto
<1>9. ASSUME Migrate \/ UNCHANGED vars PROVE SlotInv'
  BY <1>9, <1>11 DEF Migrate, vars
<1> QED
  BY <1>1, <1>2, <1>3, <1>4, <1>5, <1>6, <1>7, <1>8, <1>9 DEF Next, BuilderStep

(* For any signals at all: a copied curve buy has the leader's account in   *)
(* every slot but the payer's three, unless the carried accounts are        *)
(* neither the beginning of what the leader wrote nor what was resolved of  *)
(* at most sixteen.                                                         *)
THEOREM CopiedBuysKeepTheSlots == SafeSpec => []SlotsFaithful
<1>1. Init => SlotInv
  BY DEF Init, SlotInv, SlotsFaithful, NoTx, Tx
<1>2. SlotInv => SlotsFaithful
  BY DEF SlotInv
<1> QED
  BY <1>1, <1>2, NextSlots, PTL DEF SafeSpec
=============================================================================
