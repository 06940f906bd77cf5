-------------------------- MODULE JitoSubmitProofs --------------------------
(***************************************************************************)
(* Proofs about JitoSubmit, for any number of endpoints, any settings and  *)
(* any clock resolution.                                                   *)
(***************************************************************************)
EXTENDS JitoSubmit, FoldLemmas, SequenceTheorems, TLAPS

(* A truncated wait of zero means that less than one unit was missing.      *)
LEMMA ZeroQuotient ==
    ASSUME NEW a \in Nat, NEW b \in Nat \ {0}, a \div b = 0
    PROVE  a < b
OBVIOUS

LEMMA SettingsType ==
    ASSUME cfg \in Configs
    PROVE  /\ cfg.minIv \in Nat /\ TicksPerMs \in Nat \ {0} /\ MaxAge \in Nat \ {0}
           /\ cfg.minIv * TicksPerMs \in Nat /\ cfg.minIv * TicksPerMs < MaxAge
           /\ MinTicks \in Nat
<1>1. cfg.minIv \in Nat /\ cfg.minIv * TicksPerMs < MaxAge
  BY ConfigsAssumption DEF ConfigType
<1>2. AtLeast(cfg.minIv, 1) \in Nat
  BY <1>1 DEF AtLeast
<1>3. \A a \in Nat : a * TicksPerMs \in Nat
  BY SizesAssumption
<1> QED
  BY <1>1, <1>2, <1>3, SizesAssumption, ConfigsAssumption DEF MinTicks

(* What throttle_jito lets through is late enough.                          *)
LEMMA ThrottleGuard ==
    ASSUME cfg \in Configs, since \in Nat, WaitMs = 0
    PROVE  since > MinTicks - TicksPerMs
<1>1. MinTicks \in Nat /\ TicksPerMs \in Nat \ {0}
  BY SettingsType
<1>2. CASE since >= MinTicks
  BY <1>1, <1>2
<1>3. CASE since < MinTicks
  <2>1. MinTicks - since \in Nat /\ (MinTicks - since) \div TicksPerMs = 0
    BY <1>1, <1>3 DEF WaitMs, MinTicks
  <2>2. MinTicks - since < TicksPerMs
    BY <2>1, <1>1, ZeroQuotient
  <2> QED
    BY <2>2, <1>1
<1> QED
  BY <1>1, <1>2, <1>3

---------------------------------------------------------------------------
(* The stamp is never older than the last throttled submission: whoever     *)
(* waits on the stamp waits long enough after the submission.               *)

StampInv ==
    /\ cfg \in Configs
    /\ since \in 0 .. MaxAge /\ quiet \in 0 .. MaxAge
    /\ since <= quiet

LEMMA AdvanceFrame ==
    ASSUME NEW limited, NEW doubt, Advance(limited, doubt)
    PROVE  UNCHANGED <<cfg, since, quiet>> /\ pc' \in {"throttle", "throttleTx", "idle"}
           /\ (pc' # "idle" => UNCHANGED <<job, sales>> /\ unheard' = doubt)
           /\ (pc' = "idle" => job' = NoMint /\ sales' = 0 /\ unheard' = FALSE)
BY DEF Advance, Again, GiveUp

LEMMA InitStamp == Init => StampInv
<1> SUFFICES ASSUME Init PROVE StampInv
  OBVIOUS
<1>1. cfg \in Configs /\ since = cfg.minIv * TicksPerMs /\ quiet = MaxAge
  BY DEF Init
<1> QED
  BY <1>1, SettingsType DEF StampInv

LEMMA NextStamp == StampInv /\ [Next]_vars => StampInv'
<1> SUFFICES ASSUME StampInv, [Next]_vars PROVE StampInv'
  OBVIOUS
<1> USE ConfigsAssumption DEF StampInv
<1>1. ASSUME UNCHANGED <<cfg, since, quiet>> PROVE StampInv'
  BY <1>1
<1>2. ASSUME Tick PROVE StampInv'
  BY <1>2 DEF Tick, AtMost
<1>3. ASSUME NEW m \in Mint, Begin(m) PROVE StampInv'
  BY <1>3, <1>1 DEF Begin, timers
<1>4. ASSUME Pace PROVE StampInv'
  BY <1>4 DEF Pace
<1>5. ASSUME ThrottleBundle \/ ThrottleTx PROVE StampInv'
  BY <1>5 DEF ThrottleBundle, ThrottleTx, Throttle
<1>6. ASSUME Settle PROVE StampInv'
  BY <1>6, <1>1 DEF Settle, timers
<1>7. ASSUME BuildFails \/ BuildSucceeds PROVE StampInv'
  BY <1>7, <1>1 DEF BuildFails, BuildSucceeds, GiveUp, timers
<1>8. ASSUME Accepted \/ Undecodable PROVE StampInv'
  BY <1>8, <1>1 DEF Accepted, Undecodable, timers
<1>9. ASSUME OtherError \/ SendTxFails PROVE StampInv'
  BY <1>9, <1>1, AdvanceFrame DEF OtherError, SendTxFails, GiveUp
<1>10. ASSUME NEW ms, RateLimited(ms) PROVE StampInv'
  BY <1>10, <1>1, AdvanceFrame DEF RateLimited
<1>11. ASSUME UNCHANGED vars PROVE StampInv'
  BY <1>11, <1>1 DEF vars, timers
<1>12. ASSUME NEW answer, Base64Fails(answer) PROVE StampInv'
  BY <1>12, <1>1, AdvanceFrame DEF Base64Fails
<1> QED
  BY <1>2, <1>3, <1>4, <1>5, <1>6, <1>7, <1>8, <1>9, <1>10, <1>11, <1>12
     DEF Next, LocalStep, Reply, Exited

(* The global throttle: whatever the endpoints answer, and across           *)
(* executions, throttled submissions keep the minimum interval (less the    *)
(* truncated millisecond).                                                  *)
THEOREM SubmissionsKeepTheirDistance == SafeSpec => ThrottledSpacing
<1>1. StampInv /\ (ThrottleBundle \/ ThrottleTx) => quiet > MinTicks - TicksPerMs
  <2> SUFFICES ASSUME StampInv, ThrottleBundle \/ ThrottleTx
               PROVE  quiet > MinTicks - TicksPerMs
    OBVIOUS
  <2>1. WaitMs = 0
    BY DEF ThrottleBundle, ThrottleTx, Throttle
  <2>2. since > MinTicks - TicksPerMs
    BY <2>1, ThrottleGuard, ConfigsAssumption DEF StampInv
  <2> QED
    BY <2>2, SettingsType DEF StampInv
<1>2. StampInv /\ [Next]_vars
        => [(ThrottleBundle \/ ThrottleTx) => quiet > MinTicks - TicksPerMs]_vars
  BY <1>1
<1> QED
  BY <1>2, InitStamp, NextStamp, PTL DEF SafeSpec, ThrottledSpacing

---------------------------------------------------------------------------
(* Refinement of the buy desk.                                              *)

(* Acceptance leads straight to the end of the execution.                   *)
PcInv ==
    /\ pc \in PCs /\ unheard \in BOOLEAN
    /\ pc = "idle" => job = NoMint /\ ~unheard
    /\ sales = IF pc \in {"settle", "exited"} THEN 1 ELSE 0

(* Where the client stands at the desk, by where the execution stands.      *)
Stands ==
    /\ pc = "idle" => deskPhase = "free"
    /\ pc = "exited" => deskPhase = "shut"
    /\ pc = "settle" => deskPhase = "sold"
    /\ pc \notin {"idle", "exited", "settle"} => deskPhase = IF unheard THEN "doubt" ELSE "open"

LEMMA ClientStands == (PcInv => Stands) /\ (PcInv' => Stands')
<1>1. PcInv => Stands
  BY DEF PcInv, Stands, deskPhase
<1>2. PcInv' => Stands'
  BY DEF PcInv, Stands, deskPhase
<1> QED
  BY <1>1, <1>2

LEMMA NextPc == PcInv /\ [Next]_vars => PcInv' /\ [Desk!Next]_(Desk!deskVars)
<1> SUFFICES ASSUME PcInv, [Next]_vars PROVE PcInv' /\ [Desk!Next]_(Desk!deskVars)
  OBVIOUS
<1>0. PcInv /\ Stands /\ (PcInv' => Stands')
  BY ClientStands
<1>1. ASSUME UNCHANGED <<pc, visit>> PROVE PcInv' /\ UNCHANGED Desk!deskVars
  BY <1>0, <1>1 DEF PcInv, visit, Desk!deskVars, deskPhase
<1>2. ASSUME Tick PROVE PcInv' /\ UNCHANGED Desk!deskVars
  BY <1>2, <1>1 DEF Tick
<1>3. ASSUME NEW m \in Mint, Begin(m) PROVE PcInv' /\ Desk!Open(m)
  <2>1. PcInv' /\ pc = "idle" /\ pc' = "pace" /\ ~unheard' /\ job' = m
    BY <1>0, <1>3 DEF Begin, PcInv, PCs
  <2> QED
    BY <1>0, <2>1 DEF Stands, Desk!Open
<1>4. ASSUME Pace \/ ThrottleBundle \/ ThrottleTx \/ BuildSucceeds \/ Undecodable
      PROVE  PcInv' /\ UNCHANGED Desk!deskVars
  <2>1. /\ PcInv' /\ UNCHANGED <<job, unheard>>
        /\ pc \notin {"idle", "exited", "settle"} /\ pc' \notin {"idle", "exited", "settle"}
    BY <1>0, <1>4 DEF Pace, ThrottleBundle, ThrottleTx, Throttle, BuildSucceeds, Undecodable,
                      visit, PcInv, PCs
  <2> QED
    BY <1>0, <2>1 DEF Stands, Desk!deskVars
<1>5. ASSUME Accepted PROVE PcInv' /\ Desk!Sell
  <2>1. PcInv' /\ pc \notin {"idle", "exited", "settle"} /\ pc' = "settle" /\ UNCHANGED job
    BY <1>0, <1>5 DEF Accepted, PcInv, PCs
  <2> QED
    BY <1>0, <2>1 DEF Stands, Desk!Sell
<1>6. ASSUME Settle PROVE PcInv' /\ (Desk!LeaveSold \/ Desk!Shut)
  <2>1. /\ PcInv' /\ pc = "settle"
        /\ \/ pc' = "exited" /\ UNCHANGED job
           \/ pc' = "idle" /\ job' = NoMint
    BY <1>0, <1>6 DEF Settle, visit, PcInv, PCs
  <2> QED
    BY <1>0, <2>1 DEF Stands, Desk!LeaveSold, Desk!Shut
<1>7. ASSUME BuildFails \/ SendTxFails PROVE PcInv' /\ Desk!LeaveUnsold
  <2>1. PcInv' /\ pc \notin {"idle", "exited", "settle"} /\ pc' = "idle" /\ job' = NoMint
    BY <1>0, <1>7 DEF BuildFails, SendTxFails, GiveUp, PcInv, PCs
  <2> QED
    BY <1>0, <2>1 DEF Stands, Desk!LeaveUnsold
<1>8. ASSUME pc \in {"base58", "base64"}, NEW limited,
             NEW doubt \in BOOLEAN, unheard => doubt, Advance(limited, doubt)
      PROVE  PcInv' /\ (Desk!LeaveUnsold \/ Desk!Doubt \/ UNCHANGED Desk!deskVars)
  <2>1. PcInv'
    BY <1>0, <1>8, AdvanceFrame DEF PcInv, PCs
  <2>2. CASE pc' = "idle"
    BY <1>0, <1>8, <2>1, <2>2, AdvanceFrame DEF Stands, Desk!LeaveUnsold
  <2>3. CASE pc' # "idle" /\ doubt = unheard
    <3>1. UNCHANGED <<job, unheard>> /\ pc' \notin {"idle", "exited", "settle"}
      BY <1>8, <2>3, AdvanceFrame
    <3>2. pc \notin {"idle", "exited", "settle"}
      BY <1>8
    <3>3. deskPhase' = deskPhase
      BY <1>0, <2>1, <3>1, <3>2 DEF Stands
    <3> QED
      BY <2>1, <3>1, <3>3 DEF Desk!deskVars
  <2>4. CASE pc' # "idle" /\ doubt # unheard
    <3>1. doubt /\ ~unheard
      <4>1. doubt \in BOOLEAN /\ (unheard => doubt) /\ unheard \in BOOLEAN
        BY <1>0, <1>8 DEF PcInv
      <4>2. doubt # unheard
        BY <2>4
      <4> QED
        BY <4>1, <4>2, Zenon
    <3>2. UNCHANGED job /\ unheard' = doubt /\ pc' \notin {"idle", "exited", "settle"}
      BY <1>8, <2>4, AdvanceFrame
    <3>3. pc \notin {"idle", "exited", "settle"}
      BY <1>8
    <3>4. deskPhase = "open"
      BY <1>0, <3>1, <3>3 DEF Stands
    <3>5. deskPhase' = "doubt"
      <4>1. unheard'
        BY <3>1, <3>2, Zenon
      <4> QED
        BY <1>0, <2>1, <3>2, <4>1 DEF Stands
    <3> QED
      BY <2>1, <3>2, <3>4, <3>5 DEF Desk!Doubt
  <2> QED
    BY <2>1, <2>2, <2>3, <2>4
<1>9. ASSUME OtherError
      PROVE  PcInv' /\ (Desk!LeaveUnsold \/ Desk!Doubt \/ UNCHANGED Desk!deskVars)
  <2>1. PICK doubt \in {unheard, TRUE} : Advance(sawRL, doubt)
    BY <1>9 DEF OtherError
  <2>2. doubt \in BOOLEAN /\ (unheard => doubt) /\ pc \in {"base58", "base64"}
    BY <1>0, <1>9 DEF OtherError, PcInv
  <2> QED
    BY <2>1, <2>2, <1>8
<1>10. ASSUME NEW ms, RateLimited(ms)
       PROVE  PcInv' /\ (Desk!LeaveUnsold \/ Desk!Doubt \/ UNCHANGED Desk!deskVars)
  <2>1. unheard \in BOOLEAN /\ pc \in {"base58", "base64"} /\ Advance(TRUE, unheard)
    BY <1>0, <1>10 DEF RateLimited, PcInv
  <2> QED
    BY <2>1, <1>8
<1>11. ASSUME UNCHANGED vars PROVE PcInv' /\ UNCHANGED Desk!deskVars
  BY <1>11, <1>1 DEF vars
<1>12. ASSUME NEW answer, Base64Fails(answer)
       PROVE  PcInv' /\ (Desk!LeaveUnsold \/ Desk!Doubt \/ UNCHANGED Desk!deskVars)
  <2>1. PICK doubt \in {unheard, answer = "error64" \/ unheard} : Advance(sawRL, doubt)
    BY <1>12 DEF Base64Fails
  <2>2. doubt \in BOOLEAN /\ (unheard => doubt) /\ pc \in {"base58", "base64"}
    BY <1>0, <1>12 DEF Base64Fails, PcInv
  <2> QED
    BY <2>1, <2>2, <1>8
<1> QED
  BY <1>2, <1>3, <1>4, <1>5, <1>6, <1>7, <1>9, <1>10, <1>11, <1>12
     DEF Next, LocalStep, Reply, Exited, Desk!Next

(* A bundle execution is a visit to the buy desk: one mint at a time, at    *)
(* most one sale confirmed per visit and nothing submitted after it, exit   *)
(* only after a confirmed sale.  Before it a reply may have been lost, and  *)
(* the visit then goes on in doubt: more than one sale may have been made.  *)
THEOREM ImplementsDesk == SafeSpec => DeskSafe
<1>1. Init => PcInv /\ Desk!Init
  BY DEF Init, PcInv, PCs, visit, Desk!Init, deskPhase
<1> QED
  BY <1>1, NextPc, PTL DEF SafeSpec, DeskSafe, Desk!SafeSpec

---------------------------------------------------------------------------
(* What is chosen is a sequence of endpoints, and there is always one.      *)

OrderStep(s, wanted, i, acc) ==
    IF Len(acc) < Cap /\ Order(s)[i] \in wanted THEN Append(acc, Order(s)[i]) ELSE acc

(* A pass over the order, endpoint by endpoint.                             *)
LEMMA TakeWalks ==
    ASSUME NEW s, NEW wanted, NEW T, NEW taken \in T,
           \A i \in 1 .. N, acc \in T : OrderStep(s, wanted, i, acc) \in T
    PROVE  \E g \in [0 .. N -> T] :
              /\ g[0] = taken /\ \A i \in 1 .. N : g[i] = OrderStep(s, wanted, i, g[i - 1])
              /\ Take(s, taken, wanted) = g[N]
<1> DEFINE D == 1 .. N
           step == [p \in D \X T |-> OrderStep(s, wanted, p[1], p[2])]
           Fold(f) == f = [u \in SUBSET D |-> IF u = {} THEN taken
                             ELSE LET x == Max(u) IN OrderStep(s, wanted, x, f[u \ {x}])]
           iter == CHOOSE f : Fold(f)
<1>0. N \in Nat BY SizesAssumption
<1>1. step \in [(1 .. N) \X T -> T] OBVIOUS
<1>2. \A i \in 1 .. N, acc \in T : step[<<i, acc>>] = OrderStep(s, wanted, i, acc) OBVIOUS
<1> HIDE DEF step
<1>3. \A u \in Parts(1 .. N) : Max(u) \in 1 .. N /\ u \in SUBSET (1 .. N) /\ u # {}
                               /\ u \ {Max(u)} \in SUBSET (1 .. N)
  BY <1>0, MaxIsThere DEF Parts
<1>4. Take(s, taken, wanted) = iter[D]
  <2>1. DOMAIN Order(s) = D BY DEF Order
  <2> QED BY <2>1 DEF Take, FoldLeft, MapThenFoldSet, OrderStep
<1>5. \E f : Fold(f)
  <2>1. PICK f \in [SUBSET (1 .. N) -> T] : f[{}] = taken /\ FoldStep(f, N, T, step)
    BY <1>0, <1>1, FoldLeftExists
  <2>2. \A u \in Parts(1 .. N) : f[u] = OrderStep(s, wanted, Max(u), f[u \ {Max(u)}])
    <3> SUFFICES ASSUME NEW u \in Parts(1 .. N)
                 PROVE  f[u] = OrderStep(s, wanted, Max(u), f[u \ {Max(u)}])
      OBVIOUS
    <3>1. f[u \ {Max(u)}] \in T BY <1>3
    <3>2. f[u] = step[<<Max(u), f[u \ {Max(u)}]>>] BY <3>1, <2>1 DEF FoldStep
    <3> HIDE DEF OrderStep
    <3> QED BY <3>1, <3>2, <1>2, <1>3
  <2>3. Fold(f)
    <3> HIDE DEF OrderStep
    <3> QED BY <2>1, <2>2 DEF Parts
  <2> QED BY <2>3
<1>6. Fold(iter)
  <2> HIDE DEF Fold
  <2> QED BY <1>5
<1>7. iter[{}] = taken BY <1>6
<1>8. FoldStep(iter, N, T, step)
  <2> SUFFICES ASSUME NEW u \in Parts(1 .. N), iter[u \ {Max(u)}] \in T
               PROVE  iter[u] = step[<<Max(u), iter[u \ {Max(u)}]>>]
    BY DEF FoldStep
  <2> HIDE DEF iter, OrderStep
  <2>1. iter[u] = OrderStep(s, wanted, Max(u), iter[u \ {Max(u)}]) BY <1>3, <1>6
  <2> HIDE DEF Fold
  <2> QED BY <2>1, <1>2, <1>3
<1> HIDE DEF iter, Fold
<1>9. PICK g \in [0 .. N -> T] : Walk(g, N, taken, step) /\ iter[1 .. N] = g[N]
  BY <1>0, <1>1, <1>7, <1>8, FoldLeftWalks
<1>10. \A i \in 1 .. N : g[i - 1] \in T BY <1>0
<1>11. \A i \in 1 .. N : g[i] = OrderStep(s, wanted, i, g[i - 1])
  BY <1>2, <1>9, <1>10 DEF Walk
<1> QED BY <1>4, <1>9, <1>11 DEF Walk

LEMMA OrderType == ASSUME NEW s \in Endpoint PROVE Order(s) \in [1 .. N -> Endpoint]
<1>1. \A i \in 1 .. N : (s + i - 1) % N \in 0 .. N - 1 BY SizesAssumption DEF Endpoint
<1> QED BY <1>1 DEF Order, Endpoint

LEMMA TakeType ==
    ASSUME NEW s \in Endpoint, NEW wanted, NEW T, T \in {Seq(Endpoint), Seq(Endpoint) \ {<<>>}},
           NEW taken \in T
    PROVE  Take(s, taken, wanted) \in T
<1>1. ASSUME NEW i \in 1 .. N, NEW acc \in T PROVE OrderStep(s, wanted, i, acc) \in T
  <2>1. Order(s)[i] \in Endpoint BY OrderType
  <2>2. Append(acc, Order(s)[i]) \in Seq(Endpoint) \ {<<>>} BY <2>1, AppendProperties
  <2> QED BY <2>2 DEF OrderStep
<1>2. PICK g \in [0 .. N -> T] : Take(s, taken, wanted) = g[N] BY <1>1, TakeWalks
<1> QED BY <1>2, SizesAssumption

LEMMA ChooseType == ASSUME NEW s \in Endpoint PROVE Choose(s) \in Seq(Endpoint) \ {<<>>}
<1> DEFINE free == {i \in Endpoint : cool[i] = 0}
           first == Take(s, <<>>, free)
           seeded == IF first = <<>> THEN <<s>> ELSE first
<1>1. <<>> \in Seq(Endpoint) BY EmptySeq
<1>2. first \in Seq(Endpoint) BY <1>1, TakeType
<1>3. seeded \in Seq(Endpoint) \ {<<>>}
  <2> HIDE DEF first
  <2>1. <<s>> \in Seq(Endpoint) /\ <<s>> # <<>> OBVIOUS
  <2> QED BY <1>2, <2>1
<1> HIDE DEF seeded
<1>4. Take(s, seeded, Endpoint \ ToSet(seeded)) \in Seq(Endpoint) \ {<<>>} BY <1>3, TakeType
<1> QED BY <1>4 DEF Choose, seeded

---------------------------------------------------------------------------
(* The failover loop.                                                       *)

Limited == \E i \in DOMAIN replies : replies[i] = "limited"

(* Within the loop every endpoint before the current one has answered, and  *)
(* saw_rate_limit says whether one of them was rate limited.                *)
LoopInv ==
    /\ sawRL <=> Limited
    /\ pc \in {"throttle", "base58", "base64"} => Len(replies) = pos - 1
    /\ pc \in {"throttleTx", "sendtx"} => sawRL /\ Len(replies) = Len(chosen)

Refuses == pc' = "idle" /\ pc \notin {"idle", "build", "settle"}
AllRefused ==
    /\ Len(replies') = Len(chosen)
    /\ cfg.fallback /\ Limited' => pc = "sendtx"

LEMMA AppendReply ==
    ASSUME TypeOK, NEW a \in Answers, replies' = Append(replies, a)
    PROVE  Len(replies') = Len(replies) + 1 /\ (Limited' <=> Limited \/ a = "limited")
<1>1. replies \in Seq(Answers)
  BY DEF TypeOK
<1>2. /\ Len(replies') = Len(replies) + 1 /\ Len(replies) \in Nat
      /\ \A i \in 1 .. Len(replies) : replies'[i] = replies[i]
      /\ replies'[Len(replies) + 1] = a
      /\ DOMAIN replies = 1 .. Len(replies) /\ DOMAIN replies' = 1 .. Len(replies) + 1
  BY <1>1
<1> QED
  BY <1>2 DEF Limited

(* The verdict on one endpoint, whichever it is.                            *)
LEMMA Verdict ==
    ASSUME TypeOK, LoopInv, pc \in {"base58", "base64"},
           NEW a \in Answers, replies' = Append(replies, a),
           NEW limited \in BOOLEAN, limited <=> sawRL \/ a = "limited",
           sawRL' = limited, NEW doubt, Advance(limited, doubt)
    PROVE  LoopInv' /\ (Refuses => AllRefused)
<1>1. Len(replies') = Len(replies) + 1 /\ (Limited' <=> limited)
  BY AppendReply DEF LoopInv
<1>2. Len(replies) = pos - 1 /\ pos \in Nat /\ Len(chosen) \in Nat /\ pos <= Len(chosen)
  <2>1. chosen \in Seq(Endpoint) /\ pos \in 0 .. Len(chosen)
    BY DEF TypeOK
  <2> QED
    BY <2>1 DEF LoopInv
<1>3. Len(replies') = pos
  BY <1>1, <1>2
<1>4. CASE pos < Len(chosen)
  <2>1. pc' = "throttle" /\ pos' = pos + 1 /\ UNCHANGED chosen
    BY <1>4 DEF Advance, Again, plan
  <2> QED
    BY <1>1, <1>2, <1>3, <2>1 DEF LoopInv, Refuses
<1>5. CASE pos = Len(chosen) /\ cfg.fallback /\ limited
  <2>1. pc' = "throttleTx" /\ UNCHANGED chosen
    BY <1>5, <1>2 DEF Advance, Again, plan
  <2> QED
    BY <1>1, <1>3, <1>5, <2>1 DEF LoopInv, Refuses
<1>6. CASE pos = Len(chosen) /\ ~(cfg.fallback /\ limited)
  <2>1. pc' = "idle" /\ UNCHANGED <<cfg, chosen>>
    BY <1>6, <1>2 DEF Advance, GiveUp, plan
  <2> QED
    BY <1>1, <1>3, <1>6, <2>1 DEF LoopInv, Refuses, AllRefused
<1> QED
  BY <1>2, <1>4, <1>5, <1>6

LEMMA NextLoop ==
    ASSUME TypeOK, LoopInv, [Next]_vars
    PROVE  LoopInv' /\ (Refuses => AllRefused)
<1> USE DEF Refuses
<1>1. ASSUME UNCHANGED <<pc, plan, pos, sawRL, replies>>
      PROVE  LoopInv' /\ ~Refuses
  BY <1>1 DEF LoopInv, Limited, plan
<1>2. ASSUME NEW m \in Mint, Begin(m) PROVE LoopInv' /\ ~Refuses
  BY <1>2 DEF Begin, LoopInv, Limited
<1>3. ASSUME Pace \/ Settle PROVE LoopInv' /\ ~Refuses
  BY <1>3 DEF Pace, Settle, LoopInv, Limited
<1>4. ASSUME ThrottleBundle \/ ThrottleTx \/ Undecodable PROVE LoopInv' /\ ~Refuses
  BY <1>4 DEF ThrottleBundle, ThrottleTx, Throttle, Undecodable, plan, LoopInv, Limited
<1>5. ASSUME Accepted PROVE LoopInv' /\ ~Refuses
  BY <1>5 DEF Accepted, LoopInv, Limited
<1>6. ASSUME BuildFails PROVE LoopInv' /\ ~Refuses
  BY <1>6 DEF BuildFails, GiveUp, LoopInv, Limited
<1>7. ASSUME BuildSucceeds PROVE LoopInv' /\ ~Refuses
  BY <1>7 DEF BuildSucceeds, LoopInv, Limited
<1>8. ASSUME NEW answer \in {"limited64", "error64"}, Base64Fails(answer)
      PROVE  LoopInv' /\ (Refuses => AllRefused)
  <2>1. sawRL \in BOOLEAN
    BY DEF TypeOK
  <2> QED
    BY <1>8, <2>1, Verdict DEF Base64Fails, Answers
<1>9. ASSUME OtherError PROVE LoopInv' /\ (Refuses => AllRefused)
  <2>1. sawRL \in BOOLEAN
    BY DEF TypeOK
  <2> QED
    BY <1>9, <2>1, Verdict DEF OtherError, Answers
<1>10. ASSUME NEW ms, RateLimited(ms) PROVE LoopInv' /\ (Refuses => AllRefused)
  BY <1>10, Verdict DEF RateLimited, Answers
<1>11. ASSUME SendTxFails PROVE LoopInv' /\ (Refuses => AllRefused)
  BY <1>11 DEF SendTxFails, GiveUp, plan, LoopInv, Limited, AllRefused
<1>12. ASSUME Tick PROVE LoopInv' /\ ~Refuses
  BY <1>12, <1>1 DEF Tick
<1>13. ASSUME UNCHANGED vars PROVE LoopInv' /\ ~Refuses
  BY <1>13, <1>1 DEF vars
<1> QED
  BY <1>2, <1>3, <1>4, <1>5, <1>6, <1>7, <1>8, <1>9, <1>10, <1>11, <1>12, <1>13
     DEF Next, LocalStep, Reply, Exited

LEMMA InitLoop == Init => LoopInv
BY DEF Init, LoopInv, Limited

---------------------------------------------------------------------------
(* Types.  A reply is kept only while an endpoint is still owed one, so the *)
(* loop's invariant is part of the induction.                               *)

LEMMA AdvanceType ==
    ASSUME TypeOK, PcInv, pc \in {"base58", "base64"}, LoopInv, NEW limited,
           NEW doubt \in BOOLEAN, Advance(limited, doubt),
           NEW a \in Answers, replies' = Append(replies, a),
           cool' \in [Endpoint -> Nat], sawRL' \in BOOLEAN
    PROVE  TypeOK'
<1>1. chosen \in Seq(Endpoint) /\ pos \in 0 .. Len(chosen) /\ replies \in Seq(Answers)
  BY DEF TypeOK
<1>2. Len(chosen) \in Nat /\ Len(replies) = pos - 1 BY <1>1 DEF LoopInv
<1>3. replies' \in Seq(Answers) /\ Len(replies') = pos BY <1>1, <1>2
<1>4. cfg' = cfg /\ since' = since /\ quiet' = quiet /\ rr' = rr /\ start' = start /\ chosen' = chosen
  BY DEF Advance, Again, GiveUp, plan
<1>5. pos' \in 0 .. Len(chosen) BY <1>1, <1>2 DEF Advance, Again, GiveUp
<1>6. /\ pc' \in PCs /\ sales' \in 0 .. 1
      /\ job' \in Mint \cup {NoMint} /\ (job' = NoMint <=> pc' = "idle")
  BY DEF Advance, Again, GiveUp, TypeOK, PCs
<1>8. unheard' \in BOOLEAN
  BY Zenon DEF Advance, Again, GiveUp
<1>7. Len(replies') <= Len(chosen) BY <1>1, <1>2, <1>3
<1> QED BY <1>1, <1>3, <1>4, <1>5, <1>6, <1>7, <1>8 DEF TypeOK

LEMMA BuildType == ASSUME TypeOK, BuildSucceeds PROVE TypeOK'
<1>1. rr \in Endpoint /\ (rr + 1) % N \in Endpoint
  BY SizesAssumption DEF TypeOK, Endpoint
<1>2. chosen' \in Seq(Endpoint) /\ chosen' # <<>> BY <1>1, ChooseType DEF BuildSucceeds
<1>3. Len(chosen') \in Nat /\ 1 <= Len(chosen') BY <1>2, EmptySeq
<1>4. replies' = <<>> /\ replies' \in Seq(Answers) /\ Len(replies') = 0
  BY EmptySeq DEF BuildSucceeds
<1>5. /\ UNCHANGED <<cfg, job, sales, unheard, since, quiet, cool>> /\ pc = "build" /\ pc' = "throttle"
      /\ rr' \in Endpoint /\ start' \in Endpoint /\ pos' = 1 /\ sawRL' = FALSE
  BY <1>1 DEF BuildSucceeds, visit, timers
<1>6. pos' \in 0 .. Len(chosen') /\ Len(replies') <= Len(chosen') /\ chosen' \in Seq(Endpoint)
  BY <1>2, <1>3, <1>4, <1>5
<1>7. pc' \in PCs /\ job' \in Mint \cup {NoMint} /\ (job' = NoMint <=> pc' = "idle")
  BY <1>5 DEF TypeOK, PCs
<1>8. /\ cfg' \in Configs /\ sales' \in 0 .. 1 /\ unheard' \in BOOLEAN /\ since' \in 0 .. MaxAge /\ quiet' \in 0 .. MaxAge
      /\ cool' \in [Endpoint -> Nat] /\ sawRL' \in BOOLEAN
  BY <1>5 DEF TypeOK
<1> QED BY <1>4, <1>5, <1>6, <1>7, <1>8 DEF TypeOK

(* A step that leaves the plan and the answers alone.                       *)
LEMMA FrameType ==
    ASSUME TypeOK, UNCHANGED <<cfg, plan, pos, replies>>,
           since' \in 0 .. MaxAge, quiet' \in 0 .. MaxAge, cool' \in [Endpoint -> Nat],
           sawRL' \in BOOLEAN, sales' \in 0 .. 1, unheard' \in BOOLEAN, pc' \in PCs,
           job' \in Mint \cup {NoMint}, job' = NoMint <=> pc' = "idle"
    PROVE  TypeOK'
BY DEF TypeOK, plan

LEMMA TypeStep ==
    ASSUME TypeOK, PcInv, LoopInv, [Next]_vars
    PROVE  TypeOK'
<1>0. /\ since \in 0 .. MaxAge /\ quiet \in 0 .. MaxAge /\ cool \in [Endpoint -> Nat]
      /\ sawRL \in BOOLEAN /\ sales \in 0 .. 1 /\ unheard \in BOOLEAN /\ pc \in PCs
      /\ job \in Mint \cup {NoMint} /\ (job = NoMint <=> pc = "idle")
      /\ MaxAge \in Nat \ {0}
  BY ConfigsAssumption DEF TypeOK
<1> USE DEF PCs, visit, timers
<1>1. ASSUME NEW m \in Mint, Begin(m) PROVE TypeOK'
  BY <1>0, <1>1, FrameType, NamesAssumption DEF Begin
<1>2. ASSUME Pace \/ ThrottleBundle \/ ThrottleTx \/ Undecodable PROVE TypeOK'
  BY <1>0, <1>2, FrameType DEF Pace, ThrottleBundle, ThrottleTx, Throttle, Undecodable
<1>3. ASSUME Tick PROVE TypeOK'
  <2>1. since' \in 0 .. MaxAge /\ quiet' \in 0 .. MaxAge BY <1>0, <1>3 DEF Tick, AtMost
  <2>2. cool' \in [Endpoint -> Nat]
    <3>1. \A e \in Endpoint : AtLeast(cool[e] - 1, 0) \in Nat BY <1>0 DEF AtLeast
    <3> QED BY <1>3, <3>1 DEF Tick
  <2> QED BY <1>0, <1>3, <2>1, <2>2, FrameType DEF Tick
<1>4. ASSUME Accepted PROVE TypeOK'
  <2>1. sales' \in 0 .. 1 BY <1>4 DEF Accepted, PcInv
  <2> QED BY <1>0, <1>4, <2>1, FrameType DEF Accepted
<1>5. ASSUME Settle PROVE TypeOK'
  <2>1. unheard' \in BOOLEAN BY <1>0, <1>5, Zenon DEF Settle
  <2> QED BY <1>0, <1>5, <2>1, FrameType DEF Settle
<1>6. ASSUME BuildFails \/ SendTxFails PROVE TypeOK'
  <2>1. unheard' \in BOOLEAN BY <1>6, Zenon DEF BuildFails, SendTxFails, GiveUp
  <2> QED BY <1>0, <1>6, <2>1, FrameType DEF BuildFails, SendTxFails, GiveUp
<1>7. ASSUME OtherError PROVE TypeOK'
  <2>1. PICK doubt \in {unheard, TRUE} : Advance(sawRL, doubt)
    BY <1>7 DEF OtherError
  <2>2. /\ doubt \in BOOLEAN /\ "error" \in Answers
        /\ pc \in {"base58", "base64"} /\ replies' = Append(replies, "error")
        /\ cool' \in [Endpoint -> Nat] /\ sawRL' \in BOOLEAN
    BY <1>0, <1>7 DEF OtherError, Answers
  <2> QED BY <2>1, <2>2, AdvanceType
<1>8. ASSUME NEW ms \in RetryHints \cup {CooldownMs}, RateLimited(ms) PROVE TypeOK'
  <2>1. cfg.cooldown \in Nat BY ConfigsAssumption DEF TypeOK, ConfigType
  <2>2. ms \in Nat BY <2>1, TimesAssumption DEF CooldownMs, AtLeast
  <2>3. ms * TicksPerMs \in Nat BY <2>2, SizesAssumption
  <2>4. cool' \in [Endpoint -> Nat] BY <1>0, <1>8, <2>3 DEF RateLimited
  <2> QED BY <1>0, <1>8, <2>4, AdvanceType DEF RateLimited, Answers
<1>9. ASSUME BuildSucceeds PROVE TypeOK' BY <1>9, BuildType
<1>10. ASSUME UNCHANGED vars PROVE TypeOK'
  BY <1>0, <1>10, FrameType DEF vars
<1>11. ASSUME NEW answer \in {"limited64", "error64"}, Base64Fails(answer) PROVE TypeOK'
  <2>1. PICK doubt \in {unheard, answer = "error64" \/ unheard} : Advance(sawRL, doubt)
    BY <1>11 DEF Base64Fails
  <2>2. doubt \in BOOLEAN BY <1>0
  <2>3. answer \in Answers BY DEF Answers
  <2>4. /\ pc \in {"base58", "base64"} /\ replies' = Append(replies, answer)
        /\ cool' \in [Endpoint -> Nat] /\ sawRL' \in BOOLEAN
    BY <1>0, <1>11 DEF Base64Fails
  <2> QED BY <2>1, <2>2, <2>3, <2>4, AdvanceType
<1> QED
  BY <1>1, <1>2, <1>3, <1>4, <1>5, <1>6, <1>7, <1>8, <1>9, <1>10, <1>11
     DEF Next, LocalStep, Reply, Exited

LEMMA InitType == Init => TypeOK
<1> SUFFICES ASSUME Init PROVE TypeOK OBVIOUS
<1>1. since \in 0 .. MaxAge /\ quiet \in 0 .. MaxAge
  BY SettingsType DEF Init
<1>2. <<>> \in Seq(Endpoint) /\ <<>> \in Seq(Answers) /\ Len(<<>>) = 0
  BY EmptySeq
<1>3. 0 \in Endpoint BY SizesAssumption DEF Endpoint
<1>4. chosen = <<>> /\ pos = 0 /\ replies = <<>> BY DEF Init
<1>5. /\ chosen \in Seq(Endpoint) /\ pos \in 0 .. Len(chosen)
      /\ replies \in Seq(Answers) /\ Len(replies) <= Len(chosen)
  BY <1>2, <1>4
<1>6. pc = "idle" /\ job = NoMint /\ sales = 0 /\ sawRL = FALSE /\ cfg \in Configs BY DEF Init
<1>7. cool \in [Endpoint -> Nat] /\ rr \in Endpoint /\ start \in Endpoint
  BY <1>3 DEF Init
<1>8. pc \in PCs BY <1>6 DEF PCs
<1>9. job \in Mint \cup {NoMint} /\ (job = NoMint <=> pc = "idle") BY <1>6
<1>10. sales \in 0 .. 1 BY <1>6
<1>11. sawRL \in BOOLEAN /\ unheard \in BOOLEAN BY Zenon DEF Init
<1> QED BY <1>1, <1>5, <1>6, <1>7, <1>8, <1>9, <1>10, <1>11 DEF TypeOK

(* The execution keeps its types: what is chosen is a sequence of           *)
(* endpoints, and no more answers are kept than endpoints were chosen.      *)
THEOREM TypeCorrect == SafeSpec => []TypeOK
<1> DEFINE IInv == TypeOK /\ PcInv /\ LoopInv
<1>1. Init => IInv
  BY InitType, InitLoop DEF Init, PcInv, PCs, visit
<1>2. IInv /\ [Next]_vars => IInv'
  BY TypeStep, NextPc, NextLoop
<1> QED BY <1>1, <1>2, PTL DEF SafeSpec

(* For any number of endpoints and any settings, sendTransaction comes      *)
(* after at least one rate limit of a base58 bundle and after every chosen  *)
(* endpoint.                                                                *)
THEOREM FallbackComesLast == SafeSpec => []FallbackIsLast
<1>1. LoopInv => FallbackIsLast
  BY DEF LoopInv, FallbackIsLast, Limited
<1>2. TypeOK /\ LoopInv /\ [Next]_vars => LoopInv'
  BY NextLoop
<1> QED
  BY <1>1, <1>2, InitLoop, TypeCorrect, PTL DEF SafeSpec

(* Err is reported after a build only once every chosen endpoint has        *)
(* refused, and if one of them did so with a rate limit of the base58       *)
(* bundle, only once the fallback, where enabled, has failed too.           *)
THEOREM NoEarlyErr == SafeSpec => GivesUpOnlyAfterAll
<1> DEFINE A == (pc' = "idle" /\ pc \notin {"idle", "build", "settle"}) =>
                    /\ Len(replies') = Len(chosen)
                    /\ cfg.fallback /\ (\E i \in DOMAIN replies' : replies'[i] = "limited")
                         => pc = "sendtx"
<1>1. TypeOK /\ LoopInv /\ [Next]_vars => LoopInv' /\ [A]_vars
  BY NextLoop DEF Refuses, AllRefused, Limited
<1>2. GivesUpOnlyAfterAll <=> [][A]_vars
  BY DEF GivesUpOnlyAfterAll
<1> HIDE DEF A
<1> QED
  BY <1>1, <1>2, InitLoop, TypeCorrect, PTL DEF SafeSpec

---------------------------------------------------------------------------
(* The order of preference.                                                 *)

(* As much of a sequence as fits.                                           *)
Fits(x, c) == SubSeq(x, 1, AtMost(Len(x), c))

LEMMA FitsFacts ==
    ASSUME NEW E, NEW x \in Seq(E), NEW c \in Nat
    PROVE  /\ Fits(x, c) \in Seq(E) /\ Len(Fits(x, c)) = AtMost(Len(x), c)
           /\ \A i \in 1 .. AtMost(Len(x), c) : Fits(x, c)[i] = x[i]
           /\ Len(x) <= c => Fits(x, c) = x
<1>1. Len(x) \in Nat /\ \A i \in 1 .. Len(x) : x[i] \in E BY LenProperties, ElementOfSeq
<1> DEFINE m == AtMost(Len(x), c)
<1>2. m \in Nat /\ m <= Len(x) /\ m <= c /\ (m = Len(x) \/ m = c) BY <1>1 DEF AtMost
<1>3. \A i \in 1 .. m : x[i] \in E /\ 1 + i - 1 = i BY <1>1, <1>2
<1> HIDE DEF m
<1>4. /\ SubSeq(x, 1, m) \in Seq(E) /\ Len(SubSeq(x, 1, m)) = IF 1 <= m THEN m - 1 + 1 ELSE 0
      /\ \A i \in 1 .. m - 1 + 1 : SubSeq(x, 1, m)[i] = x[1 + i - 1]
  BY <1>2, <1>3, SubSeqProperties
<1>5. Len(SubSeq(x, 1, m)) = m /\ m - 1 + 1 = m BY <1>2, <1>4
<1>6. \A i \in 1 .. m : SubSeq(x, 1, m)[i] = x[i] BY <1>3, <1>4, <1>5
<1>7. Len(x) <= c => SubSeq(x, 1, m) = x
  <2> SUFFICES ASSUME Len(x) <= c PROVE SubSeq(x, 1, m) = x
    OBVIOUS
  <2>1. m = Len(x) BY <1>1 DEF m, AtMost
  <2> QED BY <2>1, SubSeqFull
<1> QED BY <1>4, <1>5, <1>6, <1>7 DEF Fits, m

(* What follows a sequence that already fills the room does not fit.        *)
LEMMA FitsConcat ==
    ASSUME NEW E, NEW x \in Seq(E), NEW y \in Seq(E), NEW c \in Nat, Len(x) >= c
    PROVE  Fits(x \o y, c) = Fits(x, c)
<1>1. /\ x \o y \in Seq(E) /\ Len(x \o y) = Len(x) + Len(y)
      /\ \A i \in 1 .. Len(x) + Len(y) : (x \o y)[i] = IF i <= Len(x) THEN x[i] ELSE y[i - Len(x)]
  BY ConcatProperties
<1>2. Len(x) \in Nat /\ Len(y) \in Nat BY LenProperties
<1>3. AtMost(Len(x \o y), c) = c /\ AtMost(Len(x), c) = c BY <1>1, <1>2 DEF AtMost
<1>4. /\ Fits(x \o y, c) \in Seq(E) /\ Len(Fits(x \o y, c)) = c
      /\ \A i \in 1 .. c : Fits(x \o y, c)[i] = (x \o y)[i]
  BY <1>1, <1>3, FitsFacts
<1>5. /\ Fits(x, c) \in Seq(E) /\ Len(Fits(x, c)) = c
      /\ \A i \in 1 .. c : Fits(x, c)[i] = x[i]
  BY <1>3, FitsFacts
<1>6. \A i \in 1 .. c : (x \o y)[i] = x[i] BY <1>1, <1>2
<1> QED BY <1>4, <1>5, <1>6, SeqEqual

LEMMA FitsAppend ==
    ASSUME NEW E, NEW x \in Seq(E), NEW e \in E, NEW c \in Nat
    PROVE  Fits(Append(x, e), c) = IF Len(Fits(x, c)) < c THEN Append(Fits(x, c), e) ELSE Fits(x, c)
<1>1. /\ Append(x, e) \in Seq(E) /\ Len(Append(x, e)) = Len(x) + 1 /\ Append(x, e) = x \o <<e>>
      /\ <<e>> \in Seq(E) /\ Len(x) \in Nat
  BY AppendProperties, AppendIsConcat, LenProperties
<1>2. Len(Fits(x, c)) = AtMost(Len(x), c) BY FitsFacts
<1>3. CASE Len(x) < c
  <2> DEFINE a == Append(x, e)
  <2>1. a \in Seq(E) /\ Len(a) <= c /\ Len(x) <= c BY <1>1, <1>3
  <2> HIDE DEF a
  <2>2. Fits(x, c) = x BY <2>1, FitsFacts
  <2>3. Fits(a, c) = a BY <2>1, FitsFacts
  <2> QED BY <1>3, <2>2, <2>3 DEF a
<1>4. CASE Len(x) >= c
  <2>1. Fits(Append(x, e), c) = Fits(x, c)
    <3> DEFINE y == <<e>>
    <3>1. y \in Seq(E) /\ Append(x, e) = x \o y BY <1>1
    <3> HIDE DEF y
    <3>2. Fits(x \o y, c) = Fits(x, c) BY <1>4, <3>1, FitsConcat
    <3> QED BY <3>1, <3>2
  <2>2. ~ (Len(Fits(x, c)) < c) BY <1>1, <1>2, <1>4 DEF AtMost
  <2> QED BY <2>1, <2>2
<1> QED BY <1>1, <1>3, <1>4

LEMMA OrderSeq ==
    ASSUME NEW s \in Endpoint
    PROVE  /\ Order(s) \in Seq(Endpoint) /\ Len(Order(s)) = N /\ Order(s)[1] = s
           /\ \A i \in 2 .. N : Order(s)[i] # s
<1>1. Order(s) \in [1 .. N -> Endpoint] BY OrderType
<1>2. Order(s) \in Seq(Endpoint) /\ Len(Order(s)) = N BY <1>1, SizesAssumption
<1>3. N \in Nat \ {0} /\ s \in Nat /\ s < N /\ 1 \in 1 .. N BY SizesAssumption DEF Endpoint
<1>4. \A a \in 0 .. N - 1 : a % N = a /\ (a + N) % N = a BY <1>3
<1>5. Order(s)[1] = s
  <2>1. s + 1 - 1 = s /\ s \in 0 .. N - 1 BY <1>3
  <2> QED BY <1>3, <1>4, <2>1 DEF Order
<1>6. ASSUME NEW i \in 2 .. N PROVE Order(s)[i] # s
  <2>1. i \in 1 .. N /\ Order(s)[i] = (s + i - 1) % N BY <1>3 DEF Order
  <2>2. CASE s + i - 1 < N
    <3>1. s + i - 1 \in 0 .. N - 1 /\ s + i - 1 # s BY <1>3, <2>2
    <3> QED BY <1>4, <2>1, <3>1
  <2>3. CASE s + i - 1 >= N
    <3> DEFINE a == s + i - 1 - N
    <3>1. a \in 0 .. N - 1 /\ a + N = s + i - 1 /\ a # s BY <1>3, <2>3
    <3> HIDE DEF a
    <3>2. (a + N) % N = a BY <1>4, <3>1
    <3> QED BY <2>1, <3>1, <3>2
  <2> QED BY <1>3, <2>2, <2>3
<1> QED BY <1>2, <1>5, <1>6

(* A pass over the order adds the wanted endpoints in order while they fit. *)
LEMMA TakeFits ==
    ASSUME NEW s \in Endpoint, NEW W, NEW taken \in Seq(Endpoint), Cap \in Nat, Len(taken) <= Cap
    PROVE  Take(s, taken, W) = Fits(taken \o Only(Order(s), W), Cap)
<1> DEFINE T == Seq(Endpoint)
<1>1. Order(s) \in Seq(Endpoint) /\ Len(Order(s)) = N /\ N \in Nat BY OrderSeq, SizesAssumption
<1>2. \A i \in 1 .. N, acc \in T : OrderStep(s, W, i, acc) \in T
  <2> SUFFICES ASSUME NEW i \in 1 .. N, NEW acc \in T PROVE OrderStep(s, W, i, acc) \in T
    OBVIOUS
  <2>1. Append(acc, Order(s)[i]) \in T BY <1>1, ElementOfSeq, AppendProperties
  <2> HIDE DEF T
  <2> QED BY <2>1 DEF OrderStep
<1>3. PICK g \in [0 .. N -> T] : /\ g[0] = taken /\ \A i \in 1 .. N : g[i] = OrderStep(s, W, i, g[i - 1])
                                 /\ Take(s, taken, W) = g[N]
  <2> HIDE DEF T
  <2>1. taken \in T BY DEF T
  <2> QED BY <1>2, <2>1, TakeWalks
<1>4. PICK k \in [0 .. N -> T] : Kept(k, Order(s), W) /\ Only(Order(s), W) = k[N]
  BY <1>1, OnlyWalks
<1> DEFINE P == {i \in Nat : i <= N => g[i] = Fits(taken \o k[i], Cap)}
<1>5. 0 \in P
  <2>1. k[0] = <<>> /\ taken \o <<>> = taken BY <1>4, ConcatEmptySeq DEF Kept
  <2>2. Fits(taken, Cap) = taken BY FitsFacts
  <2>3. g[0] = Fits(taken \o k[0], Cap) BY <1>3, <2>1, <2>2
  <2> QED BY <2>3
<1>6. ASSUME NEW i \in Nat, i \in P PROVE i + 1 \in P
  <2> SUFFICES ASSUME i + 1 <= N PROVE g[i + 1] = Fits(taken \o k[i + 1], Cap)
    OBVIOUS
  <2> DEFINE e == Order(s)[i + 1]
             x == taken \o k[i]
  <2>1. i + 1 \in 1 .. N /\ (i + 1) - 1 = i /\ i \in 0 .. N BY <1>1
  <2>2. e \in Endpoint /\ k[i] \in Seq(Endpoint) BY <1>1, <2>1, ElementOfSeq
  <2>3. g[i] = Fits(x, Cap) BY <1>6, <2>1
  <2>4. g[i + 1] = IF Len(g[i]) < Cap /\ e \in W THEN Append(g[i], e) ELSE g[i]
    BY <1>3, <2>1 DEF OrderStep
  <2>5. k[i + 1] = IF e \in W THEN Append(k[i], e) ELSE k[i]
    BY <1>1, <1>4, <2>1 DEF Kept
  <2>6. taken \o Append(k[i], e) = Append(x, e) /\ x \in Seq(Endpoint)
    <3>1. x \in Seq(Endpoint) /\ <<e>> \in Seq(Endpoint) BY <2>2, ConcatProperties
    <3>2. taken \o (k[i] \o <<e>>) = x \o <<e>>
      <4> DEFINE y == <<e>>
                 z == k[i]
      <4>1. y \in Seq(Endpoint) /\ z \in Seq(Endpoint) BY <2>2, <3>1
      <4> HIDE DEF y, z
      <4>2. (taken \o z) \o y = taken \o (z \o y) BY <4>1, ConcatAssociative
      <4> QED BY <4>2 DEF y, z
    <3>3. k[i] \o <<e>> = Append(k[i], e) /\ x \o <<e>> = Append(x, e)
      BY <2>2, <3>1, AppendIsConcat
    <3> QED BY <3>1, <3>2, <3>3
  <2> HIDE DEF e, x
  <2>7. Fits(Append(x, e), Cap) = IF Len(Fits(x, Cap)) < Cap THEN Append(Fits(x, Cap), e) ELSE Fits(x, Cap)
    BY <2>2, <2>6, FitsAppend
  <2>8. CASE e \in W
    BY <2>3, <2>4, <2>5, <2>6, <2>7, <2>8
  <2>9. CASE e \notin W
    <3>1. k[i + 1] = k[i] /\ g[i + 1] = g[i] BY <2>4, <2>5, <2>9
    <3> QED BY <2>3, <3>1 DEF x
  <2> QED BY <2>8, <2>9
<1>7. Nat \subseteq P
  <2> HIDE DEF P
  <2> QED BY <1>5, <1>6, SetInduction
<1>8. N \in P BY <1>1, <1>7
<1> QED BY <1>1, <1>3, <1>4, <1>8

LEMMA ChooseIsPreferred ==
    ASSUME NEW s \in Endpoint, cfg \in Configs
    PROVE  Choose(s) = Preferred(s)
<1> DEFINE free == {i \in Endpoint : cool[i] = 0}
           A == Only(Order(s), free)
           B == Only(Order(s), Endpoint \ free)
           first == Take(s, <<>>, free)
           seeded == IF first = <<>> THEN <<s>> ELSE first
           rest == Only(Order(s), Endpoint \ ToSet(seeded))
<1>1. /\ Order(s) \in Seq(Endpoint) /\ Len(Order(s)) = N /\ Order(s)[1] = s
      /\ \A i \in 2 .. N : Order(s)[i] # s
      /\ \A i \in 1 .. N : Order(s)[i] \in Endpoint
  BY OrderSeq, ElementOfSeq
<1>2. N \in Nat \ {0} /\ Cap \in 1 .. N
  <2>1. cfg.failover \in Nat BY ConfigsAssumption DEF ConfigType
  <2> QED BY <2>1, SizesAssumption DEF Cap, AtMost
<1>3. A \in Seq(Endpoint) /\ B \in Seq(Endpoint) /\ Len(A) + Len(B) = N /\ Len(A) \in Nat /\ Len(B) \in Nat
  <2>1. A \in Seq(Endpoint) /\ B \in Seq(Endpoint)
    <3> HIDE DEF free
    <3> QED BY <1>1, OnlyFacts
  <2>2. \A j \in 1 .. Len(Order(s)) : Order(s)[j] \in free <=> Order(s)[j] \notin Endpoint \ free
    BY <1>1
  <2>3. Len(A) + Len(B) = Len(Order(s))
    <3> HIDE DEF free
    <3> QED BY <1>1, <2>2, OnlySplit
  <2> QED BY <1>1, <2>1, <2>3, LenProperties
<1>4. (A = <<>>) => \A j \in 1 .. N : Order(s)[j] \notin free
  <2> HIDE DEF free
  <2> QED BY <1>1, OnlyFacts
<1>5. /\ \A j \in 1 .. N : Order(s)[j] \in free => \E k \in 1 .. Len(A) : A[k] = Order(s)[j]
      /\ \A k \in 1 .. Len(A) : A[k] \in free
  <2> HIDE DEF free
  <2> QED BY <1>1, OnlyFacts
<1> HIDE DEF A, B
<1>6. A \o B \in Seq(Endpoint) /\ Len(A \o B) = N BY <1>3, ConcatProperties
<1>7. Preferred(s) = Fits(A \o B, Cap)
  <2>1. AtMost(Len(A \o B), Cap) = Cap BY <1>2, <1>6 DEF AtMost
  <2>2. Preferred(s) = SubSeq(A \o B, 1, Cap) BY DEF Preferred, A, B
  <2> QED BY <2>1, <2>2 DEF Fits
<1>8. first = Fits(A, Cap)
  <2>1. <<>> \in Seq(Endpoint) /\ Len(<<>>) = 0 BY EmptySeq
  <2>2. first = Fits(<<>> \o A, Cap)
    <3> HIDE DEF free
    <3>1. Len(<<>>) <= Cap /\ Cap \in Nat BY <1>2, <2>1
    <3> QED BY <2>1, <3>1, TakeFits DEF A
  <2>3. <<>> \o A = A BY <1>3, ConcatEmptySeq
  <2> QED BY <2>2, <2>3
<1>9. first \in Seq(Endpoint) /\ Len(first) = AtMost(Len(A), Cap) BY <1>2, <1>3, <1>8, FitsFacts
<1> HIDE DEF first
<1>10. seeded \in Seq(Endpoint) /\ Len(seeded) <= Cap
  <2>1. <<s>> \in Seq(Endpoint) /\ Len(<<s>>) = 1 OBVIOUS
  <2> QED BY <1>2, <1>3, <1>9, <2>1 DEF AtMost
<1>11. Choose(s) = Fits(seeded \o rest, Cap)
  <2>1. Choose(s) = Take(s, seeded, Endpoint \ ToSet(seeded)) BY DEF Choose, first
  <2> HIDE DEF seeded
  <2>2. Cap \in Nat BY <1>2
  <2> QED BY <1>10, <2>1, <2>2, TakeFits
<1>12. rest \in Seq(Endpoint)
  <2> HIDE DEF seeded
  <2> QED BY <1>1, OnlyFacts
<1>13. first = <<>> <=> Len(A) = 0 BY <1>2, <1>3, <1>9, EmptySeq DEF AtMost
<1>14. CASE Len(A) = 0
  <2>1. A = <<>> /\ seeded = <<s>> BY <1>3, <1>13, <1>14, EmptySeq
  <2>2. \A j \in 1 .. Len(Order(s)) : Order(s)[j] \in Endpoint \ free BY <1>1, <1>4, <2>1
  <2>3. B = Order(s)
    <3> HIDE DEF free
    <3> QED BY <1>1, <2>2, OnlyFacts DEF B
  <2>4. ToSet(<<s>>) = {s} BY DEF ToSet
  <2>5. <<s>> \o rest = Order(s)
    <3>1. rest = Only(Order(s), Endpoint \ {s}) BY <2>1, <2>4
    <3>2. s \notin Endpoint \ {s} /\ \A j \in 2 .. Len(Order(s)) : Order(s)[j] \in Endpoint \ {s}
      BY <1>1, <1>2
    <3> DEFINE T == Endpoint \ {s}
    <3> HIDE DEF T
    <3>3. Order(s)[1] \notin T /\ (\A j \in 2 .. Len(Order(s)) : Order(s)[j] \in T) /\ Len(Order(s)) >= 1
      BY <1>1, <1>2, <3>2 DEF T
    <3>4. <<Order(s)[1]>> \o Only(Order(s), T) = Order(s) BY <1>1, <3>3, OnlyButFirst
    <3> QED BY <1>1, <3>1, <3>4 DEF T
  <2>6. A \o B = Order(s) BY <1>1, <2>1, <2>3, ConcatEmptySeq
  <2> QED BY <1>7, <1>11, <2>1, <2>5, <2>6
<1>15. CASE Len(A) # 0 /\ Len(A) <= Cap
  <2>1. first = A /\ seeded = A BY <1>2, <1>3, <1>8, <1>13, <1>15, FitsFacts
  <2>2. DOMAIN A = 1 .. Len(A) BY <1>3, LenProperties
  <2>3. \A j \in 1 .. Len(Order(s)) :
           Order(s)[j] \in Endpoint \ ToSet(A) <=> Order(s)[j] \in Endpoint \ free
    <3> HIDE DEF free
    <3> QED BY <1>1, <1>5, <2>2 DEF ToSet
  <2>4. Only(Order(s), Endpoint \ ToSet(A)) = B
    <3> DEFINE T == Endpoint \ ToSet(A)
               U == Endpoint \ free
    <3>1. \A j \in 1 .. Len(Order(s)) : Order(s)[j] \in T <=> Order(s)[j] \in U BY <2>3
    <3> HIDE DEF T, U
    <3>2. Only(Order(s), T) = Only(Order(s), U) BY <1>1, <3>1, OnlySame
    <3> QED BY <3>2 DEF B, T, U
  <2> QED BY <1>7, <1>11, <2>1, <2>4
<1>16. CASE Len(A) > Cap
  <2>1. Len(first) = Cap /\ seeded = first BY <1>2, <1>3, <1>9, <1>13, <1>16 DEF AtMost
  <2>2. Fits(first \o rest, Cap) = Fits(first, Cap) BY <1>2, <1>9, <1>12, <2>1, FitsConcat
  <2>3. Fits(first, Cap) = first BY <1>2, <1>9, <2>1, FitsFacts
  <2>4. Fits(A \o B, Cap) = Fits(A, Cap) BY <1>2, <1>3, <1>16, FitsConcat
  <2> QED BY <1>7, <1>8, <1>11, <2>1, <2>2, <2>3, <2>4
<1> QED BY <1>2, <1>3, <1>14, <1>15, <1>16

(* For any number of endpoints, any settings and any cooldowns: the two     *)
(* passes of the code, with their fallback to start_idx, yield the rotation *)
(* with the free endpoints first, cut off at the failover setting.          *)
THEOREM EndpointsByPreference == SafeSpec => ChosenByPreference
<1>1. TypeOK /\ [Next]_vars => [BuildSucceeds => chosen' = Preferred(rr)]_vars
  <2> SUFFICES ASSUME TypeOK, BuildSucceeds PROVE chosen' = Preferred(rr)
    OBVIOUS
  <2>1. rr \in Endpoint /\ cfg \in Configs BY DEF TypeOK
  <2> QED BY <2>1, ChooseIsPreferred DEF BuildSucceeds
<1> QED BY <1>1, TypeCorrect, PTL DEF SafeSpec, ChosenByPreference
=============================================================================
