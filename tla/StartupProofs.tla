--------------------------- MODULE StartupProofs ---------------------------
(* Proofs about Startup, for any settings, balances and number of starts.   *)
EXTENDS Startup, FoldLemmas, TLAPS

(* blind grows at most once per start: it counts starts past the read.      *)
BlindInv == blind <= starts /\ (pc \in {"inputs", "tip", "ask", "bank"} => blind < starts)
StartInv == pc # "down" => starts > 0
IInv == TypeOK /\ BlindInv /\ StartInv

LEMMA WrapType == ASSUME TypeOK, NEW current \in Nat PROVE DesiredWrap(current) \in Nat
  BY SettingAssumption DEF TypeOK, SettingType, DesiredWrap

LEMMA InvInit == Init => IInv
  BY BoundAssumption DEF Init, IInv, TypeOK, BlindInv, StartInv, PCs, TipAccounts

LEMMA ReadInv == ASSUME IInv, NEW current \in Nat, NEW known, Read(current, known) PROVE IInv'
<1>1. want' \in Nat BY WrapType DEF IInv, Read
<1>2. blind' \in {blind, blind + 1} /\ pc' \in {"proxies", "hash"} BY DEF Read, Go
<1>3. UNCHANGED <<cfg, tip, starts, wsol, wrap, initial>> /\ pc = "bank"
  BY DEF Read, Go, ledger
<1> QED BY <1>1, <1>2, <1>3, BoundAssumption DEF IInv, TypeOK, BlindInv, StartInv, PCs

LEMMA InvStep == ASSUME IInv, [Next]_vars PROVE IInv'
<1> USE BoundAssumption DEF IInv, TypeOK, BlindInv, StartInv, PCs, TipAccounts, ledger, past
<1>1. CASE Start BY <1>1 DEF Start
<1>2. CASE Inputs BY <1>2 DEF Inputs, Go
<1>3. CASE Tip BY <1>3 DEF Tip, Go
<1>4. CASE Asked BY <1>4 DEF Asked, Go
<1>5. CASE NoBank BY <1>5 DEF NoBank, Go
<1>6. CASE ReadBalance BY <1>6, ReadInv DEF ReadBalance
<1>7. CASE ReadFails BY <1>7, ReadInv DEF ReadFails
<1>8. CASE Hash \/ NotSent \/ Refused \/ Proxies BY <1>8 DEF Hash, NotSent, Refused, Proxies, Go
<1>9. CASE Sent
  <2>1. starts \in 1 .. MaxStarts BY <1>9 DEF Sent
  <2> QED BY <1>9, <2>1 DEF Sent, Go
<1>10. CASE Crash BY <1>10 DEF Crash, Go
<1>11. CASE Spend BY <1>11 DEF Spend
<1>12. ASSUME NEW n \in 1 .. MaxStarts, Land(n) \/ Lapse(n) PROVE IInv'
  <2>1. /\ UNCHANGED <<cfg, pc, tip, want, starts, initial, blind>>
        /\ wsol' \in {wsol, wsol + wrap[n]}
        /\ wrap' = [wrap EXCEPT ![n] = 0]
    BY <1>12 DEF Land, Lapse
  <2>2. wrap[n] \in Nat BY <1>12
  <2>3. wsol' \in Nat BY <2>1, <2>2
  <2>4. wrap' \in [1 .. MaxStarts -> Nat] BY <2>1
  <2> QED BY <2>1, <2>3, <2>4
<1>13. CASE UNCHANGED vars BY <1>13 DEF vars
<1> QED
  BY <1>1, <1>2, <1>3, <1>4, <1>5, <1>6, <1>7, <1>8, <1>9, <1>10, <1>11, <1>12, <1>13
  DEF Next, StartStep

(* The state of a start and of the wallet keeps its types, and the history  *)
(* counts at most one wrap in the dark per start.                           *)
THEOREM TypeCorrect == Spec => []TypeOK
<1>1. Init => IInv BY InvInit
<1>2. IInv /\ [Next]_vars => IInv' BY InvStep
<1>3. IInv => TypeOK BY DEF IInv
<1> QED BY <1>1, <1>2, <1>3, PTL DEF Spec

---------------------------------------------------------------------------
(* Once past the tip account, bundle mode has a real one; a question to the *)
(* engine needs a client.                                                   *)
Equipped ==
    /\ tip # "default"
    /\ Clients = <<>> => tip = "operator's"
TipInv ==
    /\ cfg.mode = "bundle_pumpbuy" /\ pc \in {"bank", "hash", "send", "proxies", "running"}
          => Equipped
    /\ pc = "ask" => Clients # <<>>

LEMMA SettingsStay == ASSUME [Next]_vars PROVE cfg' = cfg
<1>1. CASE StartStep
  BY <1>1 DEF StartStep, Inputs, Tip, Asked, NoBank, ReadBalance, ReadFails, Read, Hash,
              NotSent, Sent, Refused, Proxies, Go
<1> QED BY <1>1 DEF Next, Start, Crash, Spend, Land, Lapse, Go, vars

LEMMA TipStep == ASSUME TipInv, [Next]_vars PROVE TipInv'
<1>0. cfg' = cfg BY SettingsStay
<1>1. cfg' = cfg /\ Clients' = Clients BY <1>0 DEF Clients, WantJito
<1> USE <1>1 DEF TipInv, Equipped
<1>2. CASE Start BY <1>2 DEF Start
<1>3. CASE Inputs BY <1>3 DEF Inputs, Go
<1>4. CASE Tip
  <2>1. cfg.mode = "bundle_pumpbuy" => WantJito BY DEF WantJito
  <2> QED BY <1>4, <2>1 DEF Tip, Go
<1>5. CASE Asked BY <1>5 DEF Asked, Go
<1>6. CASE NoBank BY <1>6 DEF NoBank, Go
<1>7. CASE ReadBalance \/ ReadFails BY <1>7 DEF ReadBalance, ReadFails, Read, Go
<1>8. CASE Hash \/ NotSent \/ Refused \/ Proxies \/ Sent \/ Crash
  BY <1>8 DEF Hash, NotSent, Refused, Proxies, Sent, Crash, Go
<1>9. CASE Spend BY <1>9 DEF Spend
<1>10. ASSUME NEW n \in 1 .. MaxStarts, Land(n) \/ Lapse(n) PROVE TipInv'
  BY <1>10 DEF Land, Lapse
<1>11. CASE UNCHANGED vars BY <1>11 DEF vars
<1> QED
  BY <1>2, <1>3, <1>4, <1>5, <1>6, <1>7, <1>8, <1>9, <1>10, <1>11 DEF Next, StartStep

(* For every configuration: bundle mode begins to mirror only with a real   *)
(* tip account, and without a client only on the operator's own.            *)
THEOREM BundleModeIsReady == Spec => []BundleReady
<1>1. Init => TipInv BY DEF Init, TipInv
<1>2. TipInv /\ [Next]_vars => TipInv' BY TipStep
<1>3. TipInv => BundleReady BY DEF TipInv, BundleReady, Equipped
<1> QED BY <1>1, <1>2, <1>3, PTL DEF Spec

---------------------------------------------------------------------------
(* The exposure.  A start that is about to send has room for its wrap.      *)

Most == AtLeast(initial, cfg.target)
Step == AtLeast(cfg.target, cfg.reserve)
Exposure == wsol + Sum(wrap)
RoomInv ==
    /\ Exposure <= Most + blind * Step
    /\ pc \in {"hash", "send"} => Exposure + want <= Most + blind * Step

LEMMA ExposureTypes ==
    ASSUME TypeOK
    PROVE  /\ IsFiniteSet(1 .. MaxStarts) /\ Sum(wrap) \in Nat /\ wsol \in Nat
           /\ Most \in Nat /\ Step \in Nat /\ blind \in Nat /\ blind * Step \in Nat
           /\ cfg.target \in Nat /\ cfg.target <= Most /\ cfg.target <= Step /\ cfg.reserve <= Step
<1>1. IsFiniteSet(1 .. MaxStarts) BY FS_Interval, BoundAssumption
<1>2. cfg.target \in Nat /\ cfg.reserve \in Nat BY SettingAssumption DEF TypeOK, SettingType
<1>3. Sum(wrap) \in Nat
  <2>1. 1 \in 1 .. MaxStarts /\ wrap \in [1 .. MaxStarts -> Nat] BY BoundAssumption DEF TypeOK
  <2>2. 0 \in Nat OBVIOUS
  <2> QED BY <2>1, <2>2, <1>1, SumExcept
<1>4. Most \in Nat /\ Step \in Nat /\ blind \in Nat BY <1>2, BoundAssumption DEF TypeOK, Most, Step, AtLeast
<1>5. blind * Step \in Nat
  <2> HIDE DEF Step
  <2> QED BY <1>4
<1> QED BY <1>1, <1>2, <1>3, <1>4, <1>5 DEF TypeOK, Most, Step, AtLeast

(* A wrap is at most the target or the reserve; one that knows what the     *)
(* wallet has reaches the target.                                           *)
LEMMA WrapBounded ==
    ASSUME TypeOK, NEW current \in Nat
    PROVE  /\ DesiredWrap(current) <= Step
           /\ TopsUp /\ DesiredWrap(current) > 0 => current + DesiredWrap(current) = cfg.target
  BY SettingAssumption DEF TypeOK, SettingType, DesiredWrap, Step, AtLeast

LEMMA ReadRoom ==
    ASSUME TypeOK, RoomInv, NEW current \in Nat, NEW known \in BOOLEAN, Read(current, known),
           known => current = wsol
    PROVE  RoomInv'
<1> DEFINE want2 == DesiredWrap(current)
<1>1. /\ want' = want2 /\ want2 \in Nat /\ want2 <= Step
      /\ Exposure' = Exposure /\ Most' = Most /\ Step' = Step
      /\ pc' = "hash" => want2 > 0
  BY WrapType, WrapBounded DEF Read, Go, ledger, Exposure, Most, Step
<1>2. Exposure \in Nat /\ Most \in Nat /\ Step \in Nat /\ blind \in Nat /\ blind * Step \in Nat
  BY ExposureTypes DEF Exposure
<1>3. CASE want2 > 0 /\ (~known \/ Unsettled \/ ~TopsUp)
  <2>1. blind' = blind + 1 BY <1>1, <1>3 DEF Read
  <2>2. (blind + 1) * Step = blind * Step + Step
    <3> HIDE DEF Step
    <3> QED BY <1>2
  <2>3. blind' * Step' = blind * Step + Step BY <1>1, <2>1, <2>2
  <2> HIDE DEF want2, Exposure, Most, Step
  <2> QED BY <1>1, <1>2, <2>3 DEF RoomInv
<1>4. CASE want2 > 0 /\ known /\ ~Unsettled /\ TopsUp
  <2>1. blind' = blind BY <1>1, <1>4 DEF Read
  <2>2. Sum(wrap) = 0
    <3>1. wrap \in [1 .. MaxStarts -> Nat] BY DEF TypeOK
    <3>2. \A n \in 1 .. MaxStarts : wrap[n] = 0 BY <3>1, <1>4 DEF Unsettled
    <3> QED BY <3>1, <3>2, ExposureTypes, SumZero
  <2>3. Exposure + want2 = cfg.target BY <2>2, <1>4, WrapBounded, ExposureTypes, WrapType DEF Exposure
  <2>4. cfg.target <= Most /\ cfg.target \in Nat BY ExposureTypes
  <2>5. blind' * Step' = blind * Step BY <2>1, <1>1
  <2> HIDE DEF want2, Exposure, Most, Step
  <2> QED BY <1>1, <1>2, <2>3, <2>4, <2>5 DEF RoomInv
<1>5. CASE want2 = 0
  <2>1. blind' = blind /\ pc' = "proxies" BY <1>1, <1>5 DEF Read, Go
  <2>2. blind' * Step' = blind * Step BY <2>1, <1>1
  <2> HIDE DEF want2, Exposure, Most, Step
  <2> QED BY <1>1, <2>1, <2>2 DEF RoomInv
<1> QED BY <1>1, <1>3, <1>4, <1>5

(* The bound of a state that differs in the wallet and the wraps only.      *)
LEMMA SameBound ==
    ASSUME cfg' = cfg, UNCHANGED past
    PROVE  Most' = Most /\ blind' * Step' = blind * Step
  BY DEF Most, Step, past

LEMMA SentRoom == ASSUME IInv, RoomInv, Sent PROVE RoomInv'
<1>1. /\ starts \in 1 .. MaxStarts /\ wrap \in [1 .. MaxStarts -> Nat] /\ want \in Nat /\ TypeOK
  BY DEF IInv, TypeOK, StartInv, Sent
<1>2. /\ wrap' = [wrap EXCEPT ![starts] = want] /\ wsol' = wsol /\ cfg' = cfg /\ UNCHANGED past
      /\ pc' \in {"proxies", "down"} /\ pc = "send"
  BY DEF Sent, Go
<1>3. Sum(wrap') = Sum(wrap) - wrap[starts] + want BY <1>1, <1>2, ExposureTypes, SumExcept
<1>4. wrap[starts] \in Nat /\ Sum(wrap) \in Nat /\ wsol \in Nat BY <1>1, ExposureTypes
<1>5. Exposure' <= Exposure + want BY <1>1, <1>2, <1>3, <1>4 DEF Exposure
<1>6. Exposure' \in Int /\ Exposure \in Nat BY <1>1, <1>2, <1>3, <1>4 DEF Exposure
<1>7. Most' = Most /\ blind' * Step' = blind * Step BY <1>2, SameBound
<1>8. Most \in Nat /\ blind * Step \in Nat BY <1>1, ExposureTypes
<1> HIDE DEF Exposure, Most, Step
<1> QED BY <1>1, <1>2, <1>5, <1>6, <1>7, <1>8 DEF RoomInv

(* Landing moves a wrap into the wallet, and lapsing loses it.              *)
LEMMA SettleRoom ==
    ASSUME IInv, RoomInv, NEW n \in 1 .. MaxStarts, Land(n) \/ Lapse(n)
    PROVE  RoomInv'
<1>1. wrap \in [1 .. MaxStarts -> Nat] /\ want \in Nat /\ TypeOK BY DEF IInv, TypeOK
<1>2. /\ wrap' = [wrap EXCEPT ![n] = 0] /\ wsol' \in {wsol, wsol + wrap[n]}
      /\ cfg' = cfg /\ UNCHANGED past /\ UNCHANGED <<pc, want>>
  BY DEF Land, Lapse
<1>3. Sum(wrap') = Sum(wrap) - wrap[n] + 0
  <2>1. IsFiniteSet(1 .. MaxStarts) /\ 0 \in Nat BY <1>1, ExposureTypes
  <2>2. Sum([wrap EXCEPT ![n] = 0]) = Sum(wrap) - wrap[n] + 0 BY <1>1, <2>1, SumExcept
  <2> QED BY <1>2, <2>2
<1>4. wrap[n] \in Nat /\ Sum(wrap) \in Nat /\ wsol \in Nat BY <1>1, ExposureTypes
<1>5. Exposure' <= Exposure BY <1>2, <1>3, <1>4 DEF Exposure
<1>6. Exposure' \in Int /\ Exposure \in Nat BY <1>2, <1>3, <1>4 DEF Exposure
<1>7. Most' = Most /\ blind' * Step' = blind * Step BY <1>2, SameBound
<1>8. Most \in Nat /\ blind * Step \in Nat BY <1>1, ExposureTypes
<1> HIDE DEF Exposure, Most, Step
<1> QED BY <1>1, <1>2, <1>5, <1>6, <1>7, <1>8 DEF RoomInv

(* The other steps leave the wraps alone and never wait to send a new one.  *)
LEMMA QuietRoom ==
    ASSUME TypeOK, RoomInv, cfg' = cfg, UNCHANGED past, wrap' = wrap, wsol' \in {wsol, wsol - 1},
           pc' \in {"hash", "send"} => pc \in {"hash", "send"} /\ want' = want
    PROVE  RoomInv'
<1>1. Exposure' <= Exposure /\ Exposure' \in Int /\ Exposure \in Nat BY ExposureTypes DEF Exposure
<1>2. Most' = Most /\ blind' * Step' = blind * Step BY SameBound
<1>3. Most \in Nat /\ blind * Step \in Nat /\ want \in Nat BY ExposureTypes DEF TypeOK
<1> HIDE DEF Exposure, Most, Step
<1> QED BY <1>1, <1>2, <1>3 DEF RoomInv

LEMMA RoomStep == ASSUME IInv, RoomInv, [Next]_vars PROVE RoomInv'
<1> USE DEF ledger, past, Go
<1>0. TypeOK BY DEF IInv
<1>1. CASE Start BY <1>0, <1>1, QuietRoom DEF Start
<1>2. CASE Inputs \/ Tip \/ Asked \/ NoBank
  BY <1>0, <1>2, QuietRoom DEF Inputs, Tip, Asked, NoBank
<1>3. CASE ReadBalance
  <2>1. wsol \in Nat BY <1>0 DEF TypeOK
  <2> QED BY <1>0, <1>3, <2>1, ReadRoom DEF ReadBalance
<1>4. CASE ReadFails BY <1>0, <1>4, ReadRoom DEF ReadFails
<1>5. CASE Hash BY <1>0, <1>5, QuietRoom DEF Hash
<1>6. CASE NotSent \/ Refused \/ Proxies \/ Crash
  BY <1>0, <1>6, QuietRoom DEF NotSent, Refused, Proxies, Crash
<1>7. CASE Sent BY <1>7, SentRoom
<1>8. CASE Spend BY <1>0, <1>8, QuietRoom DEF Spend
<1>9. ASSUME NEW n \in 1 .. MaxStarts, Land(n) \/ Lapse(n) PROVE RoomInv'
  BY <1>9, SettleRoom
<1>10. CASE UNCHANGED vars BY <1>0, <1>10, QuietRoom DEF vars
<1> QED
  BY <1>1, <1>2, <1>3, <1>4, <1>5, <1>6, <1>7, <1>8, <1>9, <1>10 DEF Next, StartStep

LEMMA RoomInit == Init => RoomInv
<1> SUFFICES ASSUME Init PROVE RoomInv OBVIOUS
<1>1. TypeOK BY InvInit DEF IInv
<1>2. wrap \in [1 .. MaxStarts -> Nat] /\ \A n \in 1 .. MaxStarts : wrap[n] = 0 BY DEF Init
<1>3. Sum(wrap) = 0 BY <1>1, <1>2, ExposureTypes, SumZero
<1>4. Exposure = initial /\ initial <= Most BY <1>1, <1>3, ExposureTypes DEF Init, Exposure, Most, AtLeast, TypeOK
<1>5. Exposure <= Most + blind * Step
  <2>1. Exposure \in Nat /\ Most \in Nat /\ blind * Step \in Nat BY <1>1, ExposureTypes DEF Exposure
  <2> HIDE DEF Exposure, Most, Step
  <2> QED BY <1>4, <2>1
<1> QED BY <1>5 DEF Init, RoomInv

(* For any settings, balances and number of starts: restarts cannot wrap    *)
(* more than one target (or reserve) each beyond what the wallet needs, and *)
(* only the starts that could not know the balance do.                      *)
THEOREM ExposureIsBounded == Spec => []ExposureBounded
<1>1. Init => IInv /\ RoomInv BY InvInit, RoomInit
<1>2. IInv /\ RoomInv /\ [Next]_vars => (IInv /\ RoomInv)' BY InvStep, RoomStep
<1>3. RoomInv => ExposureBounded BY DEF RoomInv, ExposureBounded, Exposure, Most, Step, Sum
<1> QED BY <1>1, <1>2, <1>3, PTL DEF Spec
=============================================================================
