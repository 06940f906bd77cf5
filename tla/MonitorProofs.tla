--------------------------- MODULE MonitorProofs ---------------------------
(***************************************************************************)
(* Proofs about Monitor, for any regions, signatures, batches, capacities  *)
(* and parse concurrency.                                                  *)
(***************************************************************************)
EXTENDS Monitor, SequenceTheorems, TLAPS

---------------------------------------------------------------------------
(* Types.  The batches in a queue are never empty, so the parser is at work *)
(* exactly while transactions of its batch are left.                        *)

TypeInv == TypeOK /\ queue \in [Region -> Seq(Seq(Sig) \ {NoBatch})]

LEMMA RemoveAtType ==
    ASSUME NEW S, NEW s \in Seq(S), NEW i \in 1 .. Len(s)
    PROVE  RemoveAt(s, i) \in Seq(S) /\ Len(RemoveAt(s, i)) = Len(s) - 1
<1> DEFINE a == SubSeq(s, 1, i - 1)
           b == SubSeq(s, i + 1, Len(s))
<1>1. Len(s) \in Nat /\ i \in Nat /\ i >= 1 /\ i <= Len(s)
  OBVIOUS
<1>2. a \in Seq(S) /\ Len(a) = i - 1 /\ b \in Seq(S) /\ Len(b) = Len(s) - i
  OBVIOUS
<1>3. RemoveAt(s, i) = a \o b
  BY DEF RemoveAt
<1> HIDE DEF a, b
<1>4. a \o b \in Seq(S) /\ Len(a \o b) = Len(a) + Len(b)
  BY <1>2, ConcatProperties
<1>5. Len(a) + Len(b) = Len(s) - 1
  BY <1>1, <1>2
<1> QED
  BY <1>3, <1>4, <1>5

LEMMA ParsedType ==
    ASSUME TypeInv, NEW r \in Region, NEW i, Parsed(r, i)
    PROVE  /\ mon' \in [Region -> Stations] /\ work' \in [Region -> Seq(Sig)]
           /\ \A q \in Region : mon'[q] = "work" <=> work'[q] # <<>>
           /\ work[r][i] \in Sig
           /\ UNCHANGED <<backoff, reader, wire, queue>>
<1>1. work[r] \in Seq(Sig) /\ i \in 1 .. Len(work[r])
  BY DEF TypeInv, TypeOK, Parsed
<1>2. RemoveAt(work[r], i) \in Seq(Sig) /\ Len(RemoveAt(work[r], i)) = Len(work[r]) - 1
  BY <1>1, RemoveAtType
<1>3. Len(work[r]) = 1 <=> RemoveAt(work[r], i) = <<>>
  <2> DEFINE left == RemoveAt(work[r], i)
  <2>1. left \in Seq(Sig) /\ Len(left) = Len(work[r]) - 1 /\ Len(work[r]) \in Nat
    BY <1>1, <1>2, LenProperties
  <2> HIDE DEF left
  <2>2. left = <<>> <=> Len(left) = 0
    BY <2>1, EmptySeq
  <2>3. left = <<>> <=> Len(work[r]) = 1
    BY <2>1, <2>2
  <2> QED
    BY <2>3 DEF left
<1>4. /\ work' = [work EXCEPT ![r] = RemoveAt(work[r], i)]
      /\ mon' = [mon EXCEPT ![r] = IF Len(work[r]) = 1 THEN "recv" ELSE "work"]
      /\ UNCHANGED <<backoff, reader, wire, queue>>
  BY DEF Parsed, Goto
<1> DEFINE left == RemoveAt(work[r], i)
<1>5. left \in Seq(Sig) /\ (Len(work[r]) = 1 <=> left = <<>>)
  BY <1>2, <1>3
<1> HIDE DEF left
<1>6. work' = [work EXCEPT ![r] = left]
  BY <1>4 DEF left
<1>7. work' \in [Region -> Seq(Sig)] /\ mon' \in [Region -> Stations]
  BY <1>4, <1>5, <1>6 DEF TypeInv, TypeOK, Stations
<1>8. \A q \in Region : mon'[q] = "work" <=> work'[q] # <<>>
  BY <1>4, <1>5, <1>6 DEF TypeInv, TypeOK
<1> QED
  BY <1>1, <1>4, <1>7, <1>8

LEMMA NextType == TypeInv /\ [Next]_vars => TypeInv'
<1> SUFFICES ASSUME TypeInv, [Next]_vars PROVE TypeInv'
  OBVIOUS
<1> USE CapAssumption, BatchAssumption DEF TypeInv, TypeOK, NoBatch
<1>1. ASSUME NEW r \in Region, Dial(r) PROVE TypeInv'
  <2>1. UNCHANGED <<wire, queue, work, seen, chan, offered>>
    BY <1>1 DEF Dial, GiveUpUrl, Connected, Refused, Subscribed
  <2>2. PICK x \in {"gone", "subscribe", "backoff", "recv"} : Goto(r, x)
    BY <1>1 DEF Dial, GiveUpUrl, Connected, Refused, Subscribed
  <2>3. mon[r] \in {"connect", "subscribe"}
    BY <1>1 DEF Dial, GiveUpUrl, Connected, Refused, Subscribed
  <2>4. mon' = [mon EXCEPT ![r] = x] /\ x \in Stations /\ x # "work" /\ mon[r] # "work"
    BY <2>2, <2>3 DEF Goto, Stations
  <2>5. mon' \in [Region -> Stations] /\ \A q \in Region : mon'[q] = "work" <=> work[q] # <<>>
    BY <2>4
  <2>6. backoff' \in [Region -> Backoffs] /\ reader' \in [Region -> {"none", "reading", "ended"}]
    <3>1. 250 \in Backoffs
      BY DEF Backoffs
    <3> QED
      BY <1>1, <3>1 DEF Dial, GiveUpUrl, Connected, Refused, Subscribed
  <2> QED
    BY <2>1, <2>5, <2>6
<1>2. ASSUME NEW r \in Region, Retry(r) PROVE TypeInv'
  <2>1. \A n \in Backoffs : (IF 2 * n < 5000 THEN 2 * n ELSE 5000) \in Backoffs
    BY DEF Backoffs
  <2>2. backoff' \in [Region -> Backoffs]
    BY <1>2, <2>1 DEF Retry
  <2> QED
    BY <1>2, <2>2 DEF Retry, Goto, Stations
<1>3. ASSUME NEW r \in Region, NEW b \in Batches, Arrive(r, b) PROVE TypeInv'
  BY <1>3 DEF Arrive, link
<1>4. ASSUME NEW r \in Region, StreamEnds(r) PROVE TypeInv'
  BY <1>4 DEF StreamEnds
<1>5. ASSUME NEW r \in Region, Read(r) PROVE TypeInv'
  <2> DEFINE full == IF Len(queue[r]) < QueueCap THEN Append(queue[r], wire[r]) ELSE queue[r]
  <2>1. full \in Seq(Seq(Sig) \ {NoBatch}) /\ full \in Seq(Seq(Sig)) /\ Len(full) <= QueueCap
    BY <1>5 DEF Read
  <2>2. queue' = [queue EXCEPT ![r] = full] /\ wire' = [wire EXCEPT ![r] = <<>>]
        /\ UNCHANGED <<mon, backoff, reader, work, seen, chan, offered>>
    BY <1>5 DEF Read, link
  <2> HIDE DEF full
  <2> QED
    BY <2>1, <2>2
<1>6. ASSUME NEW r \in Region, queue[r] # <<>>
      PROVE  /\ Head(queue[r]) \in Seq(Sig) \ {<<>>}
             /\ [queue EXCEPT ![r] = Tail(@)] \in [Region -> Seq(Seq(Sig) \ {<<>>})]
             /\ [queue EXCEPT ![r] = Tail(@)] \in [Region -> Seq(Seq(Sig))]
             /\ \A q \in Region : Len([queue EXCEPT ![r] = Tail(@)][q]) <= QueueCap
  <2>1. /\ Head(queue[r]) \in Seq(Sig) \ {<<>>}
        /\ Tail(queue[r]) \in Seq(Seq(Sig) \ {<<>>}) /\ Tail(queue[r]) \in Seq(Seq(Sig))
        /\ Len(Tail(queue[r])) <= QueueCap
    BY <1>6
  <2> QED
    BY <2>1
<1>7. ASSUME NEW r \in Region, TakeBatch(r) PROVE TypeInv'
  BY <1>7, <1>6 DEF TakeBatch, Goto, Stations
<1>8. ASSUME NEW r \in Region, SkipBatch(r) PROVE TypeInv'
  BY <1>8, <1>6 DEF SkipBatch, link
<1>9. ASSUME NEW r \in Region, NEW i, NoSignal(r, i) PROVE TypeInv'
  BY <1>9, ParsedType DEF NoSignal
<1>10. ASSUME NEW r \in Region, NEW i, Signal(r, i) PROVE TypeInv'
  <2> DEFINE x == work[r][i]
  <2>1. Parsed(r, i) /\ seen' = [seen EXCEPT ![r] = @ \cup {x}]
        /\ chan' = (IF Len(chan) < OutCap THEN Append(chan, x) ELSE chan)
        /\ offered' = [offered EXCEPT ![r][x] = IF @ < MaxOffers THEN @ + 1 ELSE @]
    BY <1>10 DEF Signal
  <2>2. x \in Sig
    BY <2>1, ParsedType
  <2> HIDE DEF x
  <2>3. seen' \in [Region -> SUBSET Sig]
    BY <2>1, <2>2
  <2>4. chan' \in Seq(Sig) /\ Len(chan') <= OutCap
    BY <2>1, <2>2
  <2>5. offered' \in [Region -> [Sig -> 0 .. MaxOffers]]
    BY <2>1, <2>2
  <2> QED
    BY <2>1, <2>3, <2>4, <2>5, ParsedType
<1>11. ASSUME NEW r \in Region, Drained(r) \/ Redial(r) PROVE TypeInv'
  BY <1>11 DEF Drained, Redial, Goto, Stations
<1>12. ASSUME NEW r \in Region, NEW s \in Sig, Expire(r, s) PROVE TypeInv'
  BY <1>12 DEF Expire, link
<1>13. ASSUME Consume PROVE TypeInv'
  BY <1>13 DEF Consume, link
<1>14. ASSUME UNCHANGED vars PROVE TypeInv'
  BY <1>14 DEF vars, link
<1> QED
  BY <1>1, <1>2, <1>3, <1>4, <1>5, <1>7, <1>8, <1>9, <1>10, <1>11, <1>12, <1>13, <1>14
     DEF Next, RegionStep, Proxy, ParserStep, Result

(* Queues and channel stay within their capacities, the backoff within its  *)
(* five steps, and the parser is at work exactly while it has transactions. *)
THEOREM TypeCorrect == SafeSpec => []TypeOK
<1>1. Init => TypeInv
  BY CapAssumption DEF Init, TypeInv, TypeOK, Stations, Backoffs, NoBatch
<1>2. TypeInv => TypeOK
  BY DEF TypeInv
<1> QED
  BY <1>1, <1>2, NextType, PTL DEF SafeSpec

---------------------------------------------------------------------------
(* Streams.  A reader exists exactly while the monitor is in its parser     *)
(* loop, and only a reader that is reading has a message in hand.           *)

StreamInv ==
    /\ mon = [r \in Region |-> mon[r]]
    /\ reader = [r \in Region |-> reader[r]]
    /\ wire = [r \in Region |-> wire[r]]
    /\ queue = [r \in Region |-> queue[r]]
    /\ \A r \in Region :
          /\ mon[r] \notin {"recv", "work"} => reader[r] = "none" /\ queue[r] = <<>>
          /\ reader[r] # "reading" => wire[r] = NoBatch

LEMMA NextStream == StreamInv /\ [Next]_vars => StreamInv'
<1> SUFFICES ASSUME StreamInv, [Next]_vars PROVE StreamInv'
  OBVIOUS
<1> USE DEF StreamInv
<1>1. ASSUME UNCHANGED <<mon, reader, wire, queue>> PROVE StreamInv'
  BY <1>1
<1>2. ASSUME NEW r \in Region, GiveUpUrl(r) \/ Connected(r) \/ Refused(r) \/ Redial(r)
      PROVE  StreamInv'
  BY <1>2 DEF GiveUpUrl, Connected, Refused, Redial, Goto
<1>3. ASSUME NEW r \in Region, Retry(r) \/ Subscribed(r) PROVE StreamInv'
  BY <1>3 DEF Retry, Subscribed, Goto
<1>4. ASSUME NEW r \in Region, NEW b, Arrive(r, b) PROVE StreamInv'
  BY <1>4 DEF Arrive, link
<1>5. ASSUME NEW r \in Region, StreamEnds(r) PROVE StreamInv'
  BY <1>5 DEF StreamEnds
<1>6. ASSUME NEW r \in Region, Read(r) PROVE StreamInv'
  <2>1. reader[r] = "reading" /\ mon[r] \in {"recv", "work"}
    BY <1>6 DEF Read
  <2> QED
    BY <1>6, <2>1 DEF Read, link
<1>7. ASSUME NEW r \in Region, TakeBatch(r) PROVE StreamInv'
  BY <1>7 DEF TakeBatch, Goto
<1>8. ASSUME NEW r \in Region, SkipBatch(r) PROVE StreamInv'
  BY <1>8 DEF SkipBatch, link
<1>9. ASSUME NEW r \in Region, NEW i, NoSignal(r, i) \/ Signal(r, i) PROVE StreamInv'
  <2>1. Parsed(r, i)
    BY <1>9 DEF NoSignal, Signal
  <2> QED
    BY <2>1 DEF Parsed, Goto
<1>10. ASSUME NEW r \in Region, Drained(r) PROVE StreamInv'
  BY <1>10 DEF Drained, Goto
<1>11. ASSUME NEW r \in Region, NEW s, Expire(r, s) PROVE StreamInv'
  BY <1>11, <1>1 DEF Expire, link
<1>12. ASSUME Consume PROVE StreamInv'
  BY <1>12, <1>1 DEF Consume, link
<1>13. ASSUME UNCHANGED vars PROVE StreamInv'
  BY <1>13, <1>1 DEF vars, link
<1> QED
  BY <1>2, <1>3, <1>4, <1>5, <1>6, <1>7, <1>8, <1>9, <1>10, <1>11, <1>12, <1>13
     DEF Next, RegionStep, Dial, Proxy, ParserStep, Result

(* The monitor redials only after the reader is gone and its queue drained: *)
(* batches of two streams are never mixed and no reader is left behind.     *)
THEOREM NoReaderLeftBehind == SafeSpec => []DrainedBeforeRedial
<1>1. Init => StreamInv
  BY DEF Init, StreamInv
<1>2. StreamInv => DrainedBeforeRedial
  BY DEF StreamInv, DrainedBeforeRedial
<1> QED
  BY <1>1, <1>2, NextStream, PTL DEF SafeSpec

---------------------------------------------------------------------------
(* Deduplication.  Whatever was offered within its window is in sig_dedup.  *)

OfferInv ==
    /\ seen = [r \in Region |-> seen[r]]
    /\ offered \in [Region -> [Sig -> 0 .. MaxOffers]]
    /\ \A r \in Region, s \in Sig :
          offered[r][s] <= 1 /\ (offered[r][s] > 0 => s \in seen[r])

LEMMA NextOffer == OfferInv /\ [Next]_vars => OfferInv'
<1> SUFFICES ASSUME OfferInv, [Next]_vars PROVE OfferInv'
  OBVIOUS
<1> USE CapAssumption DEF OfferInv
<1>1. ASSUME UNCHANGED <<seen, offered>> PROVE OfferInv'
  BY <1>1
<1>2. ASSUME NEW r \in Region, NEW i, Signal(r, i) PROVE OfferInv'
  <2> DEFINE x == work[r][i]
  <2>1. x \notin seen[r] /\ seen' = [seen EXCEPT ![r] = @ \cup {x}]
        /\ offered' = [offered EXCEPT ![r][x] = IF @ < MaxOffers THEN @ + 1 ELSE @]
    BY <1>2 DEF Signal
  <2> HIDE DEF x
  <2>2. x \in Sig => offered[r][x] = 0
    BY <2>1
  <2>3. offered' \in [Region -> [Sig -> 0 .. MaxOffers]]
    <3>1. ASSUME NEW n \in 0 .. MaxOffers
          PROVE  (IF n < MaxOffers THEN n + 1 ELSE n) \in 0 .. MaxOffers
      OBVIOUS
    <3>2. CASE x \in Sig
      BY <2>1, <2>2, <3>1, <3>2
    <3>3. CASE x \notin Sig
      BY <2>1, <3>3
    <3> QED
      BY <3>2, <3>3
  <2>4. ASSUME NEW q \in Region, NEW s \in Sig
        PROVE  offered'[q][s] <= 1 /\ (offered'[q][s] > 0 => s \in seen'[q])
    BY <2>1, <2>2
  <2>5. seen' = [q \in Region |-> seen'[q]]
    BY <2>1
  <2> QED
    BY <2>3, <2>4, <2>5
<1>3. ASSUME NEW r \in Region, NEW s \in Sig, Expire(r, s) PROVE OfferInv'
  <2>1. seen' = [seen EXCEPT ![r] = @ \ {s}] /\ offered' = [offered EXCEPT ![r][s] = 0]
    BY <1>3 DEF Expire
  <2>2. offered' \in [Region -> [Sig -> 0 .. MaxOffers]]
    BY <2>1
  <2>3. ASSUME NEW q \in Region, NEW t \in Sig
        PROVE  offered'[q][t] <= 1 /\ (offered'[q][t] > 0 => t \in seen'[q])
    BY <2>1
  <2>4. seen' = [q \in Region |-> seen'[q]]
    BY <2>1
  <2> QED
    BY <2>2, <2>3, <2>4
<1>4. ASSUME NEW r \in Region, Dial(r) PROVE OfferInv'
  BY <1>4, <1>1 DEF Dial, GiveUpUrl, Connected, Refused, Subscribed
<1>5. ASSUME NEW r \in Region, Proxy(r) \/ Read(r) PROVE OfferInv'
  BY <1>5, <1>1 DEF Proxy, Arrive, StreamEnds, Read
<1>6. ASSUME NEW r \in Region, ParserStep(r) PROVE OfferInv'
  BY <1>6, <1>1 DEF ParserStep, TakeBatch, SkipBatch, Drained, Redial, Retry
<1>7. ASSUME NEW r \in Region, NEW i, NoSignal(r, i) PROVE OfferInv'
  BY <1>7, <1>1 DEF NoSignal
<1>8. ASSUME Consume PROVE OfferInv'
  BY <1>8, <1>1 DEF Consume
<1>9. ASSUME UNCHANGED vars PROVE OfferInv'
  BY <1>9, <1>1 DEF vars
<1> QED
  BY <1>2, <1>3, <1>4, <1>5, <1>6, <1>7, <1>8, <1>9 DEF Next, RegionStep, Result

(* A region offers a signature at most once per TTL, across any number of   *)
(* reconnects and repetitions.                                              *)
THEOREM SignatureOfferedOnce == SafeSpec => []OfferedOnce
<1>1. Init => OfferInv
  BY CapAssumption DEF Init, OfferInv
<1>2. OfferInv => OfferedOnce
  BY DEF OfferInv, OfferedOnce
<1> QED
  BY <1>1, <1>2, NextOffer, PTL DEF SafeSpec
=============================================================================
