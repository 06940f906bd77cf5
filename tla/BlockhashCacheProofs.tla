------------------------ MODULE BlockhashCacheProofs ------------------------
(***************************************************************************)
(* Proofs about BlockhashCache, for any callers, settings and latencies.   *)
(***************************************************************************)
EXTENDS BlockhashCache, TLAPS

LEMMA SleepTypes ==
    ASSUME refresh \in RefreshMs
    PROVE  /\ refresh \in Nat
           /\ Period \in Nat \ {0} /\ LongestSleep \in Nat \ {0}
           /\ Period <= LongestSleep /\ MaxBackoff <= LongestSleep
BY TimeAssumption DEF Period, LongestSleep, AtLeast

---------------------------------------------------------------------------
(* Types, and: an answer is no older than its request.                      *)

Answers ==
    \A p \in Client : reply[p] <= waited[p] /\ (request[p] = "none" => reply[p] = NoHash)

Typed == TypeOK /\ Answers

LEMMA InitTyped == Init => Typed
<1> SUFFICES ASSUME Init PROVE Typed
  OBVIOUS
<1> QED
  BY SleepTypes, TimeAssumption DEF Init, Typed, TypeOK, Answers, NoHash

LEMMA NextTyped == Typed /\ [Next]_vars => Typed'
<1> SUFFICES ASSUME Typed, [Next]_vars PROVE Typed'
  OBVIOUS
<1> USE SleepTypes, TimeAssumption DEF Typed, TypeOK, Answers, NoHash, requests, loop
<1>0. Refresher \in Client /\ \A c \in Caller : c \in Client
  BY DEF Client
<1>1. ASSUME NEW p \in Client, Send(p) PROVE Typed'
  <2>1. UNCHANGED <<refresh, latest, reply, left, backoff, fails, LongestSleep>>
    BY <1>1 DEF Send, LongestSleep, Period
  <2>2. request' \in [Client -> {"none", "sent", "answered"}]
    BY <1>1 DEF Send
  <2>3. waited' \in [Client -> 0 .. Latency]
    BY <1>1 DEF Send
  <2> QED
    BY <2>1, <2>2, <2>3, <1>1 DEF Send
<1>2. ASSUME NEW p \in Client, Sample(p) PROVE Typed'
  <2>1. UNCHANGED <<refresh, latest, waited, left, backoff, fails, LongestSleep>>
    BY <1>2 DEF Sample, LongestSleep, Period
  <2>2. request' \in [Client -> {"none", "sent", "answered"}]
    BY <1>2 DEF Sample
  <2>3. reply' \in [Client -> -1 .. Latency]
    BY <1>2 DEF Sample
  <2> QED
    BY <2>1, <2>2, <2>3, <1>2 DEF Sample
<1>3. ASSUME NEW p \in Client, Done(p), latest' \in -1 .. MaxAge,
             left' \in 0 .. LongestSleep, backoff' \in 1 .. LongestSleep,
             fails' \in 0 .. MaxFails
      PROVE  Typed'
  <2>1. UNCHANGED <<refresh, waited, LongestSleep>>
    BY <1>3 DEF Done, LongestSleep, Period
  <2>2. request' \in [Client -> {"none", "sent", "answered"}]
    BY <1>3 DEF Done
  <2>3. reply' \in [Client -> -1 .. Latency]
    BY <1>3 DEF Done
  <2> QED
    BY <2>1, <2>2, <2>3, <1>3 DEF Done
<1>4. ASSUME Tick PROVE Typed'
  <2>1. UNCHANGED <<refresh, request, backoff, fails, LongestSleep>>
    BY <1>4 DEF Tick, LongestSleep, Period
  <2>2. latest' \in -1 .. MaxAge /\ left' \in 0 .. LongestSleep
    BY <1>4 DEF Tick, Older, AtMost, AtLeast
  <2>3. waited' \in [Client -> 0 .. Latency]
    BY <1>4 DEF Tick
  <2>4. reply' \in [Client -> -1 .. Latency]
    BY <1>4 DEF Tick, Older, AtMost
  <2>5. Answers'
    BY <1>4 DEF Tick, Older, AtMost
  <2> QED
    BY <2>1, <2>2, <2>3, <2>4, <2>5
<1>5. ASSUME Refreshed PROVE Typed'
  <2>1. reply[Refresher] \in -1 .. MaxAge
    BY <1>0
  <2> QED
    BY <2>1, <1>0, <1>3, <1>5 DEF Refreshed
<1>6. ASSUME RefreshFails PROVE Typed'
  BY <1>0, <1>3, <1>6 DEF RefreshFails, AtMost
<1>7. ASSUME NEW c \in Caller, Fetched(c) PROVE Typed'
  <2>1. reply[c] \in -1 .. MaxAge
    BY <1>0
  <2> QED
    BY <2>1, <1>0, <1>3, <1>7 DEF Fetched
<1>8. ASSUME NEW c \in Caller, FetchFails(c) PROVE Typed'
  BY <1>0, <1>3, <1>8 DEF FetchFails
<1>9. ASSUME UNCHANGED vars PROVE Typed'
  BY <1>9 DEF vars, LongestSleep, Period
<1> QED
  BY <1>0, <1>1, <1>2, <1>4, <1>5, <1>6, <1>7, <1>8, <1>9
     DEF Next, RefresherStep, CallerStep, Refresh, Fetch

(* Whatever the node answers and when: the cache, the requests and the      *)
(* backoff keep their types; a backoff never exceeds the longer of the      *)
(* period and twenty seconds.                                               *)
THEOREM TypeCorrect == SafeSpec => []TypeOK
<1>1. Typed => TypeOK
  BY DEF Typed
<1> QED
  BY <1>1, InitTyped, NextTyped, PTL DEF SafeSpec

---------------------------------------------------------------------------
(* The age of the cached hash, followed through the refresher's cycle.      *)

Cost == LongestSleep + Latency
Asking == request[Refresher] # "none"

(* What is left of the sleep is what the hash may still age before the next *)
(* request; then it ages with the request.                                  *)
AgeInv ==
    refresh > 0 =>
        /\ fails = 0 => left <= Period
        /\ Asking => left = 0
        /\ fails < MaxFails =>
             latest <= IF Asking THEN Period + Latency + waited[Refresher] + fails * Cost
                                 ELSE Period + Latency - left + fails * Cost

LEMMA CostGrows ==
    ASSUME NEW f \in Nat, NEW c \in Nat
    PROVE  f * c \in Nat /\ (f + 1) * c = f * c + c /\ (f > 0 => f * c >= c) /\ 0 * c = 0
<1>1. f * c \in Nat /\ (f + 1) * c = f * c + c /\ 0 * c = 0
  OBVIOUS
<1>2. ASSUME f > 0 PROVE f * c >= c
  <2>1. f - 1 \in Nat /\ (f - 1) * c \in Nat
    BY <1>2
  <2>2. f * c = (f - 1) * c + c
    BY <2>1
  <2> QED
    BY <2>1, <2>2
<1> QED
  BY <1>1, <1>2

LEMMA NextAge == Typed /\ AgeInv /\ [Next]_vars => AgeInv'
<1> SUFFICES ASSUME Typed, AgeInv, [Next]_vars PROVE AgeInv'
  OBVIOUS
<1>a. refresh \in Nat
  BY TimeAssumption DEF Typed, TypeOK
<1>b. refresh' = refresh
  <2>1. CASE RefresherStep
    BY <2>1 DEF RefresherStep, Refresh, Send, Refreshed, RefreshFails, Done
  <2>2. ASSUME NEW c \in Caller, Fetch(c) PROVE refresh' = refresh
    BY <2>2 DEF Fetch, Send
  <2>3. ASSUME NEW c \in Caller, CallerStep(c) PROVE refresh' = refresh
    BY <2>3 DEF CallerStep, Fetched, FetchFails, Done
  <2>4. CASE \E p \in Client : Sample(p)
    BY <2>4 DEF Sample
  <2>5. CASE Tick
    BY <2>5 DEF Tick
  <2>6. CASE UNCHANGED vars
    BY <2>6 DEF vars
  <2> QED
    BY <2>1, <2>2, <2>3, <2>4, <2>5, <2>6 DEF Next
<1> SUFFICES ASSUME refresh > 0 PROVE AgeInv'
  BY <1>a, <1>b DEF AgeInv
<1> USE DEF NoHash
<1>0. /\ Refresher \in Client /\ \A c \in Caller : c \in Client /\ c # Refresher
      /\ refresh \in Nat /\ Period \in Nat \ {0} /\ LongestSleep \in Nat \ {0}
      /\ Period <= LongestSleep /\ Latency \in Nat \ {0} /\ MaxFails \in Nat \ {0}
      /\ Cost \in Nat /\ Cost = LongestSleep + Latency
      /\ fails \in Nat /\ left \in Nat /\ left <= LongestSleep /\ latest \in Int
      /\ backoff \in Nat /\ backoff <= LongestSleep
      /\ \A p \in Client : /\ waited[p] \in Nat /\ waited[p] <= Latency
                           /\ reply[p] \in Int /\ reply[p] <= Latency
  BY SleepTypes, ClientAssumption, TimeAssumption DEF Typed, TypeOK, Client, Answers, Cost
<1>1. /\ fails * Cost \in Nat /\ (fails + 1) * Cost = fails * Cost + Cost
      /\ fails > 0 => fails * Cost >= Cost
      /\ 0 * Cost = 0
  BY <1>0, CostGrows
<1>2. ASSUME UNCHANGED <<refresh, fails, left, latest>>,
             Asking' = Asking, waited'[Refresher] = waited[Refresher]
      PROVE  AgeInv'
  BY <1>2 DEF AgeInv, Period, Cost, LongestSleep
<1>3. refresh' = refresh => Period' = Period /\ Cost' = Cost
  BY DEF Period, Cost, LongestSleep
<1>4. ASSUME Refresh PROVE AgeInv'
  <2>1. /\ UNCHANGED <<refresh, latest, left, fails>>
        /\ ~Asking /\ Asking' /\ waited'[Refresher] = 0 /\ left = 0
    BY <1>4, <1>0 DEF Refresh, Ready, Send, Asking, Typed, TypeOK, loop
  <2> QED
    BY <2>1, <1>0, <1>1, <1>3 DEF AgeInv
<1>5. ASSUME Refreshed PROVE AgeInv'
  <2>1. /\ UNCHANGED refresh
        /\ latest' = reply[Refresher] /\ left' = Period /\ fails' = 0 /\ ~Asking'
    BY <1>5, <1>0 DEF Refreshed, Done, Asking, Typed, TypeOK
  <2> QED
    BY <2>1, <1>0, <1>1, <1>3 DEF AgeInv
<1>6. ASSUME RefreshFails PROVE AgeInv'
  <2>1. /\ UNCHANGED <<refresh, latest>>
        /\ left' = backoff /\ fails' = AtMost(fails + 1, MaxFails) /\ Asking /\ ~Asking'
    BY <1>6, <1>0 DEF RefreshFails, Done, Asking, Typed, TypeOK
  <2>2. fails' > 0 /\ (fails' < MaxFails => fails' = fails + 1 /\ fails < MaxFails)
    BY <2>1, <1>0 DEF AtMost
  <2>3. ASSUME fails' < MaxFails
        PROVE  latest' <= Period' + Latency - left' + fails' * Cost'
    <3>1. fails' * Cost = fails * Cost + Cost
      BY <2>2, <2>3, <1>1
    <3>2. latest <= Period + Latency + waited[Refresher] + fails * Cost
      BY <2>1, <2>2, <2>3 DEF AgeInv
    <3>3. latest <= Period + Latency - backoff + (fails * Cost + Cost)
      BY <3>2, <2>1, <1>0, <1>1
    <3>4. Period' = Period /\ Cost' = Cost
      BY <2>1, <1>3
    <3> QED
      BY <3>1, <3>3, <3>4, <2>1
  <2> QED
    BY <2>1, <2>2, <2>3, <1>0 DEF AgeInv
<1>7. ASSUME NEW c \in Caller, Fetched(c) PROVE AgeInv'
  <2>1. /\ UNCHANGED <<refresh, left, fails, waited>>
        /\ latest' = reply[c] /\ Asking' = Asking
    BY <1>7, <1>0 DEF Fetched, Done, Asking, Typed, TypeOK, loop
  <2>2. left <= Period + fails * Cost
    BY <1>0, <1>1 DEF AgeInv
  <2> QED
    BY <2>1, <2>2, <1>0, <1>1, <1>3 DEF AgeInv
<1>8. ASSUME NEW c \in Caller, FetchFails(c) \/ Fetch(c) PROVE AgeInv'
  <2>1. /\ UNCHANGED <<refresh, left, fails, latest>> /\ Asking' = Asking
        /\ waited'[Refresher] = waited[Refresher]
    BY <1>8, <1>0 DEF FetchFails, Fetch, Send, Done, Asking, Typed, TypeOK, loop
  <2> QED
    BY <2>1, <1>2
<1>9. ASSUME NEW p \in Client, Sample(p) PROVE AgeInv'
  <2>1. /\ UNCHANGED <<refresh, left, fails, latest>> /\ Asking' = Asking
        /\ waited'[Refresher] = waited[Refresher]
    BY <1>9, <1>0 DEF Sample, Asking, Typed, TypeOK, loop
  <2> QED
    BY <2>1, <1>2
<1>10. ASSUME Tick PROVE AgeInv'
  <2>1. /\ UNCHANGED <<refresh, fails>> /\ Asking' = Asking
        /\ latest' <= latest + 1 /\ latest' \in Int
        /\ left' = AtLeast(left - 1, 0)
        /\ Asking => waited'[Refresher] = waited[Refresher] + 1
        /\ Asking \/ left > 0
    <3>1. UNCHANGED <<refresh, fails, request>> /\ left' = AtLeast(left - 1, 0)
      BY <1>10 DEF Tick
    <3>2. latest' <= latest + 1 /\ latest' \in Int
      <4>1. latest' = Older(latest, MaxAge) /\ latest \in -1 .. MaxAge /\ MaxAge \in Nat
        BY <1>10, TimeAssumption DEF Tick, Typed, TypeOK
      <4> QED
        BY <4>1 DEF Older, AtMost
    <3>3. Asking => waited'[Refresher] = waited[Refresher] + 1
      BY <1>10, <1>0 DEF Tick, Asking
    <3>4. Asking \/ left > 0
      BY <1>10, <1>0 DEF Tick, Ready, Asking
    <3> QED
      BY <3>1, <3>2, <3>3, <3>4 DEF Asking
  <2>2. left' \in Nat /\ left' <= left /\ (left > 0 => left' = left - 1)
    BY <2>1, <1>0 DEF AtLeast
  <2> QED
    BY <2>1, <2>2, <1>0, <1>1, <1>3 DEF AgeInv
<1>11. ASSUME UNCHANGED vars PROVE AgeInv'
  BY <1>11, <1>2 DEF vars, requests, loop, Asking
<1> QED
  BY <1>4, <1>5, <1>6, <1>7, <1>8, <1>9, <1>10, <1>11
     DEF Next, RefresherStep, CallerStep

(* For every period and latency, any number of callers and whatever fails:  *)
(* the hash handed out is at most a period and two requests old, and each   *)
(* failed refresh adds at most the longest sleep and a request.             *)
THEOREM AgeIsBounded == SafeSpec => []AgeBounded
<1>1. Init => AgeInv
  <2> SUFFICES ASSUME Init PROVE AgeInv
    OBVIOUS
  <2>1. Typed /\ latest = -1 /\ left = 0 /\ fails = 0 /\ ~Asking
    BY InitTyped, ClientAssumption DEF Init, NoHash, Asking, Client
  <2>2. Period \in Nat \ {0} /\ Cost \in Nat /\ 0 * Cost = 0 /\ Latency \in Nat
    BY <2>1, SleepTypes, TimeAssumption DEF Typed, TypeOK, Cost
  <2> QED
    BY <2>1, <2>2 DEF AgeInv
<1>2. Typed /\ AgeInv => AgeBounded
  <2> SUFFICES ASSUME Typed, AgeInv, refresh > 0, fails < MaxFails
               PROVE  latest <= FreshAge + fails * (LongestSleep + Latency)
    BY DEF AgeBounded
  <2>1. /\ Period \in Nat /\ Latency \in Nat /\ left \in Nat /\ latest \in Int
        /\ waited[Refresher] \in Nat /\ waited[Refresher] <= Latency
        /\ fails \in Nat /\ Cost \in Nat
    BY SleepTypes, TimeAssumption DEF Typed, TypeOK, Client, Cost, NoHash
  <2>2. fails * Cost \in Nat /\ fails * Cost = fails * (LongestSleep + Latency)
    BY <2>1, CostGrows DEF Cost
  <2>3. latest <= Period + 2 * Latency + fails * Cost
    BY <2>1, <2>2 DEF AgeInv
  <2> QED
    BY <2>2, <2>3 DEF FreshAge
<1> QED
  BY <1>1, <1>2, InitTyped, NextTyped, NextAge, PTL DEF SafeSpec
=============================================================================
