--------------------------- MODULE BlockhashCache ---------------------------
(***************************************************************************)
(* blockhash_cache.rs: the background refresher with its backoff, and the  *)
(* callers of get_or_fetch (the WSOL bootstrap, the builders), all of them *)
(* asking the RPC node and writing one shared slot.                        *)
(*                                                                         *)
(* A blockhash is known by its age, the time since the node took it.  Time *)
(* advances in ticks; a request is answered or fails within Latency, and   *)
(* the refresher task runs as soon as its sleep is over.                   *)
(*                                                                         *)
(* An operator X_Mut before X is X with a plausible bug; it is used only   *)
(* to show that a property notices the bug.                                *)
(***************************************************************************)
EXTENDS Integers

CONSTANTS Caller, Refresher,
          RefreshMs,   \* settings of refresh_ms; 0 switches the refresher off
          Floor,       \* the code's 50 ms
          MaxBackoff,  \* the code's 20 s
          Latency,     \* the RPC client's timeout
          MaxAge,      \* bound: ages saturate here
          MaxFails     \* bound: the history fails saturates here

Client == Caller \cup {Refresher}
NoHash == -1

ASSUME ClientAssumption == Refresher \notin Caller
ASSUME TimeAssumption ==
    /\ RefreshMs \subseteq Nat
    /\ Floor \in Nat \ {0} /\ MaxBackoff \in Nat \ {0} /\ Latency \in Nat \ {0}
    /\ MaxAge \in Nat /\ MaxAge >= Latency /\ MaxFails \in Nat \ {0}

VARIABLES refresh,  \* refresh_ms, chosen at start
          latest,   \* age of the cached hash, or NoHash
          request,  \* per client: "none", "sent", "answered"
          waited,   \* per client: how long its request has been under way
          reply,    \* per client: age of the hash in its answer, or NoHash
          left,     \* rest of the refresher's sleep
          backoff,  \* backoff_ms
          fails     \* history: refreshes failed since the last one that worked

requests == <<request, waited, reply>>
loop == <<left, backoff, fails>>
vars == <<refresh, latest, requests, loop>>

AtLeast(a, b) == IF a >= b THEN a ELSE b
AtMost(a, b) == IF a <= b THEN a ELSE b

Period == AtLeast(refresh, Floor)
LongestSleep == AtLeast(Period, MaxBackoff)

TypeOK ==
    /\ refresh \in RefreshMs
    /\ latest \in NoHash .. MaxAge
    /\ request \in [Client -> {"none", "sent", "answered"}]
    /\ waited \in [Client -> 0 .. Latency]
    /\ reply \in [Client -> NoHash .. Latency]
    /\ left \in 0 .. LongestSleep
    /\ backoff \in 1 .. LongestSleep
    /\ fails \in 0 .. MaxFails

Init ==
    /\ refresh \in RefreshMs
    /\ latest = NoHash
    /\ request = [p \in Client |-> "none"]
    /\ waited = [p \in Client |-> 0]
    /\ reply = [p \in Client |-> NoHash]
    /\ left = 0 /\ fails = 0
    /\ backoff = Period

---------------------------------------------------------------------------
(* Requests.                                                                *)

Send(p) ==
    /\ request[p] = "none"
    /\ request' = [request EXCEPT ![p] = "sent"]
    /\ waited' = [waited EXCEPT ![p] = 0]
    /\ UNCHANGED <<refresh, latest, reply, loop>>

(* The node takes its latest hash; the answer is on its way.                *)
Sample(p) ==
    /\ request[p] = "sent"
    /\ request' = [request EXCEPT ![p] = "answered"]
    /\ reply' = [reply EXCEPT ![p] = 0]
    /\ UNCHANGED <<refresh, latest, waited, loop>>

Done(p) ==
    /\ request' = [request EXCEPT ![p] = "none"]
    /\ reply' = [reply EXCEPT ![p] = NoHash]
    /\ UNCHANGED <<refresh, waited>>

---------------------------------------------------------------------------
(* The refresher.                                                           *)

Ready == refresh > 0 /\ request[Refresher] = "none" /\ left = 0

Refresh == Ready /\ Send(Refresher)

Refreshed_Mut ==
    /\ request[Refresher] = "answered"
    /\ latest' = reply[Refresher]
    /\ left' = backoff /\ backoff' = Period /\ fails' = 0
    /\ Done(Refresher)
Refreshed ==
    /\ request[Refresher] = "answered"
    /\ latest' = reply[Refresher]
    /\ left' = Period /\ backoff' = Period /\ fails' = 0
    /\ Done(Refresher)

(* A failure is slept off; the next sleep after a failure is twice as long. *)
RefreshFails_Mut ==
    /\ request[Refresher] # "none"
    /\ left' = backoff
    /\ backoff' = 2 * backoff
    /\ fails' = AtMost(fails + 1, MaxFails)
    /\ UNCHANGED latest
    /\ Done(Refresher)
(* The task ends with the error.                                            *)
RefreshFails_Mut2 ==
    /\ request[Refresher] = "sent"
    /\ fails' = AtMost(fails + 1, MaxFails)
    /\ refresh' = 0
    /\ request' = [request EXCEPT ![Refresher] = "none"]
    /\ UNCHANGED <<latest, waited, reply, left, backoff>>
RefreshFails ==
    /\ request[Refresher] # "none"
    /\ left' = backoff
    /\ backoff' = AtMost(2 * backoff, MaxBackoff)
    /\ fails' = AtMost(fails + 1, MaxFails)
    /\ UNCHANGED latest
    /\ Done(Refresher)

---------------------------------------------------------------------------
(* get_or_fetch: a cached hash is handed out as it is; only a caller that   *)
(* finds none asks the node, and writes whatever comes back.                *)

Fetch(c) == latest = NoHash /\ Send(c)

Fetched(c) ==
    /\ request[c] = "answered"
    /\ latest' = reply[c]
    /\ UNCHANGED loop
    /\ Done(c)

FetchFails(c) ==
    /\ request[c] # "none"
    /\ UNCHANGED <<latest, loop>>
    /\ Done(c)

---------------------------------------------------------------------------
(* Time: no request is under way for longer than Latency.                   *)

Older(age, bound) == IF age = NoHash THEN NoHash ELSE AtMost(age + 1, bound)

Tick ==
    /\ ~Ready
    /\ \A p \in Client : request[p] # "none" => waited[p] < Latency
    /\ latest' = Older(latest, MaxAge)
    /\ reply' = [p \in Client |-> Older(reply[p], Latency)]
    /\ waited' = [p \in Client |-> IF request[p] = "none" THEN 0 ELSE waited[p] + 1]
    /\ left' = AtLeast(left - 1, 0)
    /\ UNCHANGED <<refresh, request, backoff, fails>>

RefresherStep == Refresh \/ Refreshed \/ RefreshFails

CallerStep(c) == Fetched(c) \/ FetchFails(c)

Next ==
    \/ RefresherStep
    \/ \E c \in Caller : Fetch(c) \/ CallerStep(c)
    \/ \E p \in Client : Sample(p)
    \/ Tick

SafeSpec == Init /\ [][Next]_vars

(* The clock runs, the refresher task runs, requests end.                   *)
Fairness ==
    /\ WF_vars(Tick) /\ WF_vars(RefresherStep)
    /\ \A c \in Caller : WF_vars(CallerStep(c))
    /\ \A p \in Client : WF_vars(Sample(p))
Spec == SafeSpec /\ Fairness

---------------------------------------------------------------------------
(* Properties.                                                              *)

FreshAge == Period + 2 * Latency

(* With the refresher on, the hash handed out is at most one period and two *)
(* requests old; every failed refresh adds at most the longest sleep and    *)
(* one request.  Late answers to other callers do not break this.           *)
AgeBounded ==
    refresh > 0 /\ fails < MaxFails =>
        latest <= FreshAge + fails * (LongestSleep + Latency)

(* If refreshes stop failing, the cached hash is fresh again, and stays so. *)
Recovers ==
    (<>[][~RefreshFails]_vars)
        => (refresh > 0 => <>[](latest # NoHash /\ latest <= FreshAge))
=============================================================================
