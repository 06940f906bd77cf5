---------------------------- MODULE AltResolver ----------------------------
(***************************************************************************)
(* AltResolver of alt_resolver.rs: address lookup tables read through a    *)
(* cache.  Concurrent misses of a table share one fetch, and all fetches   *)
(* and batch reads share the permits of one semaphore.                     *)
(*                                                                         *)
(* A table only grows, so a list of its addresses is known by its length.  *)
(*                                                                         *)
(* An operator X_Mut before X is X with a plausible bug; it is used only   *)
(* to show that a property notices the bug.                                *)
(***************************************************************************)
EXTENDS Integers, FiniteSets

CONSTANTS Client,     \* parses that may call the resolver at the same time
          TableKey,   \* lookup tables
          Start,      \* number of addresses of a table when the bot starts
          Size,       \* and what it may grow to
          Permits,    \* max_concurrent_fetch, at least 1
          MaxPrefetch \* bound: the number of spawned tasks per table saturates here

Missing == -1
NoTable == "no table"

ASSUME ClientAssumption == IsFiniteSet(Client)
ASSUME TableAssumption ==
    /\ IsFiniteSet(TableKey) /\ NoTable \notin TableKey
    /\ Start \in [TableKey -> Nat] /\ Size \in [TableKey -> Nat]
    /\ \A t \in TableKey : Start[t] <= Size[t]
ASSUME PermitAssumption == Permits \in Nat \ {0} /\ MaxPrefetch \in Nat

VARIABLES visible,  \* length of the table the RPC node shows
          cache,    \* length of the cached list, or Missing
          flight,   \* the shared fetch of a table
          free,     \* permits of sem
          spawned,  \* prefetch tasks that have not called the resolver yet
          call      \* the call of a client

alt == <<visible, cache, flight, free, spawned, call>>

Flights == {"none", "permit", "asking"}
Ops == {"idle", "wait", "got", "permit", "reading", "answered", "failed"}

Call(op, table, len) == [op |-> op, table |-> table, len |-> len]
NoCall == Call("idle", NoTable, 0)

AltTypeOK ==
    /\ visible \in [TableKey -> Nat]
    /\ cache \in [TableKey -> Nat \cup {Missing}]
    /\ flight \in [TableKey -> Flights]
    /\ free \in Nat
    /\ spawned \in [TableKey -> 0 .. MaxPrefetch]
    /\ call \in [Client -> [op : Ops, table : TableKey \cup {NoTable}, len : Nat]]
    /\ \A c \in Client : call[c].op \in {"wait", "got"} => call[c].table # NoTable
    /\ \A t \in TableKey : visible[t] <= Size[t]

AltInit ==
    /\ visible = Start
    /\ cache = [t \in TableKey |-> Missing]
    /\ flight = [t \in TableKey |-> "none"]
    /\ free = Permits
    /\ spawned = [t \in TableKey |-> 0]
    /\ call = [c \in Client |-> NoCall]

---------------------------------------------------------------------------
(* get_alt_addresses: a cached list at once; otherwise the caller waits for *)
(* the fetch of the table, which it begins if there is none.                *)

Board(t) == flight' = [flight EXCEPT ![t] = IF @ = "none" THEN "permit" ELSE @]

Get(c, t) ==
    /\ call[c].op = "idle"
    /\ \/ /\ cache[t] # Missing
          /\ call' = [call EXCEPT ![c] = Call("got", t, cache[t])]
          /\ UNCHANGED flight
       \/ /\ cache[t] = Missing
          /\ call' = [call EXCEPT ![c] = Call("wait", t, 0)]
          /\ Board(t)
    /\ UNCHANGED <<visible, cache, free, spawned>>

(* A task of the parser calls get_alt_addresses and ignores the answer.     *)
Spawn(t) ==
    /\ spawned' = [spawned EXCEPT ![t] = IF @ < MaxPrefetch THEN @ + 1 ELSE @]
    /\ UNCHANGED <<visible, cache, flight, free, call>>

Prefetch(t) ==
    /\ spawned[t] > 0
    /\ spawned' = [spawned EXCEPT ![t] = @ - 1]
    /\ IF cache[t] = Missing THEN Board(t) ELSE UNCHANGED flight
    /\ UNCHANGED <<visible, cache, free, call>>

Acquire(t) ==
    /\ flight[t] = "permit" /\ free > 0
    /\ flight' = [flight EXCEPT ![t] = "asking"]
    /\ free' = free - 1
    /\ UNCHANGED <<visible, cache, spawned, call>>

(* The fetch is over: its permit is free, and so are all who waited.        *)
Land(t, op, len) ==
    /\ flight[t] = "asking"
    /\ flight' = [flight EXCEPT ![t] = "none"]
    /\ free' = free + 1
    /\ call' = [c \in Client |-> IF call[c].op = "wait" /\ call[c].table = t
                                 THEN Call(op, t, len) ELSE call[c]]
    /\ UNCHANGED <<visible, spawned>>

Fetched(t) == Land(t, "got", visible[t]) /\ cache' = [cache EXCEPT ![t] = visible[t]]

(* The request fails, or the account is not a lookup table.                 *)
FetchFailed(t) == Land(t, "failed", 0) /\ UNCHANGED cache

---------------------------------------------------------------------------
(* get_multiple_accounts.                                                   *)

Batch(c) ==
    /\ call[c].op = "idle"
    /\ call' = [call EXCEPT ![c].op = "permit"]
    /\ UNCHANGED <<visible, cache, flight, free, spawned>>

BatchAcquire_Mut(c) ==
    /\ call[c].op = "permit"
    /\ call' = [call EXCEPT ![c].op = "reading"]
    /\ UNCHANGED <<visible, cache, flight, free, spawned>>
BatchAcquire(c) ==
    /\ call[c].op = "permit" /\ free > 0
    /\ call' = [call EXCEPT ![c].op = "reading"]
    /\ free' = free - 1
    /\ UNCHANGED <<visible, cache, flight, spawned>>

BatchEnds(c) ==
    /\ call[c].op = "reading"
    /\ \E op \in {"answered", "failed"} : call' = [call EXCEPT ![c].op = op]
    /\ free' = free + 1
    /\ UNCHANGED <<visible, cache, flight, spawned>>

---------------------------------------------------------------------------
(* The caller goes on with the answer.                                      *)

Take(c) ==
    /\ call[c].op \in {"got", "answered", "failed"}
    /\ call' = [call EXCEPT ![c] = NoCall]
    /\ UNCHANGED <<visible, cache, flight, free, spawned>>

(* The TTL, an eviction, or an insertion the cache does not keep.           *)
Expire(t) ==
    /\ cache[t] # Missing
    /\ cache' = [cache EXCEPT ![t] = Missing]
    /\ UNCHANGED <<visible, flight, free, spawned, call>>

(* More of the table becomes visible to the RPC node.                       *)
Extend(t) ==
    /\ visible[t] < Size[t]
    /\ visible' = [visible EXCEPT ![t] = @ + 1]
    /\ UNCHANGED <<cache, flight, free, spawned, call>>

---------------------------------------------------------------------------
TableStep(t) == Prefetch(t) \/ Acquire(t) \/ Fetched(t) \/ FetchFailed(t)
CallStep(c) == BatchAcquire(c) \/ BatchEnds(c)
World == \E t \in TableKey : Expire(t) \/ Extend(t)

(* What goes on without the callers.                                        *)
ResolverStep ==
    World \/ (\E t \in TableKey : TableStep(t)) \/ (\E c \in Client : CallStep(c))

AltNext ==
    \/ ResolverStep
    \/ \E c \in Client : Batch(c) \/ Take(c) \/ \E t \in TableKey : Get(c, t)
    \/ \E t \in TableKey : Spawn(t)

AltSpec == AltInit /\ [][AltNext]_alt

(* Tokio runs the tasks and its semaphore serves in order of arrival; the   *)
(* RPC client has a timeout, so every request ends.                         *)
AltFairness ==
    /\ \A t \in TableKey :
          /\ WF_alt(Prefetch(t)) /\ SF_alt(Acquire(t))
          /\ WF_alt(Fetched(t) \/ FetchFailed(t))
    /\ \A c \in Client : SF_alt(BatchAcquire(c)) /\ WF_alt(BatchEnds(c))

---------------------------------------------------------------------------
(* Properties.                                                              *)

Asking == {t \in TableKey : flight[t] = "asking"}
Reading == {c \in Client : call[c].op = "reading"}

(* The requests under way at the RPC node, for tables and for batches of    *)
(* accounts together, never exceed ALT_MAX_CONCURRENT_FETCH, and whoever    *)
(* waits for a table waits for a fetch that is under way.                   *)
FetchesBounded ==
    /\ Cardinality(Asking) + Cardinality(Reading) <= Permits
    /\ \A c \in Client : call[c].op = "wait" => flight[call[c].table] # "none"

(* A list that is handed out is a beginning of the table.                   *)
ListsAreBeginnings ==
    /\ \A t \in TableKey : cache[t] # Missing => cache[t] <= visible[t]
    /\ \A c \in Client : call[c].op = "got" => call[c].len <= visible[call[c].table]
=============================================================================
