------------------------------ MODULE Monitor ------------------------------
(***************************************************************************)
(* run_monitor of monitor/shredstream_proxy.rs, one instance per region:   *)
(* connecting to the proxy, the reader task and its bounded queue, the     *)
(* parser loop with its unordered parses, signature deduplication and the  *)
(* hand-over to the shared channel of main.rs.                             *)
(*                                                                         *)
(* A batch is the sequence of transactions of one message that pass the    *)
(* stage-0 filter; whether parsing one yields a signal is left open (it    *)
(* depends on lookup tables that may not be resolved yet).                 *)
(*                                                                         *)
(* An operator X_Mut before X is X with a plausible bug; it is used only   *)
(* to show that a property notices the bug.                                *)
(***************************************************************************)
EXTENDS Integers, Sequences, SequencesExt

CONSTANTS Region,
          Invalid,    \* regions whose URL cannot be parsed
          Sig,        \* transaction signatures
          Batches,    \* batches that may arrive
          QueueCap,   \* capacity of the reader's queue (512 in the code)
          OutCap,     \* capacity of the channel to main (50_000)
          Parallel,   \* parse_concurrency
          MaxOffers   \* bound: the history offered saturates here

NoBatch == <<>>

ASSUME RegionAssumption == Invalid \subseteq Region
ASSUME BatchAssumption == Batches \subseteq Seq(Sig) \ {NoBatch}
ASSUME CapAssumption ==
    /\ QueueCap \in Nat \ {0} /\ OutCap \in Nat \ {0}
    /\ Parallel \in Nat \ {0} /\ MaxOffers \in Nat \ {0}

VARIABLES mon,      \* where the monitor task stands
          backoff,  \* backoff_ms
          reader,   \* the reader task of the current stream
          wire,     \* a message the reader has not taken yet
          queue,    \* batch channel between reader and parser
          work,     \* transactions of the current batch not parsed yet
          seen,     \* live entries of sig_dedup
          chan,     \* channel to the consumer loop
          offered   \* history: offers to chan per signature in its dedup window

link == <<mon, backoff, reader>>
vars == <<link, wire, queue, work, seen, chan, offered>>

Stations == {"connect", "subscribe", "backoff", "recv", "work", "pause", "gone"}
Backoffs == {250, 500, 1000, 2000, 4000, 5000}

TypeOK ==
    /\ mon \in [Region -> Stations]
    /\ backoff \in [Region -> Backoffs]
    /\ reader \in [Region -> {"none", "reading", "ended"}]
    /\ wire \in [Region -> Seq(Sig)]
    /\ queue \in [Region -> Seq(Seq(Sig))]
    /\ \A r \in Region : Len(queue[r]) <= QueueCap
    /\ work \in [Region -> Seq(Sig)]
    /\ \A r \in Region : mon[r] = "work" <=> work[r] # <<>>
    /\ seen \in [Region -> SUBSET Sig]
    /\ chan \in Seq(Sig) /\ Len(chan) <= OutCap
    /\ offered \in [Region -> [Sig -> 0 .. MaxOffers]]

Init ==
    /\ mon = [r \in Region |-> "connect"]
    /\ backoff = [r \in Region |-> 250]
    /\ reader = [r \in Region |-> "none"]
    /\ wire = [r \in Region |-> NoBatch]
    /\ queue = [r \in Region |-> <<>>]
    /\ work = [r \in Region |-> <<>>]
    /\ seen = [r \in Region |-> {}]
    /\ chan = <<>>
    /\ offered = [r \in Region |-> [s \in Sig |-> 0]]

Goto(r, station) == mon' = [mon EXCEPT ![r] = station]

---------------------------------------------------------------------------
(* Connecting.                                                              *)

(* An unusable URL ends the monitor for good.                               *)
GiveUpUrl(r) ==
    /\ mon[r] = "connect" /\ r \in Invalid
    /\ Goto(r, "gone")
    /\ UNCHANGED <<backoff, reader, wire, queue, work, seen, chan, offered>>

Connected(r) ==
    /\ mon[r] = "connect" /\ r \notin Invalid
    /\ Goto(r, "subscribe")
    /\ UNCHANGED <<backoff, reader, wire, queue, work, seen, chan, offered>>

(* connect or subscribe_entries failed.                                     *)
Refused(r) ==
    /\ mon[r] \in {"connect", "subscribe"} /\ r \notin Invalid
    /\ Goto(r, "backoff")
    /\ UNCHANGED <<backoff, reader, wire, queue, work, seen, chan, offered>>

(* The sleep is over; the next one is twice as long, up to five seconds.    *)
Retry(r) ==
    /\ mon[r] = "backoff"
    /\ backoff' = [backoff EXCEPT ![r] = IF 2 * @ < 5000 THEN 2 * @ ELSE 5000]
    /\ Goto(r, "connect")
    /\ UNCHANGED <<reader, wire, queue, work, seen, chan, offered>>

(* Subscribed: the reader starts on an empty queue.                         *)
Subscribed_Mut(r) ==
    /\ mon[r] = "subscribe"
    /\ Goto(r, "recv")
    /\ backoff' = [backoff EXCEPT ![r] = 250]
    /\ reader' = [reader EXCEPT ![r] = "reading"]
    /\ seen' = [seen EXCEPT ![r] = {}]
    /\ UNCHANGED <<wire, queue, work, chan, offered>>
Subscribed(r) ==
    /\ mon[r] = "subscribe"
    /\ Goto(r, "recv")
    /\ backoff' = [backoff EXCEPT ![r] = 250]
    /\ reader' = [reader EXCEPT ![r] = "reading"]
    /\ UNCHANGED <<wire, queue, work, seen, chan, offered>>

---------------------------------------------------------------------------
(* The reader task.                                                         *)

(* The proxy sends a message.                                               *)
Arrive(r, b) ==
    /\ reader[r] = "reading" /\ wire[r] = NoBatch
    /\ wire' = [wire EXCEPT ![r] = b]
    /\ UNCHANGED <<link, queue, work, seen, chan, offered>>

(* try_send: at a full queue the batch is dropped, the reader goes on.      *)
Read_Mut(r) ==
    /\ wire[r] # NoBatch /\ Len(queue[r]) < QueueCap
    /\ wire' = [wire EXCEPT ![r] = NoBatch]
    /\ queue' = [queue EXCEPT ![r] = Append(@, wire[r])]
    /\ UNCHANGED <<link, work, seen, chan, offered>>
Read_Mut2(r) ==
    /\ wire[r] # NoBatch
    /\ wire' = [wire EXCEPT ![r] = NoBatch]
    /\ queue' = [queue EXCEPT ![r] = Append(@, wire[r])]
    /\ UNCHANGED <<link, work, seen, chan, offered>>
Read(r) ==
    /\ wire[r] # NoBatch
    /\ wire' = [wire EXCEPT ![r] = NoBatch]
    /\ queue' = [queue EXCEPT ![r] = IF Len(@) < QueueCap THEN Append(@, wire[r]) ELSE @]
    /\ UNCHANGED <<link, work, seen, chan, offered>>

(* The stream ends or fails: the reader drops its end of the queue.         *)
StreamEnds(r) ==
    /\ reader[r] = "reading" /\ wire[r] = NoBatch
    /\ reader' = [reader EXCEPT ![r] = "ended"]
    /\ UNCHANGED <<mon, backoff, wire, queue, work, seen, chan, offered>>

---------------------------------------------------------------------------
(* The parser loop.                                                         *)

TakeBatch(r) ==
    /\ mon[r] = "recv" /\ queue[r] # <<>>
    /\ queue' = [queue EXCEPT ![r] = Tail(@)]
    /\ work' = [work EXCEPT ![r] = Head(queue[r])]
    /\ Goto(r, "work")
    /\ UNCHANGED <<backoff, reader, wire, seen, chan, offered>>

(* The bytes do not deserialize, or nothing passes the stage-0 filter.      *)
SkipBatch(r) ==
    /\ mon[r] = "recv" /\ queue[r] # <<>>
    /\ queue' = [queue EXCEPT ![r] = Tail(@)]
    /\ UNCHANGED <<link, wire, work, seen, chan, offered>>

(* One of the parses in flight, the i-th transaction left, is finished.     *)
Parsed(r, i) ==
    /\ mon[r] = "work" /\ i \in 1 .. Len(work[r]) /\ i <= Parallel
    /\ work' = [work EXCEPT ![r] = RemoveAt(@, i)]
    /\ Goto(r, IF Len(work[r]) = 1 THEN "recv" ELSE "work")
    /\ UNCHANGED <<backoff, reader, wire, queue>>

(* No signal in it, or the parse failed, or a signal seen before.           *)
NoSignal(r, i) ==
    /\ Parsed(r, i)
    /\ UNCHANGED <<seen, chan, offered>>

(* A new signal is remembered first and then offered; at a full channel     *)
(* try_send loses it.                                                       *)
Signal(r, i) ==
    /\ Parsed(r, i) /\ work[r][i] \notin seen[r]
    /\ seen' = [seen EXCEPT ![r] = @ \cup {work[r][i]}]
    /\ chan' = IF Len(chan) < OutCap THEN Append(chan, work[r][i]) ELSE chan
    /\ offered' = [offered EXCEPT ![r][work[r][i]] = IF @ < MaxOffers THEN @ + 1 ELSE @]

(* recv returns None: the reader is gone and the queue is drained.          *)
Drained_Mut(r) ==
    /\ mon[r] = "recv" /\ reader[r] = "ended"
    /\ reader' = [reader EXCEPT ![r] = "none"]
    /\ Goto(r, "pause")
    /\ UNCHANGED <<backoff, wire, queue, work, seen, chan, offered>>
Drained_Mut2(r) ==
    /\ mon[r] = "recv" /\ reader[r] = "none"
    /\ Goto(r, "pause")
    /\ UNCHANGED <<backoff, reader, wire, queue, work, seen, chan, offered>>
Drained(r) ==
    /\ mon[r] = "recv" /\ queue[r] = <<>> /\ reader[r] = "ended"
    /\ reader' = [reader EXCEPT ![r] = "none"]
    /\ Goto(r, "pause")
    /\ UNCHANGED <<backoff, wire, queue, work, seen, chan, offered>>

Redial(r) ==
    /\ mon[r] = "pause"
    /\ Goto(r, "connect")
    /\ UNCHANGED <<backoff, reader, wire, queue, work, seen, chan, offered>>

---------------------------------------------------------------------------
(* Surroundings.                                                            *)

Expire(r, s) ==
    /\ s \in seen[r]
    /\ seen' = [seen EXCEPT ![r] = @ \ {s}]
    /\ offered' = [offered EXCEPT ![r][s] = 0]
    /\ UNCHANGED <<link, wire, queue, work, chan>>

(* The consumer loop of main.rs takes a signal (module Dispatch).           *)
Consume ==
    /\ chan # <<>>
    /\ chan' = Tail(chan)
    /\ UNCHANGED <<link, wire, queue, work, seen, offered>>

---------------------------------------------------------------------------
Result(r) == \E i \in 1 .. Len(work[r]) : NoSignal(r, i) \/ Signal(r, i)

ParserStep(r) == TakeBatch(r) \/ SkipBatch(r) \/ Drained(r) \/ Redial(r) \/ Retry(r)

Dial(r) == GiveUpUrl(r) \/ Connected(r) \/ Refused(r) \/ Subscribed(r)

Proxy(r) == (\E b \in Batches : Arrive(r, b)) \/ StreamEnds(r)

RegionStep(r) ==
    \/ Dial(r) \/ Proxy(r) \/ Read(r) \/ ParserStep(r) \/ Result(r)
    \/ \E s \in Sig : Expire(r, s)

Next == Consume \/ \E r \in Region : RegionStep(r)

(* Tokio runs the reader and the parser.  Whether a parse ever finishes     *)
(* depends on RPC calls, and the proxy may do anything: neither is fair.    *)
Fairness == \A r \in Region : WF_vars(Read(r)) /\ WF_vars(ParserStep(r))

SafeSpec == Init /\ [][Next]_vars
Spec == SafeSpec /\ Fairness

---------------------------------------------------------------------------
(* Properties.                                                              *)

(* sig_dedup outlives the streams: a signature is offered by a region once  *)
(* per TTL, however often it repeats, also after a reconnect.               *)
OfferedOnce == \A r \in Region, s \in Sig : offered[r][s] <= 1

(* A new stream is never dialled with batches of the last one left over or  *)
(* its reader still alive, so a queue has one reader and one parser.        *)
DrainedBeforeRedial ==
    \A r \in Region :
        mon[r] \in {"connect", "subscribe", "backoff", "pause", "gone"} =>
            /\ reader[r] = "none" /\ wire[r] = NoBatch
            /\ queue[r] = <<>>

(* The reader takes every message off the stream, even if the parser is     *)
(* stuck in a parse for ever.                                               *)
ReaderNeverBlocks == \A r \in Region : wire[r] # NoBatch ~> wire[r] = NoBatch

(* If parses finish, the end of a stream leads to a reconnect.              *)
ParsesFinish == \A r \in Region : WF_vars(Result(r))
Reconnects ==
    ParsesFinish => \A r \in Region : reader[r] = "ended" ~> mon[r] = "connect"
=============================================================================
