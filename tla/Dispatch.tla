------------------------------ MODULE Dispatch ------------------------------
(***************************************************************************)
(* The signal consumer of main.rs and Executor::on_signal at the level of  *)
(* its semaphores: which signals reach the executor, who holds the         *)
(* one-at-a-time exec_gate, when a mint is recorded as done, and how often *)
(* a mint can be bought.  What happens between taking the gate and the     *)
(* verdict of a submission is module JitoSubmit.                           *)
(*                                                                         *)
(* An operator X_Mut before X is X with a plausible bug; it is used only   *)
(* to show that a property notices the bug.                                *)
(***************************************************************************)
EXTENDS Integers, Sequences, FiniteSets

CONSTANTS Mint, NoMint,
          Worker,      \* one per permit of the main loop's semaphore
          NoWorker,
          ChanCap,     \* capacity of the mpsc channel (50_000 in the code)
          MaxSent,     \* bound: the histories sent and lost saturate here
          Configs      \* the configurations of interest

Modes == {"log", "demo", "bundle_pumpbuy", "other"}

(* mode, jito (some block-engine client exists) and oneshot are settings.   *)
(* covers: an in-flight entry outlives the handling of the signal that made *)
(* it, the sleep after a success included; what that takes of the settings  *)
(* is said at InflightExpire.                                               *)
(* lossy: a submission may be accepted although its reply never arrives.    *)
ConfigType == [mode : Modes, jito : BOOLEAN, oneshot : BOOLEAN,
               covers : BOOLEAN, lossy : BOOLEAN]

ASSUME NamesAssumption == NoMint \notin Mint /\ NoWorker \notin Worker
ASSUME WorkerAssumption == IsFiniteSet(Worker) /\ Worker # {}
ASSUME BoundsAssumption == ChanCap \in Nat \ {0} /\ MaxSent \in Nat \ {0}
ASSUME ConfigsAssumption == Configs \subseteq ConfigType

VARIABLES cfg,         \* chosen at start, then constant
          running,     \* FALSE once std::process::exit was called
          chan,        \* the channel from the monitors
          inflight,    \* live entries of mint_inflight
          done,        \* live entries of mint_done
          loop,        \* where the consumer loop stands
          held,        \* the mint it is handling
          stage,       \* per worker: where the spawned task stands
          mint,        \* per worker: the mint it was spawned for
          gate,        \* holder of exec_gate
          execPermits, \* permits left in Executor.sem
          sent,        \* history: accepted submissions since the mint last expired from done
          lost         \* history: those of them whose reply was lost

consumer == <<chan, inflight, loop, held>>
caches == <<inflight, done>>
tasks == <<stage, mint, gate, execPermits>>
vars == <<cfg, running, chan, inflight, done, loop, held, stage, mint, gate,
          execPermits, sent, lost>>

(* "doubt" is "exec" after a reply was lost: this task may have bought.     *)
Stages == {"free", "spawned", "entered", "exec", "doubt", "settle", "ok", "err"}
Buying == cfg.mode \in {"demo", "bundle_pumpbuy"}
CanSubmit == ~(cfg.mode = "bundle_pumpbuy" /\ ~cfg.jito)

TypeOK ==
    /\ cfg \in Configs
    /\ running \in BOOLEAN
    /\ chan \in Seq(Mint) /\ Len(chan) <= ChanCap
    /\ inflight \in SUBSET Mint
    /\ done \in SUBSET Mint
    /\ loop \in {"recv", "gate", "permit"}
    /\ held \in Mint \cup {NoMint} /\ (held = NoMint <=> loop = "recv")
    /\ stage \in [Worker -> Stages]
    /\ mint \in [Worker -> Mint \cup {NoMint}]
    /\ \A w \in Worker : mint[w] = NoMint <=> stage[w] = "free"
    /\ gate \in Worker \cup {NoWorker}
    /\ execPermits \in 0 .. Cardinality(Worker)
    /\ sent \in [Mint -> 0 .. MaxSent] /\ lost \in [Mint -> 0 .. MaxSent]

Init ==
    /\ cfg \in Configs
    /\ running = TRUE
    /\ chan = <<>>
    /\ inflight = {} /\ done = {}
    /\ loop = "recv" /\ held = NoMint
    /\ stage = [w \in Worker |-> "free"]
    /\ mint = [w \in Worker |-> NoMint]
    /\ gate = NoWorker
    /\ execPermits = Cardinality(Worker)
    /\ sent = [m \in Mint |-> 0] /\ lost = [m \in Mint |-> 0]

---------------------------------------------------------------------------
(* The consumer loop.  The two cache lookups are separate steps: tasks on   *)
(* other threads record mints, and entries expire, between them.            *)

(* A monitor hands over a signal; at a full channel try_send drops it.      *)
Offer(m) ==
    /\ running /\ Len(chan) < ChanCap
    /\ chan' = Append(chan, m)
    /\ UNCHANGED <<cfg, running, caches, loop, held, tasks, sent, lost>>

(* Body of CheckDone, with the cache lookup as a parameter.                 *)
CheckDoneWith(isDone) ==
    /\ running /\ loop = "recv" /\ chan # <<>>
    /\ chan' = Tail(chan)
    /\ IF isDone
       THEN UNCHANGED <<loop, held>>
       ELSE loop' = "gate" /\ held' = Head(chan)
    /\ UNCHANGED <<cfg, running, caches, tasks, sent, lost>>

CheckDone_Mut == CheckDoneWith(FALSE)
CheckDone == CheckDoneWith(Head(chan) \in done)

SkipInflight ==
    /\ running /\ loop = "gate" /\ held \in inflight
    /\ loop' = "recv" /\ held' = NoMint
    /\ UNCHANGED <<cfg, running, chan, caches, tasks, sent, lost>>

EnterInflight_Mut ==
    /\ running /\ loop = "gate"
    /\ inflight' = inflight \cup {held}
    /\ loop' = "permit"
    /\ UNCHANGED <<cfg, running, chan, done, held, tasks, sent, lost>>
EnterInflight ==
    /\ running /\ loop = "gate" /\ held \notin inflight
    /\ inflight' = inflight \cup {held}
    /\ loop' = "permit"
    /\ UNCHANGED <<cfg, running, chan, done, held, tasks, sent, lost>>

(* acquire_owned returns a permit of the main semaphore: the task is        *)
(* spawned.  Until some worker is free the loop waits here, holding the     *)
(* signal whose cache lookups are already behind it.                        *)
Spawn(w) ==
    /\ running /\ loop = "permit" /\ stage[w] = "free"
    /\ stage' = [stage EXCEPT ![w] = "spawned"]
    /\ mint' = [mint EXCEPT ![w] = held]
    /\ loop' = "recv" /\ held' = NoMint
    /\ UNCHANGED <<cfg, running, chan, caches, gate, execPermits, sent, lost>>

---------------------------------------------------------------------------
(* The spawned task: on_signal and the recording of its verdict.            *)

(* Executor.sem is acquired.                                                *)
Enter(w) ==
    /\ running /\ stage[w] = "spawned" /\ execPermits > 0
    /\ stage' = [stage EXCEPT ![w] = "entered"]
    /\ execPermits' = execPermits - 1
    /\ UNCHANGED <<cfg, running, consumer, done, mint, gate, sent, lost>>

(* on_signal returns: the gate, if held, and the executor permit are        *)
(* dropped with its locals; the task still holds the main permit.           *)
Return_Mut(w, verdict) ==
    /\ stage' = [stage EXCEPT ![w] = verdict]
    /\ gate' = IF gate = w THEN NoWorker ELSE gate
    /\ execPermits' = IF verdict = "ok" THEN execPermits + 1 ELSE execPermits
    /\ UNCHANGED <<cfg, running, consumer, done, mint>>
(* The gate's permit is forgotten instead of dropped after a success.        *)
Return_Mut2(w, verdict) ==
    /\ stage' = [stage EXCEPT ![w] = verdict]
    /\ gate' = IF gate = w /\ verdict = "err" THEN NoWorker ELSE gate
    /\ execPermits' = execPermits + 1
    /\ UNCHANGED <<cfg, running, consumer, done, mint>>
Return(w, verdict) ==
    /\ stage' = [stage EXCEPT ![w] = verdict]
    /\ gate' = IF gate = w THEN NoWorker ELSE gate
    /\ execPermits' = execPermits + 1
    /\ UNCHANGED <<cfg, running, consumer, done, mint>>

Log(w) ==
    /\ running /\ stage[w] = "entered" /\ cfg.mode = "log"
    /\ Return(w, "ok") /\ UNCHANGED <<sent, lost>>

UnknownMode(w) ==
    /\ running /\ stage[w] = "entered" /\ cfg.mode = "other"
    /\ Return(w, "err") /\ UNCHANGED <<sent, lost>>

(* exec_gate.try_acquire fails: the signal is dropped, and reported as Ok.  *)
Busy_Mut(w) ==
    /\ running /\ stage[w] = "entered" /\ Buying /\ gate = w
    /\ Return(w, "ok") /\ UNCHANGED <<sent, lost>>
Busy(w) ==
    /\ running /\ stage[w] = "entered" /\ Buying /\ gate # NoWorker
    /\ Return(w, "ok") /\ UNCHANGED <<sent, lost>>

TakeGate_Mut(w) ==
    /\ running /\ stage[w] = "entered" /\ Buying
    /\ gate' = w
    /\ stage' = [stage EXCEPT ![w] = "exec"]
    /\ UNCHANGED <<cfg, running, consumer, done, mint, execPermits, sent, lost>>
TakeGate(w) ==
    /\ running /\ stage[w] = "entered" /\ Buying /\ gate = NoWorker
    /\ gate' = w
    /\ stage' = [stage EXCEPT ![w] = "exec"]
    /\ UNCHANGED <<cfg, running, consumer, done, mint, execPermits, sent, lost>>

(* A bundle without any client, a failed build, or an engine that refuses.  *)
Fail(w) ==
    /\ running /\ stage[w] \in {"exec", "doubt"}
    /\ Return(w, "err") /\ UNCHANGED <<sent, lost>>

UpTo(n) == IF n < MaxSent THEN n + 1 ELSE n
CountSent(m) == sent' = [sent EXCEPT ![m] = UpTo(@)]
CountLost(m) == lost' = [lost EXCEPT ![m] = UpTo(@)]

(* A bundle goes to the next endpoint, or to sendTransaction, after an      *)
(* error; demo makes one attempt.                                           *)
Attempts(w) ==
    /\ CanSubmit
    /\ stage[w] = "exec" \/ (stage[w] = "doubt" /\ cfg.mode = "bundle_pumpbuy")

(* The engine (or the RPC node) accepted and its reply arrived.             *)
Accept_Mut(w) ==
    /\ running /\ Attempts(w)
    /\ stage' = [stage EXCEPT ![w] = "settle"]
    /\ gate' = NoWorker
    /\ CountSent(mint[w])
    /\ UNCHANGED <<cfg, running, consumer, done, mint, execPermits, lost>>
Accept(w) ==
    /\ running /\ Attempts(w)
    /\ stage' = [stage EXCEPT ![w] = "settle"]
    /\ CountSent(mint[w])
    /\ UNCHANGED <<cfg, running, consumer, done, mint, gate, execPermits, lost>>

(* The submission was accepted, its reply got lost: the code sees an error. *)
ReplyLost(w) ==
    /\ running /\ Attempts(w) /\ cfg.lossy
    /\ stage' = [stage EXCEPT ![w] = "doubt"]
    /\ CountSent(mint[w]) /\ CountLost(mint[w])
    /\ UNCHANGED <<cfg, running, consumer, done, mint, gate, execPermits>>

(* The sleep of dedup_sig_ttl_ms after a success is over.  Only submissions *)
(* through a block engine look at ONESHOT: the RPC path of demo does not.   *)
Exits_Mut == FALSE
Exits == cfg.oneshot /\ cfg.jito

ExitProcess(w) ==
    /\ running /\ stage[w] = "settle" /\ Exits
    /\ running' = FALSE
    /\ UNCHANGED <<cfg, consumer, done, tasks, sent, lost>>

Settle(w) ==
    /\ running /\ stage[w] = "settle" /\ ~Exits
    /\ Return(w, "ok") /\ UNCHANGED <<sent, lost>>

(* Back in the spawned task: Ok records the mint, Err only warns; either    *)
(* way the task ends and its main permit is free again.                     *)
Leave_Mut(w) ==
    /\ stage' = [stage EXCEPT ![w] = "free"]
    /\ UNCHANGED <<cfg, running, consumer, mint, gate, execPermits, sent, lost>>
Leave(w) ==
    /\ stage' = [stage EXCEPT ![w] = "free"]
    /\ mint' = [mint EXCEPT ![w] = NoMint]
    /\ UNCHANGED <<cfg, running, consumer, gate, execPermits, sent, lost>>

MarkDone_Mut(w) ==
    /\ running /\ stage[w] = "ok"
    /\ UNCHANGED done
    /\ Leave(w)
MarkDone(w) ==
    /\ running /\ stage[w] = "ok"
    /\ done' = done \cup {mint[w]}
    /\ Leave(w)

Drop(w) ==
    /\ running /\ stage[w] = "err"
    /\ UNCHANGED done
    /\ Leave(w)

---------------------------------------------------------------------------
(* Cache expiry.                                                            *)

(* The signal that made the entry of m is still handled: the loop waits for *)
(* a permit with it, or a task has it.  A later signal of m that the loop   *)
(* holds between its two lookups did not make the entry, and does not       *)
(* keep it.                                                                 *)
Carried(m) == (loop = "permit" /\ held = m) \/ \E w \in Worker : mint[w] = m

(* An entry lives for max(dedup_sig_ttl_ms, 200) ms from its insertion.  A  *)
(* task sleeps dedup_sig_ttl_ms after a success, so covers can hold beyond  *)
(* a success only if dedup_sig_ttl_ms is below 200 and the wait for a       *)
(* permit, the build and the submission fit in what is left of the 200 ms.  *)
InflightExpire(m) ==
    /\ running /\ m \in inflight
    /\ cfg.covers => ~Carried(m)
    /\ inflight' = inflight \ {m}
    /\ UNCHANGED <<cfg, running, chan, done, loop, held, tasks, sent, lost>>

DoneExpire(m) ==
    /\ running /\ m \in done
    /\ done' = done \ {m}
    /\ sent' = [sent EXCEPT ![m] = 0] /\ lost' = [lost EXCEPT ![m] = 0]
    /\ UNCHANGED <<cfg, running, consumer, tasks>>

(* The process is gone.                                                     *)
Exited == ~running /\ UNCHANGED vars

---------------------------------------------------------------------------
ConsumerStep == CheckDone \/ SkipInflight \/ EnterInflight

(* Steps of a task that wait for nobody outside the program.                *)
LocalStep(w) ==
    \/ Enter(w) \/ Log(w) \/ UnknownMode(w) \/ Busy(w) \/ TakeGate(w)
    \/ ExitProcess(w) \/ Settle(w) \/ MarkDone(w) \/ Drop(w)

EngineStep(w) == Fail(w) \/ Accept(w) \/ ReplyLost(w)

Expiry(m) == InflightExpire(m) \/ DoneExpire(m)

Next ==
    \/ \E m \in Mint : Offer(m) \/ Expiry(m)
    \/ ConsumerStep
    \/ \E w \in Worker : Spawn(w) \/ LocalStep(w) \/ EngineStep(w)
    \/ Exited

(* Tokio runs every task that can run.  Nothing makes an engine answer: the *)
(* HTTP client has no timeout, so EngineStep has no fairness.               *)
Fairness ==
    /\ WF_vars(ConsumerStep)
    /\ WF_vars(\E w \in Worker : Spawn(w))
    /\ \A w \in Worker : WF_vars(LocalStep(w))

SafeSpec == Init /\ [][Next]_vars
Spec == SafeSpec /\ Fairness

---------------------------------------------------------------------------
(* Properties.                                                              *)

(* "Execute only one tx at a time": whoever builds, submits or sleeps after *)
(* a success is the holder of exec_gate, so there is at most one.           *)
GateExclusive ==
    \A w \in Worker : stage[w] \in {"exec", "doubt", "settle"} <=> gate = w

(* The executor's own semaphore has as many permits as the main loop's, and *)
(* every path of on_signal gives its permit back: a spawned task never has  *)
(* to wait at the entrance of on_signal.                                    *)
NoWaitInsideExecutor ==
    \A w \in Worker : stage[w] = "spawned" => execPermits > 0

(* When an in-flight entry outlives the handling of its own signal, a mint  *)
(* is bought at most twice while it counts as done: a signal that passed    *)
(* the mint_done lookup before the first purchase was recorded may find the *)
(* entry gone at the next lookup, and nothing else buys again but a signal  *)
(* that follows a lost reply.                                               *)
AtMostTwoBuys == cfg.covers => \A m \in Mint : sent[m] <= 2 + lost[m]

(* However short the in-flight TTL is, a mint is not bought more often than *)
(* there were signals of it past the mint_done lookup when the first of     *)
(* them was recorded, one per permit and the one the loop holds, and once   *)
(* more for each submission that the engine accepted and the code took for  *)
(* a failure because its reply was lost.                                    *)
BoundedRebuy == \A m \in Mint : sent[m] <= Cardinality(Worker) + 1 + lost[m]

(* ONESHOT through a block engine: all in all one submission is accepted.   *)
OneshotSendsOnce ==
    cfg.oneshot /\ cfg.jito /\ ~cfg.lossy =>
        /\ \A m \in Mint : sent[m] <= 1
        /\ \A m, n \in Mint : sent[m] > 0 /\ sent[n] > 0 => m = n

(* "never block monitor path": with two permits the loop gets past every    *)
(* signal, even if a block engine never answers.                            *)
ConsumerNeverStuck == loop = "permit" ~> (loop = "recv" \/ ~running)

(* An accepted submission is recorded: its mint becomes done, unless the    *)
(* process exits first.                                                     *)
PurchaseRecorded ==
    \A m \in Mint :
        (\E w \in Worker : stage[w] = "settle" /\ mint[w] = m)
            ~> (m \in done \/ ~running)

(* The gate implements the buy desk.                                        *)
deskClient == IF gate = NoWorker THEN NoMint ELSE mint[gate]
deskPhase == IF ~running THEN "shut"
             ELSE IF gate = NoWorker THEN "free"
             ELSE CASE stage[gate] = "settle" -> "sold"
                    [] stage[gate] = "doubt" -> "doubt"
                    [] OTHER -> "open"

Desk == INSTANCE BuyDesk WITH Client <- Mint, NoClient <- NoMint,
                              client <- deskClient, phase <- deskPhase
DeskSafe == Desk!SafeSpec
DeskSpec == Desk!Spec

(* main.rs:69 "mint done dedupe (ONLY after a successful execute)": a mint  *)
(* counts as done only if a submission for it was accepted.                 *)
DoneOnlyAfterBuy == Buying => \A m \in done : sent[m] > 0

(* .env.example:37 "Dedup per mint (avoid rebuy spam)": while a mint counts *)
(* as done it is not bought again.                                          *)
NoRebuy == \A m \in Mint : sent[m] <= 1
=============================================================================
