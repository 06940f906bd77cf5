--------------------------- MODULE DispatchProofs ---------------------------
(***************************************************************************)
(* Proofs about Dispatch, for any mints, any number of permits, any        *)
(* channel capacity and any set of configurations.                         *)
(***************************************************************************)
EXTENDS Dispatch, FiniteSetTheorems, TLAPS

---------------------------------------------------------------------------
(* Types and gate.  The upper bound of execPermits needs a count of the     *)
(* tasks inside on_signal, so it comes later.                               *)

Basic ==
    /\ cfg \in Configs
    /\ running \in BOOLEAN
    /\ chan \in Seq(Mint) /\ Len(chan) <= ChanCap
    /\ inflight \in SUBSET Mint
    /\ done \in SUBSET Mint
    /\ loop \in {"recv", "gate", "permit"}
    /\ held \in Mint \cup {NoMint} /\ (held = NoMint <=> loop = "recv")
    /\ stage \in [Worker -> Stages]
    /\ mint \in [Worker -> Mint \cup {NoMint}]
    /\ \A w \in Worker : mint[w] = NoMint <=> stage[w] = "free"
    /\ gate \in Worker \cup {NoWorker}
    /\ execPermits \in Int
    /\ sent \in [Mint -> 0 .. MaxSent]
    /\ lost \in [Mint -> 0 .. MaxSent]

(* A helper: how returning from on_signal changes the typed state.          *)
LEMMA ReturnBasic ==
    ASSUME Basic, NEW w \in Worker, NEW verdict \in {"ok", "err"},
           stage[w] # "free", Return(w, verdict),
           sent' \in [Mint -> 0 .. MaxSent], lost' \in [Mint -> 0 .. MaxSent]
    PROVE  Basic'
  BY NamesAssumption DEF Basic, Return, Stages, consumer, tasks, caches

(* A helper: a task that ends leaves a typed state.                         *)
LEMMA LeaveBasic ==
    ASSUME Basic, NEW w \in Worker, Leave(w), done' \in SUBSET Mint
    PROVE  Basic'
  BY NamesAssumption DEF Basic, Leave, Stages, consumer

(* A helper: the saturating histories stay in their range.                  *)
LEMMA CountType ==
    ASSUME sent \in [Mint -> 0 .. MaxSent], lost \in [Mint -> 0 .. MaxSent], NEW m \in Mint
    PROVE  /\ CountSent(m) => sent' \in [Mint -> 0 .. MaxSent]
           /\ CountLost(m) => lost' \in [Mint -> 0 .. MaxSent]
  BY BoundsAssumption DEF CountSent, CountLost, UpTo

(* The initial states are typed.                                            *)
LEMMA InitBasic == Init => Basic
<1> SUFFICES ASSUME Init PROVE Basic
  OBVIOUS
<1>1. Cardinality(Worker) \in Nat
  BY WorkerAssumption, FS_CardinalityType
<1>2. chan \in Seq(Mint) /\ Len(chan) <= ChanCap
  BY BoundsAssumption DEF Init
<1> QED
  BY <1>1, <1>2, NamesAssumption, BoundsAssumption DEF Init, Basic, Stages

(* Every step keeps the state typed.                                        *)
LEMMA NextBasic == Basic /\ [Next]_vars => Basic'
<1> SUFFICES ASSUME Basic, [Next]_vars PROVE Basic'
  OBVIOUS
<1> USE NamesAssumption DEF Basic
<1>1. ASSUME NEW m \in Mint, Offer(m) PROVE Basic'
  BY <1>1, BoundsAssumption DEF Offer, caches, tasks
<1>2. ASSUME CheckDone PROVE Basic'
  <2>1. chan # <<>> /\ chan' = Tail(chan) /\ Head(chan) \in Mint
    BY <1>2 DEF CheckDone, CheckDoneWith
  <2>2. chan' \in Seq(Mint) /\ Len(chan') <= ChanCap
    BY <2>1, BoundsAssumption
  <2> QED
    BY <1>2, <2>1, <2>2 DEF CheckDone, CheckDoneWith, caches, tasks
<1>3. ASSUME SkipInflight PROVE Basic'
  BY <1>3 DEF SkipInflight, caches, tasks
<1>4. ASSUME EnterInflight PROVE Basic'
  BY <1>4 DEF EnterInflight, tasks
<1>5. ASSUME NEW w \in Worker, Spawn(w) PROVE Basic'
  BY <1>5 DEF Spawn, caches, Stages
<1>6. ASSUME NEW w \in Worker, Enter(w) PROVE Basic'
  BY <1>6 DEF Enter, consumer, Stages
<1>7. ASSUME NEW w \in Worker, Log(w) \/ UnknownMode(w) \/ Busy(w) \/ Fail(w) \/ Settle(w)
      PROVE  Basic'
  <2>1. sent' = sent /\ lost' = lost /\ stage[w] # "free" /\ (Return(w, "ok") \/ Return(w, "err"))
    BY <1>7 DEF Log, UnknownMode, Busy, Fail, Settle
  <2> QED
    BY <2>1, ReturnBasic
<1>8. ASSUME NEW w \in Worker, TakeGate(w) PROVE Basic'
  BY <1>8 DEF TakeGate, consumer, Stages
<1>9. ASSUME NEW w \in Worker, ReplyLost(w) PROVE Basic'
  <2>1. mint[w] \in Mint
    BY <1>9 DEF ReplyLost, Attempts
  <2>2. sent' \in [Mint -> 0 .. MaxSent] /\ lost' \in [Mint -> 0 .. MaxSent]
    BY <1>9, <2>1, CountType DEF ReplyLost
  <2> QED
    BY <1>9, <2>1, <2>2 DEF ReplyLost, Attempts, consumer, Stages
<1>10. ASSUME NEW w \in Worker, Accept(w) PROVE Basic'
  <2>1. mint[w] \in Mint
    BY <1>10 DEF Accept, Attempts
  <2>2. sent' \in [Mint -> 0 .. MaxSent]
    BY <1>10, <2>1, CountType DEF Accept
  <2> QED
    BY <1>10, <2>1, <2>2 DEF Accept, Attempts, consumer, Stages
<1>11. ASSUME NEW w \in Worker, ExitProcess(w) PROVE Basic'
  BY <1>11 DEF ExitProcess, consumer, tasks
<1>12. ASSUME NEW w \in Worker, MarkDone(w) \/ Drop(w) PROVE Basic'
  <2>1. mint[w] \in Mint /\ Leave(w) /\ done' \in SUBSET Mint
    BY <1>12 DEF MarkDone, Drop
  <2> QED
    BY <2>1, LeaveBasic
<1>13. ASSUME NEW m \in Mint, Expiry(m) PROVE Basic'
  <2>1. CASE InflightExpire(m)
    BY <2>1 DEF InflightExpire, tasks
  <2>2. CASE DoneExpire(m)
    <3>1. sent' \in [Mint -> 0 .. MaxSent] /\ lost' \in [Mint -> 0 .. MaxSent]
      BY <2>2, BoundsAssumption DEF DoneExpire
    <3>2. done' \in SUBSET Mint /\ UNCHANGED <<cfg, running, consumer, tasks>>
      BY <2>2 DEF DoneExpire
    <3> QED
      BY <3>1, <3>2 DEF consumer, tasks
  <2> QED
    BY <1>13, <2>1, <2>2 DEF Expiry
<1>14. ASSUME UNCHANGED vars PROVE Basic'
  BY <1>14 DEF vars
<1> QED
  BY <1>1, <1>2, <1>3, <1>4, <1>5, <1>6, <1>7, <1>8, <1>9, <1>10, <1>11, <1>12,
     <1>13, <1>14 DEF Next, ConsumerStep, LocalStep, EngineStep, Exited

---------------------------------------------------------------------------
(* The exec_gate permit.                                                    *)

LEMMA InitGate == Init => GateExclusive
BY NamesAssumption DEF Init, GateExclusive

LEMMA NextGate == Basic /\ GateExclusive /\ [Next]_vars => GateExclusive'
<1> SUFFICES ASSUME Basic, GateExclusive, [Next]_vars PROVE GateExclusive'
  OBVIOUS
<1> USE NamesAssumption DEF Basic, GateExclusive
<1>1. ASSUME UNCHANGED <<stage, gate>> PROVE GateExclusive'
  BY <1>1
<1>2. ASSUME NEW w \in Worker, NEW verdict \in {"ok", "err"}, Return(w, verdict)
      PROVE  GateExclusive'
  BY <1>2 DEF Return
<1>3. ASSUME NEW w \in Worker, Spawn(w) \/ Enter(w) PROVE GateExclusive'
  BY <1>3 DEF Spawn, Enter
<1>4. ASSUME NEW w \in Worker, TakeGate(w) \/ Accept(w) \/ ReplyLost(w) PROVE GateExclusive'
  BY <1>4 DEF TakeGate, Accept, ReplyLost, Attempts
<1>5. ASSUME NEW w \in Worker, MarkDone(w) \/ Drop(w) PROVE GateExclusive'
  BY <1>5 DEF MarkDone, Drop, Leave
<1>6. ASSUME NEW m \in Mint, Offer(m) \/ Expiry(m) PROVE GateExclusive'
  BY <1>6, <1>1 DEF Offer, Expiry, InflightExpire, DoneExpire, tasks
<1>7. ASSUME ConsumerStep PROVE GateExclusive'
  BY <1>7, <1>1 DEF ConsumerStep, CheckDone, CheckDoneWith, SkipInflight, EnterInflight, tasks
<1>8. ASSUME NEW w \in Worker,
             Log(w) \/ UnknownMode(w) \/ Busy(w) \/ Fail(w) \/ Settle(w)
      PROVE  GateExclusive'
  <2>1. Return(w, "ok") \/ Return(w, "err")
    BY <1>8 DEF Log, UnknownMode, Busy, Fail, Settle
  <2> QED
    BY <2>1, <1>2
<1>9. ASSUME NEW w \in Worker, ExitProcess(w) PROVE GateExclusive'
  BY <1>9, <1>1 DEF ExitProcess, tasks
<1>10. ASSUME UNCHANGED vars PROVE GateExclusive'
  BY <1>10, <1>1 DEF vars
<1> QED
  BY <1>3, <1>4, <1>5, <1>6, <1>7, <1>8, <1>9, <1>10
     DEF Next, LocalStep, EngineStep, Exited

---------------------------------------------------------------------------
(* The executor's semaphore: its permits and the tasks inside on_signal     *)
(* add up to the permits of the main loop.                                  *)

Inside == {w \in Worker : stage[w] \in {"entered", "exec", "doubt", "settle"}}

PermitInv == execPermits + Cardinality(Inside) = Cardinality(Worker)

LEMMA InsideFinite ==
    /\ Inside \subseteq Worker /\ IsFiniteSet(Inside)
    /\ Cardinality(Inside) \in Nat /\ Cardinality(Worker) \in Nat
    /\ Cardinality(Inside) <= Cardinality(Worker)
<1>1. Inside \subseteq Worker
  BY DEF Inside
<1>2. IsFiniteSet(Inside) /\ Cardinality(Inside) <= Cardinality(Worker)
  BY <1>1, WorkerAssumption, FS_Subset
<1> QED
  BY <1>1, <1>2, WorkerAssumption, FS_CardinalityType

LEMMA InitPermit == Init => PermitInv
<1> SUFFICES ASSUME Init PROVE PermitInv
  OBVIOUS
<1>1. Inside = {}
  BY DEF Init, Inside
<1>2. Cardinality(Inside) = 0
  BY <1>1, FS_EmptySet
<1> QED
  BY <1>2, InsideFinite DEF Init, PermitInv

LEMMA NextPermit == Basic /\ PermitInv /\ [Next]_vars => PermitInv'
<1> SUFFICES ASSUME Basic, PermitInv, [Next]_vars PROVE PermitInv'
  OBVIOUS
<1>1. ASSUME execPermits' = execPermits, Inside' = Inside PROVE PermitInv'
  BY <1>1 DEF PermitInv
<1>2. ASSUME NEW w \in Worker, NEW verdict \in {"ok", "err"}, Return(w, verdict),
             stage[w] \in {"entered", "exec", "doubt", "settle"}
      PROVE  PermitInv'
  <2>1. w \in Inside /\ Inside' = Inside \ {w}
    BY <1>2 DEF Return, Inside, Basic
  <2>2. Cardinality(Inside') = Cardinality(Inside) - 1
    BY <2>1, InsideFinite, FS_RemoveElement
  <2>3. execPermits' = execPermits + 1
    BY <1>2 DEF Return
  <2> QED
    BY <2>2, <2>3, InsideFinite DEF PermitInv, Basic
<1>3. ASSUME NEW w \in Worker, Enter(w) PROVE PermitInv'
  <2>1. w \notin Inside /\ Inside' = Inside \cup {w}
    BY <1>3 DEF Enter, Inside, Basic
  <2>2. Cardinality(Inside') = Cardinality(Inside) + 1
    BY <2>1, InsideFinite, FS_AddElement
  <2>3. execPermits' = execPermits - 1
    BY <1>3 DEF Enter
  <2> QED
    BY <2>2, <2>3, InsideFinite DEF PermitInv, Basic
<1>4. ASSUME NEW w \in Worker, Spawn(w) PROVE PermitInv'
  BY <1>4, <1>1 DEF Spawn, Inside, Basic
<1>5. ASSUME NEW w \in Worker, TakeGate(w) \/ Accept(w) \/ ReplyLost(w) PROVE PermitInv'
  BY <1>5, <1>1 DEF TakeGate, Accept, ReplyLost, Attempts, Inside, Basic
<1>6. ASSUME NEW w \in Worker, MarkDone(w) \/ Drop(w) PROVE PermitInv'
  BY <1>6, <1>1 DEF MarkDone, Drop, Leave, Inside, Basic
<1>7. ASSUME NEW w \in Worker,
             Log(w) \/ UnknownMode(w) \/ Busy(w) \/ Fail(w) \/ Settle(w)
      PROVE  PermitInv'
  <2>1. (Return(w, "ok") \/ Return(w, "err")) /\ stage[w] \in {"entered", "exec", "doubt", "settle"}
    BY <1>7 DEF Log, UnknownMode, Busy, Fail, Settle
  <2> QED
    BY <2>1, <1>2
<1>8. ASSUME UNCHANGED <<stage, execPermits>> PROVE PermitInv'
  BY <1>8, <1>1 DEF Inside
<1>9. ASSUME NEW m \in Mint, Offer(m) \/ Expiry(m) PROVE PermitInv'
  BY <1>9, <1>8 DEF Offer, Expiry, InflightExpire, DoneExpire, tasks
<1>10. ASSUME ConsumerStep PROVE PermitInv'
  BY <1>10, <1>8 DEF ConsumerStep, CheckDone, CheckDoneWith, SkipInflight, EnterInflight, tasks
<1>11. ASSUME NEW w \in Worker, ExitProcess(w) PROVE PermitInv'
  BY <1>11, <1>8 DEF ExitProcess, tasks
<1>12. ASSUME UNCHANGED vars PROVE PermitInv'
  BY <1>12, <1>8 DEF vars
<1> QED
  BY <1>3, <1>4, <1>5, <1>6, <1>7, <1>9, <1>10, <1>11, <1>12
     DEF Next, LocalStep, EngineStep, Exited

(* The invariant the results below start from.                              *)
Inv == Basic /\ GateExclusive /\ PermitInv

LEMMA InvInvariant == SafeSpec => []Inv
<1>1. Init => Inv
  BY InitBasic, InitGate, InitPermit DEF Inv
<1>2. Inv /\ [Next]_vars => Inv'
  BY NextBasic, NextGate, NextPermit DEF Inv
<1> QED
  BY <1>1, <1>2, PTL DEF SafeSpec

LEMMA InvTypeOK == Inv => TypeOK
BY InsideFinite DEF Inv, Basic, PermitInv, TypeOK

LEMMA InvNoWait == Inv => NoWaitInsideExecutor
<1> SUFFICES ASSUME Inv, NEW w \in Worker, stage[w] = "spawned"
             PROVE  execPermits > 0
  BY DEF NoWaitInsideExecutor
<1>1. w \notin Inside
  BY DEF Inside
<1>2. Cardinality(Inside \cup {w}) = Cardinality(Inside) + 1
  BY <1>1, InsideFinite, FS_AddElement
<1>3. Cardinality(Inside \cup {w}) <= Cardinality(Worker)
  <2>1. Inside \cup {w} \subseteq Worker
    BY InsideFinite
  <2> QED
    BY <2>1, WorkerAssumption, FS_Subset
<1> QED
  BY <1>2, <1>3, InsideFinite DEF Inv, Basic, PermitInv

(* Type correctness: in particular no path of on_signal gives back a permit *)
(* of the executor's semaphore that it did not take.                        *)
THEOREM TypeCorrect == SafeSpec => []TypeOK
BY InvInvariant, InvTypeOK, PTL

(* Only the holder of exec_gate builds, submits or sleeps after a success.  *)
THEOREM OneExecutionAtATime == SafeSpec => []GateExclusive
<1>1. Inv => GateExclusive
  BY DEF Inv
<1> QED
  BY <1>1, InvInvariant, PTL

(* A spawned task finds a permit of Executor.sem, however many there are:   *)
(* the second semaphore never delays anything.                              *)
THEOREM SecondSemaphoreNeverWaits == SafeSpec => []NoWaitInsideExecutor
BY InvInvariant, InvNoWait, PTL

---------------------------------------------------------------------------
(* ONESHOT: once something was accepted, its task keeps the gate until the  *)
(* process exits, so nobody else can submit.                                *)

OneshotInv ==
    cfg.oneshot /\ cfg.jito /\ ~cfg.lossy =>
        \A m \in Mint : sent[m] > 0 =>
            /\ sent[m] = 1
            /\ \E w \in Worker : stage[w] = "settle" /\ mint[w] = m

LEMMA NextOneshot == Inv /\ OneshotInv /\ [Next]_vars => OneshotInv'
<1> SUFFICES ASSUME Inv, OneshotInv, [Next]_vars,
                    cfg'.oneshot, cfg'.jito, ~cfg'.lossy
             PROVE  \A m \in Mint : sent'[m] > 0 =>
                        /\ sent'[m] = 1
                        /\ \E w \in Worker : stage'[w] = "settle" /\ mint'[w] = m
  BY DEF OneshotInv
<1> DEFINE Goal == \A m \in Mint : sent'[m] > 0 =>
                       /\ sent'[m] = 1
                       /\ \E w \in Worker : stage'[w] = "settle" /\ mint'[w] = m
<1>0. cfg' = cfg
  BY DEF Next, ConsumerStep, LocalStep, EngineStep, Expiry, Exited, vars, Return, Leave,
         Offer, CheckDone, CheckDoneWith, SkipInflight, EnterInflight, Spawn, Enter, Log,
         UnknownMode, Busy, TakeGate, Fail, Accept, ReplyLost, ExitProcess, Settle,
         MarkDone, Drop, InflightExpire, DoneExpire
<1>1. \A m \in Mint : sent[m] > 0 =>
          /\ sent[m] = 1
          /\ \E w \in Worker : stage[w] = "settle" /\ mint[w] = m
  BY <1>0 DEF OneshotInv
<1>2. Exits /\ ~cfg.lossy
  BY <1>0 DEF Exits
<1>3. ASSUME UNCHANGED <<stage, mint, sent>> PROVE Goal
  BY <1>3, <1>1
<1>types. stage \in [Worker -> Stages] /\ mint \in [Worker -> Mint \cup {NoMint}]
  BY DEF Inv, Basic
<1>4. ASSUME NEW w \in Worker, stage[w] # "settle", UNCHANGED sent,
             stage' = [stage EXCEPT ![w] = stage'[w]], \A v \in Worker \ {w} : mint'[v] = mint[v]
      PROVE  Goal
  BY <1>4, <1>1, <1>types
<1>nat. sent \in [Mint -> Nat]
  BY BoundsAssumption DEF Inv, Basic
<1> USE DEF Inv, Basic
<1>5. ASSUME NEW w \in Worker, Accept(w) PROVE Goal
  <2>1. stage[w] \in {"exec", "doubt"} /\ gate = w /\ mint[w] \in Mint
    BY <1>5 DEF Accept, Attempts, GateExclusive
  <2>2. \A v \in Worker : stage[v] # "settle"
    BY <2>1 DEF GateExclusive
  <2>3. \A m \in Mint : sent[m] = 0
    <3> HIDE DEF Inv, Basic
    <3> QED
      BY <2>2, <1>1, <1>nat
  <2>4. sent' = [sent EXCEPT ![mint[w]] = 1]
    <3>1. sent[mint[w]] = 0 /\ 0 < MaxSent
      BY <2>1, <2>3, BoundsAssumption
    <3>2. CountSent(mint[w])
      BY <1>5 DEF Accept
    <3> QED
      BY <3>1, <3>2 DEF CountSent, UpTo
  <2>5. stage' = [stage EXCEPT ![w] = "settle"] /\ mint' = mint
    BY <1>5 DEF Accept
  <2> QED
    BY <2>1, <2>3, <2>4, <2>5
<1>6. ASSUME NEW w \in Worker, Settle(w) \/ ReplyLost(w) PROVE Goal
  BY <1>6, <1>2 DEF Settle, ReplyLost
<1>7. ASSUME NEW w \in Worker, Log(w) \/ UnknownMode(w) \/ Busy(w) \/ Fail(w) PROVE Goal
  BY <1>7, <1>4 DEF Log, UnknownMode, Busy, Fail, Return
<1>8. ASSUME NEW w \in Worker, Enter(w) \/ TakeGate(w) \/ Spawn(w) PROVE Goal
  BY <1>8, <1>4 DEF Enter, TakeGate, Spawn
<1>9. ASSUME NEW w \in Worker, MarkDone(w) \/ Drop(w) PROVE Goal
  BY <1>9, <1>4 DEF MarkDone, Drop, Leave
<1>10. ASSUME NEW m \in Mint, Offer(m) \/ InflightExpire(m) PROVE Goal
  BY <1>10, <1>3 DEF Offer, InflightExpire, tasks
<1>11. ASSUME NEW m \in Mint, DoneExpire(m) PROVE Goal
  BY <1>11, <1>1 DEF DoneExpire, tasks
<1>12. ASSUME ConsumerStep PROVE Goal
  BY <1>12, <1>3 DEF ConsumerStep, CheckDone, CheckDoneWith, SkipInflight, EnterInflight, tasks
<1>13. ASSUME NEW w \in Worker, ExitProcess(w) PROVE Goal
  BY <1>13, <1>3 DEF ExitProcess, tasks
<1>14. ASSUME UNCHANGED vars PROVE Goal
  BY <1>14, <1>3 DEF vars
<1> QED
  BY <1>5, <1>6, <1>7, <1>8, <1>9, <1>10, <1>11, <1>12, <1>13, <1>14
     DEF Next, LocalStep, EngineStep, Expiry, Exited

(* With ONESHOT and a block engine at most one submission is ever accepted. *)
THEOREM OneshotSubmitsOnce == SafeSpec => []OneshotSendsOnce
<1>1. Init => OneshotInv
  BY DEF Init, OneshotInv
<1>2. Inv /\ OneshotInv => OneshotSendsOnce
  <2> SUFFICES ASSUME Inv, OneshotInv, cfg.oneshot, cfg.jito, ~cfg.lossy
               PROVE  /\ \A m \in Mint : sent[m] <= 1
                      /\ \A m, n \in Mint : sent[m] > 0 /\ sent[n] > 0 => m = n
    BY DEF OneshotSendsOnce
  <2>1. \A m \in Mint : sent[m] > 0 =>
            sent[m] = 1 /\ \E w \in Worker : stage[w] = "settle" /\ mint[w] = m
    BY DEF OneshotInv
  <2>2. \A m \in Mint : sent[m] <= 1
    <3>1. sent \in [Mint -> Nat]
      BY BoundsAssumption DEF Inv, Basic
    <3> QED
      BY <2>1, <3>1
  <2>3. \A m, n \in Mint : sent[m] > 0 /\ sent[n] > 0 => m = n
    BY <2>1 DEF Inv, GateExclusive
  <2> QED
    BY <2>2, <2>3
<1> QED
  BY <1>1, <1>2, InvInvariant, NextOneshot, PTL DEF SafeSpec

---------------------------------------------------------------------------
(* Two buys per done window.  While an in-flight entry outlives its own     *)
(* signal, a mint has at most one carrier (a task, or the loop waiting for  *)
(* a permit), which is what Carried says.  Once a purchase was heard of,    *)
(* its mint is recorded or about to be, and only a signal that was between  *)
(* the two lookups at that moment buys again.                               *)

(* At most k of the accepted submissions for m were heard of.               *)
Heard(m, k) == sent[m] <= k + lost[m]

LEMMA HeardGrows ==
    ASSUME Basic, NEW m \in Mint
    PROVE  (Heard(m, 0) => Heard(m, 1)) /\ (Heard(m, 1) => Heard(m, 2))
<1>1. sent[m] \in Nat /\ lost[m] \in Nat
  BY BoundsAssumption DEF Basic
<1> QED
  BY <1>1 DEF Heard

LEMMA AcceptHeard ==
    ASSUME Basic, NEW m \in Mint, CountSent(m), lost' = lost
    PROVE  (Heard(m, 0) => Heard(m, 1)') /\ (Heard(m, 1) => Heard(m, 2)')
<1>1. sent[m] \in Nat /\ lost[m] \in Nat /\ sent'[m] \in Nat /\ sent'[m] <= sent[m] + 1
  BY BoundsAssumption DEF Basic, CountSent, UpTo
<1> QED
  BY <1>1 DEF Heard

LEMMA LostHeard ==
    ASSUME Basic, NEW m \in Mint, CountSent(m), CountLost(m), NEW k \in 0 .. 2, Heard(m, k)
    PROVE  Heard(m, k)'
<1>1. /\ sent[m] \in Nat /\ lost[m] \in Nat /\ MaxSent \in Nat
      /\ sent[m] <= MaxSent /\ lost[m] <= MaxSent
  BY BoundsAssumption DEF Basic
<1>2. sent'[m] = UpTo(sent[m]) /\ lost'[m] = UpTo(lost[m])
  BY DEF Basic, CountSent, CountLost
<1> QED
  BY <1>1, <1>2 DEF Heard, UpTo

OneCarrier(m) ==
    /\ \A w, v \in Worker : mint[w] = m /\ mint[v] = m => w = v
    /\ loop = "permit" /\ held = m => \A w \in Worker : mint[w] # m

CarrierInflight(m) == Carried(m) => m \in inflight

(* A purchase is recorded, or its carrier is about to record it.            *)
BuyRecorded(m) ==
    \/ Heard(m, 0)
    \/ m \in done
    \/ Heard(m, 1) /\ \E w \in Worker : mint[w] = m /\ stage[w] \in {"settle", "ok"}

(* A signal caught between the lookups finds no other task with its mint.   *)
CaughtAlone(m) ==
    loop = "gate" /\ held = m /\ m \in done => \A w \in Worker : mint[w] # m

(* After the second purchase nothing can buy before the mint expires.       *)
NoThird(m) ==
    \/ Heard(m, 1)
    \/ /\ Heard(m, 2) /\ m \in done /\ held # m
       /\ \A w \in Worker : mint[w] = m => stage[w] \in {"settle", "ok", "err"}

CoverBound(m) ==
    OneCarrier(m) /\ CarrierInflight(m) /\ BuyRecorded(m) /\ CaughtAlone(m) /\ NoThird(m)

CoverInv == cfg.covers => \A m \in Mint : CoverBound(m)

LEMMA NextCover == Inv /\ CoverInv /\ [Next]_vars => CoverInv'
<1> SUFFICES ASSUME Inv, CoverInv, [Next]_vars, cfg'.covers, NEW m \in Mint
             PROVE  CoverBound(m)'
  BY DEF CoverInv
<1>0. cfg' = cfg
  BY DEF Next, ConsumerStep, LocalStep, EngineStep, Expiry, Exited, vars, Return, Leave,
         Offer, CheckDone, CheckDoneWith, SkipInflight, EnterInflight, Spawn, Enter, Log,
         UnknownMode, Busy, TakeGate, Fail, Accept, ReplyLost, ExitProcess, Settle,
         MarkDone, Drop, InflightExpire, DoneExpire
<1>1. OneCarrier(m) /\ CarrierInflight(m) /\ BuyRecorded(m) /\ CaughtAlone(m) /\ NoThird(m)
  BY <1>0 DEF CoverInv, CoverBound
<1>2. cfg.covers
  BY <1>0
<1>types. /\ stage \in [Worker -> Stages] /\ mint \in [Worker -> Mint \cup {NoMint}]
          /\ m # NoMint /\ (held = NoMint <=> loop = "recv")
          /\ \A w \in Worker : mint[w] = NoMint <=> stage[w] = "free"
          /\ (Heard(m, 0) => Heard(m, 1)) /\ (Heard(m, 1) => Heard(m, 2))
  BY NamesAssumption, HeardGrows DEF Inv, Basic
<1> DEFINE SameCounts == \A k \in 0 .. 2 : Heard(m, k)' <=> Heard(m, k)
<1>same. ASSUME sent'[m] = sent[m], lost'[m] = lost[m] PROVE SameCounts
  BY <1>same DEF Heard
<1> USE DEF CoverBound, OneCarrier, CarrierInflight, Carried, BuyRecorded, CaughtAlone, NoThird
<1>3. ASSUME UNCHANGED <<inflight, done, loop, held, stage, mint>>, SameCounts PROVE CoverBound(m)'
  BY <1>3, <1>1
<1>4. ASSUME NEW n \in Mint, Offer(n) PROVE CoverBound(m)'
  BY <1>4, <1>3, <1>same DEF Offer, caches, tasks
<1>5. ASSUME CheckDone PROVE CoverBound(m)'
  <2>1. /\ UNCHANGED <<inflight, done, stage, mint>> /\ SameCounts /\ loop = "recv"
        /\ \/ UNCHANGED <<loop, held>>
           \/ loop' = "gate" /\ held' = Head(chan) /\ Head(chan) \notin done
    BY <1>5, <1>same DEF CheckDone, CheckDoneWith, caches, tasks
  <2> QED
    BY <2>1, <1>1, <1>types
<1>6. ASSUME SkipInflight PROVE CoverBound(m)'
  <2>1. /\ UNCHANGED <<inflight, done, stage, mint>> /\ SameCounts
        /\ loop' = "recv" /\ held' = NoMint
    BY <1>6, <1>same DEF SkipInflight, caches, tasks
  <2> QED
    BY <2>1, <1>1, <1>types
<1>7. ASSUME EnterInflight PROVE CoverBound(m)'
  <2>1. /\ held \notin inflight /\ loop = "gate" /\ loop' = "permit" /\ held' = held
        /\ inflight' = inflight \cup {held} /\ UNCHANGED <<done, stage, mint>> /\ SameCounts
    BY <1>7, <1>same DEF EnterInflight, tasks
  <2>2. held = m => \A w \in Worker : mint[w] # m
    BY <2>1, <1>1
  <2> QED
    BY <2>1, <2>2, <1>1, <1>types
<1>8. ASSUME NEW w \in Worker, Spawn(w) PROVE CoverBound(m)'
  <2>1. /\ loop = "permit" /\ loop' = "recv" /\ stage[w] = "free" /\ held' = NoMint
        /\ stage' = [stage EXCEPT ![w] = "spawned"] /\ mint' = [mint EXCEPT ![w] = held]
        /\ UNCHANGED <<inflight, done>> /\ SameCounts
    BY <1>8, <1>same DEF Spawn, caches
  <2>2. OneCarrier(m)' /\ CarrierInflight(m)' /\ CaughtAlone(m)'
    BY <2>1, <1>1, <1>types
  <2>3. BuyRecorded(m)'
    BY <2>1, <1>1, <1>types
  <2>4. NoThird(m)'
    BY <2>1, <1>1, <1>types
  <2> QED
    BY <2>2, <2>3, <2>4
<1>9. ASSUME NEW w \in Worker, NEW s \in Stages, stage' = [stage EXCEPT ![w] = s],
             stage[w] \in {"settle", "ok"} => s \in {"settle", "ok"},
             stage[w] \in {"settle", "ok", "err"} => s \in {"settle", "ok", "err"},
             UNCHANGED <<inflight, done, loop, held, mint>>, SameCounts
      PROVE  CoverBound(m)'
  BY <1>9, <1>1, <1>types
<1>10. ASSUME NEW w \in Worker,
              Enter(w) \/ TakeGate(w) \/ Log(w) \/ UnknownMode(w) \/ Busy(w) \/ Fail(w) \/ Settle(w)
       PROVE  CoverBound(m)'
  <2>1. /\ stage[w] \in {"spawned", "entered", "exec", "doubt", "settle"}
        /\ UNCHANGED <<inflight, done, loop, held, mint, sent, lost>>
        /\ \/ stage' = [stage EXCEPT ![w] = "ok"]
           \/ /\ stage[w] # "settle"
              /\ \E s \in {"entered", "exec", "err"} : stage' = [stage EXCEPT ![w] = s]
    BY <1>10 DEF Enter, TakeGate, Log, UnknownMode, Busy, Fail, Settle, Return, consumer
  <2> QED
    BY <2>1, <1>9, <1>same DEF Stages
<1>11. ASSUME NEW w \in Worker, Accept(w) PROVE CoverBound(m)'
  <2>1. /\ stage[w] \in {"exec", "doubt"} /\ mint[w] \in Mint
        /\ stage' = [stage EXCEPT ![w] = "settle"] /\ lost' = lost
        /\ UNCHANGED <<inflight, done, loop, held, mint>> /\ CountSent(mint[w])
    BY <1>11, <1>types DEF Accept, Attempts, consumer
  <2>2. CASE mint[w] # m
    <3>1. sent'[m] = sent[m]
      BY <2>1, <2>2 DEF CountSent
    <3>2. SameCounts
      BY <2>1, <3>1, <1>same
    <3> QED
      BY <2>1, <2>2, <3>2, <1>1, <1>types
  <2>3. CASE mint[w] = m
    <3>1. (Heard(m, 0) => Heard(m, 1)') /\ (Heard(m, 1) => Heard(m, 2)')
      BY <2>1, <2>3, AcceptHeard DEF Inv
    <3>2. /\ \A v \in Worker : mint[v] = m => v = w
          /\ ~(loop = "permit" /\ held = m) /\ Heard(m, 1)
      BY <2>1, <2>3, <1>1
    <3>3. Heard(m, 0) \/ (m \in done /\ held # m)
      BY <2>1, <2>3, <3>2, <1>1, <1>types DEF Inv, Basic
    <3>4. OneCarrier(m)' /\ CarrierInflight(m)' /\ CaughtAlone(m)'
      BY <2>1, <1>1
    <3>5. BuyRecorded(m)' /\ NoThird(m)'
      BY <2>1, <2>3, <3>1, <3>2, <3>3, <1>types
    <3> QED
      BY <3>4, <3>5
  <2> QED
    BY <2>2, <2>3
<1>12. ASSUME NEW w \in Worker, ReplyLost(w) PROVE CoverBound(m)'
  <2>1. /\ stage[w] \in {"exec", "doubt"} /\ mint[w] \in Mint
        /\ stage' = [stage EXCEPT ![w] = "doubt"]
        /\ UNCHANGED <<inflight, done, loop, held, mint>>
        /\ CountSent(mint[w]) /\ CountLost(mint[w])
    BY <1>12, <1>types DEF ReplyLost, Attempts, consumer
  <2>2. CASE mint[w] # m
    <3>1. sent'[m] = sent[m] /\ lost'[m] = lost[m]
      BY <2>1, <2>2 DEF CountSent, CountLost
    <3>2. SameCounts
      BY <3>1, <1>same
    <3> QED
      BY <2>1, <3>2, <1>9 DEF Stages
  <2>3. CASE mint[w] = m
    <3>1. \A k \in 0 .. 2 : Heard(m, k) => Heard(m, k)'
      BY <2>1, <2>3, LostHeard DEF Inv
    <3>2. Heard(m, 1)
      BY <2>1, <2>3, <1>1
    <3>3. BuyRecorded(m)'
      BY <2>1, <3>1, <1>1, <1>types
    <3> QED
      BY <2>1, <3>1, <3>2, <3>3, <1>1
  <2> QED
    BY <2>2, <2>3
<1>13. ASSUME NEW w \in Worker, ExitProcess(w) PROVE CoverBound(m)'
  BY <1>13, <1>3, <1>same DEF ExitProcess, consumer, tasks
<1>14. ASSUME NEW w \in Worker, MarkDone(w) \/ Drop(w) PROVE CoverBound(m)'
  <2>1. /\ stage[w] \in {"ok", "err"} /\ UNCHANGED <<inflight, loop, held>> /\ SameCounts
        /\ stage' = [stage EXCEPT ![w] = "free"] /\ mint' = [mint EXCEPT ![w] = NoMint]
        /\ \/ stage[w] = "ok" /\ done' = done \cup {mint[w]}
           \/ stage[w] = "err" /\ done' = done
    BY <1>14, <1>same DEF MarkDone, Drop, Leave, consumer
  <2>2. OneCarrier(m)' /\ CarrierInflight(m)' /\ CaughtAlone(m)'
    BY <2>1, <1>1, <1>types
  <2>3. BuyRecorded(m)'
    BY <2>1, <1>1, <1>types
  <2>4. NoThird(m)'
    BY <2>1, <1>1, <1>types
  <2> QED
    BY <2>2, <2>3, <2>4
<1>15. ASSUME NEW n \in Mint, InflightExpire(n) PROVE CoverBound(m)'
  <2>1. /\ inflight' = inflight \ {n} /\ ~Carried(n)
        /\ UNCHANGED <<done, loop, held, stage, mint>> /\ SameCounts
    BY <1>15, <1>2, <1>same DEF InflightExpire, tasks
  <2> QED
    BY <2>1, <1>1
<1>16. ASSUME NEW n \in Mint, DoneExpire(n) PROVE CoverBound(m)'
  <2>1. /\ done' = done \ {n} /\ UNCHANGED <<inflight, loop, held, stage, mint>>
        /\ sent' = [sent EXCEPT ![n] = 0] /\ lost' = [lost EXCEPT ![n] = 0]
    BY <1>16 DEF DoneExpire, consumer, tasks
  <2>2. CASE n = m
    <3>1. Heard(m, 0)' /\ Heard(m, 1)'
      BY <2>1, <2>2 DEF Inv, Basic, Heard
    <3> QED
      BY <2>1, <3>1, <1>1
  <2>3. CASE n # m
    <3>1. sent'[m] = sent[m] /\ lost'[m] = lost[m]
      BY <2>1, <2>3
    <3>2. SameCounts
      BY <3>1, <1>same
    <3> QED
      BY <2>1, <2>3, <3>2, <1>1
  <2> QED
    BY <2>2, <2>3
<1>17. ASSUME UNCHANGED vars PROVE CoverBound(m)'
  BY <1>17, <1>3, <1>same DEF vars
<1> QED
  BY <1>4, <1>5, <1>6, <1>7, <1>8, <1>10, <1>11, <1>12, <1>13, <1>14, <1>15, <1>16, <1>17
     DEF Next, ConsumerStep, LocalStep, EngineStep, Expiry, Exited

(* If an in-flight entry outlives the handling of its own signal, the two   *)
(* lookups of main.rs let a mint be bought at most twice per done window,   *)
(* whatever the number of permits; a lost reply allows one more each.       *)
THEOREM RebuyOnlyBetweenLookups == SafeSpec => []AtMostTwoBuys
<1>1. Init => CoverInv
  BY NamesAssumption
     DEF Init, CoverInv, CoverBound, OneCarrier, CarrierInflight, Carried, BuyRecorded,
         CaughtAlone, NoThird, Heard
<1>2. Inv /\ CoverInv => AtMostTwoBuys
  <2> SUFFICES ASSUME Inv, CoverInv, cfg.covers, NEW m \in Mint PROVE Heard(m, 2)
    BY DEF AtMostTwoBuys, Heard
  <2>1. Heard(m, 1) => Heard(m, 2)
    BY HeardGrows DEF Inv
  <2> QED
    BY <2>1 DEF CoverInv, CoverBound, NoThird
<1> QED
  BY <1>1, <1>2, InvInvariant, NextCover, PTL DEF SafeSpec

---------------------------------------------------------------------------
(* The bound on rebuys that needs no timing assumption.  A signal past the  *)
(* mint_done lookup that has not been submitted yet is pending; what was    *)
(* accepted plus what is pending never exceeds the permits plus one, plus   *)
(* the replies that were lost.                                              *)

Pending(m) == {w \in Worker : mint[w] = m /\ stage[w] \in {"spawned", "entered", "exec", "doubt"}}
Bought(m) == {w \in Worker : mint[w] = m /\ stage[w] \in {"settle", "ok"}}
InHand(m) == IF held = m THEN 1 ELSE 0

RebuyBound(m) ==
    /\ sent[m] + Cardinality(Pending(m)) + InHand(m) <= Cardinality(Worker) + 1 + lost[m]
    /\ m \notin done => sent[m] <= Cardinality(Bought(m)) + lost[m]

RebuyInv == \A m \in Mint : RebuyBound(m)

LEMMA CarriersCount ==
    ASSUME NEW S, NEW T, S \subseteq Worker, T \subseteq Worker, S \cap T = {}
    PROVE  /\ IsFiniteSet(S) /\ Cardinality(S) \in Nat
           /\ IsFiniteSet(T) /\ Cardinality(T) \in Nat
           /\ Cardinality(S) + Cardinality(T) <= Cardinality(Worker)
<1>1. S \cup T \subseteq Worker
  OBVIOUS
<1>2. IsFiniteSet(S) /\ IsFiniteSet(T)
  BY WorkerAssumption, FS_Subset
<1>3. Cardinality(S) \in Nat /\ Cardinality(T) \in Nat /\ Cardinality(Worker) \in Nat
  BY <1>2, WorkerAssumption, FS_CardinalityType
<1>4. Cardinality(S \cup T) = Cardinality(S) + Cardinality(T)
  <2>1. Cardinality(S \cap T) = 0
    BY FS_EmptySet
  <2>2. Cardinality(S \cup T) = Cardinality(S) + Cardinality(T) - Cardinality(S \cap T)
    BY <1>2, FS_Union
  <2> QED
    BY <2>1, <2>2, <1>3
<1>5. Cardinality(S \cup T) <= Cardinality(Worker)
  BY <1>1, WorkerAssumption, FS_Subset
<1> QED
  BY <1>2, <1>3, <1>4, <1>5

LEMMA CarriersFinite ==
    ASSUME NEW m
    PROVE  /\ IsFiniteSet(Pending(m)) /\ Cardinality(Pending(m)) \in Nat
           /\ IsFiniteSet(Bought(m)) /\ Cardinality(Bought(m)) \in Nat
           /\ Cardinality(Pending(m)) + Cardinality(Bought(m)) <= Cardinality(Worker)
<1>1. Pending(m) \subseteq Worker /\ Bought(m) \subseteq Worker
      /\ Pending(m) \cap Bought(m) = {}
  BY DEF Pending, Bought
<1> QED
  BY <1>1, CarriersCount

LEMMA NextRebuy == Inv /\ RebuyInv /\ [Next]_vars => RebuyInv'
<1> SUFFICES ASSUME Inv, RebuyInv, [Next]_vars, NEW m \in Mint
             PROVE  RebuyBound(m)'
  BY DEF RebuyInv
<1> DEFINE P == Cardinality(Pending(m))
           B == Cardinality(Bought(m))
           N == Cardinality(Worker)
<1> USE DEF Inv, Basic
<1>1. /\ sent[m] + P + InHand(m) <= N + 1 + lost[m]
      /\ m \notin done => sent[m] <= B + lost[m]
  BY DEF RebuyInv, RebuyBound
<1>2. /\ P \in Nat /\ B \in Nat /\ N \in Nat /\ P + B <= N
      /\ sent[m] \in Nat /\ lost[m] \in Nat /\ InHand(m) \in {0, 1}
  BY CarriersFinite, InsideFinite DEF InHand
<1>3. /\ IsFiniteSet(Pending(m)') /\ IsFiniteSet(Bought(m)')
      /\ P' \in Nat /\ B' \in Nat /\ P' + B' <= N /\ N' = N
  <2>1. Pending(m)' \subseteq Worker /\ Bought(m)' \subseteq Worker
        /\ Pending(m)' \cap Bought(m)' = {}
    BY DEF Pending, Bought
  <2> QED
    BY <2>1, CarriersCount
<1> HIDE DEF P, B, N
<1>4. ASSUME sent'[m] + P' + InHand(m)' <= N + 1 + lost'[m],
             m \notin done' => sent'[m] <= B' + lost'[m]
      PROVE  RebuyBound(m)'
  BY <1>4 DEF RebuyBound, P, B, N
<1>5. ASSUME UNCHANGED <<done, held, stage, mint, sent, lost>> PROVE RebuyBound(m)'
  <2>1. P' = P /\ B' = B /\ InHand(m)' = InHand(m)
    BY <1>5 DEF P, B, Pending, Bought, InHand
  <2> QED
    BY <2>1, <1>5, <1>1, <1>4
<1>6. ASSUME NEW n \in Mint, Offer(n) \/ InflightExpire(n) PROVE RebuyBound(m)'
  BY <1>6, <1>5 DEF Offer, InflightExpire, caches, tasks
<1>7. ASSUME CheckDone PROVE RebuyBound(m)'
  <2>1. P' = P /\ B' = B /\ sent' = sent /\ lost' = lost /\ done' = done
    BY <1>7 DEF CheckDone, CheckDoneWith, caches, tasks, P, B, Pending, Bought
  <2>2. CASE held' = held
    BY <2>1, <2>2, <1>1, <1>4 DEF InHand
  <2>3. CASE held' = Head(chan) /\ Head(chan) \notin done /\ held = NoMint
    <3>1. InHand(m)' = 1 => m \notin done
      BY <2>3 DEF InHand
    <3>2. InHand(m)' \in {0, 1} /\ done' = done /\ sent'[m] = sent[m] /\ lost'[m] = lost[m]
      BY <2>1 DEF InHand
    <3> HIDE DEF Inv, Basic
    <3>3. sent[m] + P + InHand(m)' <= N + 1 + lost[m]
      BY <3>1, <3>2, <1>1, <1>2
    <3> QED
      BY <2>1, <3>2, <3>3, <1>1, <1>4
  <2> QED
    BY <1>7, <2>2, <2>3 DEF CheckDone, CheckDoneWith
<1>8. ASSUME SkipInflight \/ EnterInflight PROVE RebuyBound(m)'
  <2>1. UNCHANGED <<sent, lost, done, stage, mint>> /\ held' \in {held, NoMint}
    BY <1>8 DEF SkipInflight, EnterInflight, caches, tasks
  <2>2. Pending(m)' = Pending(m) /\ Bought(m)' = Bought(m)
    BY <2>1 DEF Pending, Bought
  <2>3. InHand(m)' \in {0, InHand(m)}
    BY <2>1, NamesAssumption DEF InHand
  <2> QED
    BY <2>1, <2>2, <2>3, <1>1, <1>2, <1>4 DEF P, B
<1>9. ASSUME NEW w \in Worker, Spawn(w) PROVE RebuyBound(m)'
  <2>1. stage[w] = "free" /\ mint[w] = NoMint /\ held \in Mint /\ held' = NoMint
        /\ stage' = [stage EXCEPT ![w] = "spawned"] /\ mint' = [mint EXCEPT ![w] = held]
        /\ sent' = sent /\ lost' = lost /\ done' = done
    BY <1>9 DEF Spawn, caches
  <2>2. Bought(m)' = Bought(m) /\ w \notin Pending(m)
    BY <2>1, NamesAssumption DEF Bought, Pending
  <2>3. CASE held = m
    <3>1. Pending(m)' = Pending(m) \cup {w}
      BY <2>1, <2>3 DEF Pending
    <3>2. P' = P + 1
      BY <3>1, <2>2, CarriersFinite, FS_AddElement DEF P
    <3> QED
      BY <3>2, <2>1, <2>2, <2>3, <1>1, <1>2, <1>4, NamesAssumption DEF InHand, B
  <2>4. CASE held # m
    <3>1. Pending(m)' = Pending(m)
      BY <2>1, <2>4, NamesAssumption DEF Pending
    <3> QED
      BY <3>1, <2>1, <2>2, <2>4, <1>1, <1>2, <1>4, NamesAssumption DEF InHand, P, B
  <2> QED
    BY <2>3, <2>4
<1>10. ASSUME NEW w \in Worker, Enter(w) \/ TakeGate(w) PROVE RebuyBound(m)'
  <2>1. Pending(m)' = Pending(m) /\ Bought(m)' = Bought(m)
    BY <1>10 DEF Enter, TakeGate, consumer, Pending, Bought
  <2>2. UNCHANGED <<sent, lost, done, held>>
    BY <1>10 DEF Enter, TakeGate, consumer
  <2> QED
    BY <2>1, <2>2, <1>1, <1>4 DEF InHand, P, B
<1>11. ASSUME NEW w \in Worker,
              Log(w) \/ UnknownMode(w) \/ Busy(w) \/ Fail(w) \/ Settle(w)
       PROVE  RebuyBound(m)'
  <2>1. stage[w] \in {"entered", "exec", "doubt", "settle"}
        /\ UNCHANGED <<sent, lost, done, held, mint>>
        /\ \/ stage' = [stage EXCEPT ![w] = "ok"]
           \/ stage[w] # "settle" /\ stage' = [stage EXCEPT ![w] = "err"]
    BY <1>11 DEF Log, UnknownMode, Busy, Fail, Settle, Return, consumer
  <2>2. Pending(m)' \subseteq Pending(m) /\ Bought(m) \subseteq Bought(m)'
    BY <2>1 DEF Pending, Bought
  <2>4. P' <= P /\ B <= B'
    BY <2>2, <1>3, CarriersFinite, FS_Subset DEF P, B
  <2> QED
    BY <2>1, <2>4, <1>1, <1>2, <1>3, <1>4 DEF InHand
<1>12. ASSUME NEW w \in Worker, Accept(w) PROVE RebuyBound(m)'
  <2>1. stage[w] \in {"exec", "doubt"} /\ mint[w] \in Mint /\ CountSent(mint[w])
        /\ stage' = [stage EXCEPT ![w] = "settle"] /\ UNCHANGED <<done, held, mint, lost>>
    BY <1>12 DEF Accept, Attempts, consumer
  <2>2. CASE mint[w] = m
    <3>1. w \in Pending(m) /\ Pending(m)' = Pending(m) \ {w}
          /\ w \notin Bought(m) /\ Bought(m)' = Bought(m) \cup {w}
      BY <2>1, <2>2 DEF Pending, Bought
    <3>2. P' = P - 1
      BY <3>1, CarriersFinite, FS_RemoveElement DEF P
    <3>4. B' = B + 1
      BY <3>1, CarriersFinite, FS_AddElement DEF B
    <3>3. sent'[m] \in Int /\ sent'[m] <= sent[m] + 1
      BY <2>1, <2>2, <1>2 DEF CountSent, UpTo
    <3>5. lost'[m] = lost[m] /\ done' = done /\ InHand(m)' = InHand(m)
      BY <2>1 DEF InHand
    <3> HIDE DEF Inv, Basic
    <3> QED
      BY <3>2, <3>3, <3>4, <3>5, <1>1, <1>2, <1>4
  <2>3. CASE mint[w] # m
    <3>1. Pending(m)' = Pending(m) /\ Bought(m)' = Bought(m) /\ sent'[m] = sent[m]
      BY <2>1, <2>3 DEF Pending, Bought, CountSent
    <3> QED
      BY <3>1, <2>1, <1>1, <1>4 DEF InHand, P, B
  <2> QED
    BY <2>2, <2>3
<1>13. ASSUME NEW w \in Worker, ReplyLost(w) PROVE RebuyBound(m)'
  <2>1. stage[w] \in {"exec", "doubt"} /\ mint[w] \in Mint
        /\ CountSent(mint[w]) /\ CountLost(mint[w])
        /\ stage' = [stage EXCEPT ![w] = "doubt"] /\ UNCHANGED <<done, held, mint>>
    BY <1>13 DEF ReplyLost, Attempts, consumer
  <2>2. Bought(m)' = Bought(m) /\ Pending(m)' = Pending(m)
    BY <2>1 DEF Bought, Pending
  <2>3. CASE mint[w] = m
    <3>1. w \in Pending(m)
      BY <2>1, <2>3 DEF Pending
    <3>2. P' = P
      BY <2>2 DEF P
    <3>3. /\ sent'[m] = UpTo(sent[m]) /\ lost'[m] = UpTo(lost[m])
          /\ sent[m] <= MaxSent /\ lost[m] <= MaxSent /\ MaxSent \in Nat
      BY <2>1, <2>3, BoundsAssumption DEF CountSent, CountLost
    <3>4. \/ sent'[m] <= sent[m] + 1 /\ lost'[m] = lost[m] + 1
          \/ sent'[m] <= MaxSent /\ lost'[m] = MaxSent
      BY <3>3, <1>2 DEF UpTo
    <3>5. sent'[m] \in Nat /\ lost'[m] \in Nat
      BY <3>3, <1>2 DEF UpTo
    <3>6. InHand(m)' = InHand(m)
      BY <2>1 DEF InHand
    <3>7. P' <= N /\ B' = B
      BY <3>2, <2>2, <1>2, <1>3 DEF B
    <3>8. sent'[m] + P' + InHand(m)' <= N + 1 + lost'[m]
      <4>1. sent[m] + P + InHand(m) <= N + 1 + lost[m] /\ P' = P
        BY <3>2, <1>1
      <4> HIDE DEF Inv, Basic
      <4> QED
        BY <4>1, <3>4, <3>5, <3>6, <3>7, <1>2, <1>3
    <3>9. m \notin done' => sent'[m] <= B' + lost'[m]
      <4>1. m \notin done' => sent[m] <= B + lost[m]
        BY <2>1, <1>1
      <4> HIDE DEF Inv, Basic
      <4> QED
        BY <4>1, <3>4, <3>5, <3>7, <1>2
    <3> QED
      BY <3>8, <3>9, <1>4
  <2>4. CASE mint[w] # m
    <3>1. sent'[m] = sent[m] /\ lost'[m] = lost[m]
      BY <2>1, <2>4 DEF CountSent, CountLost
    <3> QED
      BY <3>1, <2>1, <2>2, <1>1, <1>4 DEF InHand, P, B
  <2> QED
    BY <2>3, <2>4
<1>14. ASSUME NEW w \in Worker, ExitProcess(w) PROVE RebuyBound(m)'
  BY <1>14, <1>5 DEF ExitProcess, consumer, tasks
<1>15. ASSUME NEW w \in Worker, MarkDone(w) \/ Drop(w) PROVE RebuyBound(m)'
  <2>1. stage[w] \in {"ok", "err"} /\ UNCHANGED <<sent, lost, held>> /\ done \subseteq done'
        /\ stage' = [stage EXCEPT ![w] = "free"] /\ mint' = [mint EXCEPT ![w] = NoMint]
        /\ (stage[w] = "ok" => mint[w] \in done')
    BY <1>15 DEF MarkDone, Drop, Leave, consumer
  <2>2. Pending(m)' = Pending(m)
    BY <2>1, NamesAssumption DEF Pending
  <2>3. m \notin done' => Bought(m)' = Bought(m)
    BY <2>1, NamesAssumption DEF Bought
  <2> QED
    BY <2>1, <2>2, <2>3, <1>1, <1>4 DEF InHand, P, B
<1>16. ASSUME NEW n \in Mint, DoneExpire(n) PROVE RebuyBound(m)'
  <2>1. Pending(m)' = Pending(m) /\ Bought(m)' = Bought(m) /\ InHand(m)' = InHand(m)
    BY <1>16 DEF DoneExpire, consumer, tasks, Pending, Bought, InHand
  <2>2. CASE n = m
    <3>1. sent'[m] = 0 /\ lost'[m] = 0
      BY <1>16, <2>2 DEF DoneExpire
    <3> QED
      BY <3>1, <2>1, <1>1, <1>2, <1>4 DEF P, B
  <2>3. CASE n # m
    <3>1. sent'[m] = sent[m] /\ lost'[m] = lost[m] /\ (m \in done' <=> m \in done)
      BY <1>16, <2>3 DEF DoneExpire
    <3> QED
      BY <3>1, <2>1, <1>1, <1>4 DEF P, B
  <2> QED
    BY <2>2, <2>3
<1>17. ASSUME UNCHANGED vars PROVE RebuyBound(m)'
  BY <1>17, <1>5 DEF vars
<1> QED
  BY <1>6, <1>7, <1>8, <1>9, <1>10, <1>11, <1>12, <1>13, <1>14, <1>15, <1>16, <1>17
     DEF Next, ConsumerStep, LocalStep, EngineStep, Expiry, Exited

(* Without any timing assumption a mint is bought at most                   *)
(* executor_concurrency + 1 times until it expires from done, and once more *)
(* for each lost reply.                                                     *)
THEOREM RebuyBounded == SafeSpec => []BoundedRebuy
<1>1. Init => RebuyInv
  <2> SUFFICES ASSUME Init, NEW m \in Mint PROVE RebuyBound(m)
    BY DEF RebuyInv
  <2>1. Pending(m) = {} /\ Bought(m) = {} /\ InHand(m) = 0 /\ sent[m] = 0 /\ lost[m] = 0
    BY NamesAssumption DEF Init, Pending, Bought, InHand
  <2>2. Cardinality(Pending(m)) = 0 /\ Cardinality(Bought(m)) = 0
    BY <2>1, FS_EmptySet
  <2> QED
    BY <2>1, <2>2, InsideFinite DEF RebuyBound
<1>2. Inv /\ RebuyInv => BoundedRebuy
  <2> SUFFICES ASSUME Inv, RebuyInv, NEW m \in Mint
               PROVE  sent[m] <= Cardinality(Worker) + 1 + lost[m]
    BY DEF BoundedRebuy
  <2>1. sent[m] + Cardinality(Pending(m)) + InHand(m) <= Cardinality(Worker) + 1 + lost[m]
    BY DEF RebuyInv, RebuyBound
  <2> QED
    BY <2>1, CarriersFinite, InsideFinite DEF InHand, Inv, Basic
<1> QED
  BY <1>1, <1>2, InvInvariant, NextRebuy, PTL DEF SafeSpec

---------------------------------------------------------------------------
(* Refinement of the buy desk.                                              *)

(* Whoever holds exec_gate serves one client, as BuyDesk demands.           *)
THEOREM ImplementsDesk == SafeSpec => DeskSafe
<1> USE NamesAssumption
<1>1. Init => Desk!Init
  BY DEF Init, Desk!Init, deskClient, deskPhase
<1>2. Inv /\ [Next]_vars => [Desk!Next]_(Desk!deskVars)
  <2> SUFFICES ASSUME Inv, [Next]_vars PROVE [Desk!Next]_(Desk!deskVars)
    OBVIOUS
  <2> USE DEF Inv, Basic, GateExclusive
  <2>1. ASSUME UNCHANGED <<running, gate, stage, mint>> PROVE UNCHANGED Desk!deskVars
    BY <2>1 DEF Desk!deskVars, deskClient, deskPhase
  <2>2. ASSUME NEW w \in Worker, Spawn(w) \/ Enter(w) \/ MarkDone(w) \/ Drop(w)
        PROVE  UNCHANGED Desk!deskVars
    BY <2>2 DEF Spawn, Enter, MarkDone, Drop, Leave, Desk!deskVars, deskClient, deskPhase
  <2>3. ASSUME NEW w \in Worker, Log(w) \/ UnknownMode(w) \/ Busy(w)
        PROVE  UNCHANGED Desk!deskVars
    BY <2>3 DEF Log, UnknownMode, Busy, Return, Desk!deskVars, deskClient, deskPhase
  <2>4. ASSUME NEW w \in Worker, TakeGate(w) PROVE Desk!Open(mint[w])
    BY <2>4 DEF TakeGate, Desk!Open, deskClient, deskPhase
  <2>5. ASSUME NEW w \in Worker, Fail(w) PROVE Desk!LeaveUnsold
    BY <2>5 DEF Fail, Return, Desk!LeaveUnsold, deskClient, deskPhase
  <2>13. ASSUME NEW w \in Worker, ReplyLost(w) PROVE Desk!Doubt \/ UNCHANGED Desk!deskVars
    BY <2>13 DEF ReplyLost, Attempts, Desk!Doubt, Desk!deskVars, deskClient, deskPhase
  <2>6. ASSUME NEW w \in Worker, Accept(w) PROVE Desk!Sell
    BY <2>6 DEF Accept, Attempts, Desk!Sell, deskClient, deskPhase
  <2>7. ASSUME NEW w \in Worker, Settle(w) PROVE Desk!LeaveSold
    BY <2>7 DEF Settle, Return, Desk!LeaveSold, deskClient, deskPhase
  <2>8. ASSUME NEW w \in Worker, ExitProcess(w) PROVE Desk!Shut
    BY <2>8 DEF ExitProcess, tasks, Desk!Shut, deskClient, deskPhase
  <2>9. ASSUME NEW m \in Mint, Offer(m) \/ Expiry(m) PROVE UNCHANGED Desk!deskVars
    BY <2>9, <2>1 DEF Offer, Expiry, InflightExpire, DoneExpire, tasks
  <2>10. ASSUME ConsumerStep PROVE UNCHANGED Desk!deskVars
    BY <2>10, <2>1 DEF ConsumerStep, CheckDone, CheckDoneWith, SkipInflight, EnterInflight, tasks
  <2>11. ASSUME UNCHANGED vars PROVE UNCHANGED Desk!deskVars
    BY <2>11, <2>1 DEF vars
  <2>12. ASSUME NEW w \in Worker, TakeGate(w) PROVE mint[w] \in Mint
    BY <2>12 DEF TakeGate
  <2> QED
    BY <2>2, <2>3, <2>4, <2>5, <2>6, <2>7, <2>8, <2>9, <2>10, <2>11, <2>12, <2>13
       DEF Next, LocalStep, EngineStep, Exited, Desk!Next
<1> QED
  BY <1>1, <1>2, InvInvariant, PTL DEF SafeSpec, DeskSafe, Desk!SafeSpec
=============================================================================
