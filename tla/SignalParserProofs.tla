------------------------- MODULE SignalParserProofs -------------------------
(* Proofs about AltResolver, for any number of tables, callers and permits; *)
(* that the parser uses the resolver only as AltResolver says; and that     *)
(* what it says of a transaction is what the transaction contains.          *)
EXTENDS SignalParser, FoldLemmas, FiniteSetTheorems, SequenceTheorems, TLAPS

Counted == free + Cardinality(Asking) + Cardinality(Reading) = Permits
Aboard == \A c \in Client : call[c].op = "wait" => flight[call[c].table] # "none"
AltInv == AltTypeOK /\ Counted /\ Aboard

---------------------------------------------------------------------------
LEMMA AltTypeInit == AltInit => AltTypeOK
  BY TableAssumption, PermitAssumption
     DEF AltInit, AltTypeOK, NoCall, Call, Flights, Ops, Missing

LEMMA GetType ==
  ASSUME AltTypeOK, NEW c \in Client, NEW t \in TableKey, Get(c, t)
  PROVE  AltTypeOK'
  BY TableAssumption DEF AltTypeOK, Get, Board, Call, Flights, Ops, Missing

LEMMA TableStepType ==
  ASSUME AltTypeOK, NEW t \in TableKey,
         TableStep(t) \/ Spawn(t) \/ Expire(t) \/ Extend(t)
  PROVE  AltTypeOK'
<1> USE TableAssumption, PermitAssumption DEF AltTypeOK, Flights, Ops, Missing
<1>1. CASE Prefetch(t) BY <1>1 DEF Prefetch, Board
<1>2. CASE Acquire(t) BY <1>2 DEF Acquire
<1>3. CASE Fetched(t) BY <1>3 DEF Fetched, Land, Call
<1>4. CASE FetchFailed(t) BY <1>4 DEF FetchFailed, Land, Call
<1>5. CASE Spawn(t) BY <1>5 DEF Spawn
<1>6. CASE Expire(t) BY <1>6 DEF Expire
<1>7. CASE Extend(t) BY <1>7 DEF Extend
<1> QED BY <1>1, <1>2, <1>3, <1>4, <1>5, <1>6, <1>7 DEF TableStep

LEMMA CallStepType ==
  ASSUME AltTypeOK, NEW c \in Client, CallStep(c) \/ Batch(c) \/ Take(c)
  PROVE  AltTypeOK'
<1> USE TableAssumption DEF AltTypeOK, Ops
<1>1. CASE BatchAcquire(c) BY <1>1 DEF BatchAcquire
<1>2. CASE BatchEnds(c) BY <1>2 DEF BatchEnds
<1>3. CASE Batch(c) BY <1>3 DEF Batch
<1>4. CASE Take(c) BY <1>4 DEF Take, NoCall, Call
<1> QED BY <1>1, <1>2, <1>3, <1>4 DEF CallStep

LEMMA AltTypeStep == ASSUME AltTypeOK, [AltNext]_alt PROVE AltTypeOK'
<1>1. CASE UNCHANGED alt BY <1>1 DEF alt, AltTypeOK
<1>2. CASE AltNext
  BY <1>2, GetType, TableStepType, CallStepType DEF AltNext, ResolverStep, World
<1> QED BY <1>1, <1>2

---------------------------------------------------------------------------
(* Permits are neither lost nor made.                                       *)

LEMMA Finite == IsFiniteSet(Asking) /\ IsFiniteSet(Reading)
<1>1. Asking \subseteq TableKey /\ Reading \subseteq Client BY DEF Asking, Reading
<1> QED BY <1>1, FS_Subset, TableAssumption, ClientAssumption

LEMMA Counts == Cardinality(Asking) \in Nat /\ Cardinality(Reading) \in Nat
  BY Finite, FS_CardinalityType

LEMMA CountedInit == AltInit => Counted
<1> SUFFICES ASSUME AltInit PROVE Counted OBVIOUS
<1>1. Asking = {} /\ Reading = {} BY DEF AltInit, Asking, Reading, NoCall, Call
<1> QED BY <1>1, FS_EmptySet, PermitAssumption DEF AltInit, Counted

LEMMA SameCount ==
  ASSUME Counted, free' = free, Asking' = Asking, Reading' = Reading
  PROVE  Counted'
  BY DEF Counted

(* A step that changes the waiting only.                                    *)
LEMMA WaitCounts ==
  ASSUME AltTypeOK, Counted, NEW c, NEW t,
         \/ c \in Client /\ t \in TableKey /\ Get(c, t)
         \/ t \in TableKey /\ (Prefetch(t) \/ Spawn(t) \/ Expire(t) \/ Extend(t))
         \/ c \in Client /\ (Batch(c) \/ Take(c))
  PROVE  Counted'
<1> USE DEF AltTypeOK, Asking, Reading
<1>1. CASE c \in Client /\ t \in TableKey /\ Get(c, t)
  <2>1. Asking' = Asking BY <1>1 DEF Get, Board
  <2>2. Reading' = Reading BY <1>1 DEF Get, Call
  <2> QED BY <1>1, <2>1, <2>2, SameCount DEF Get
<1>2. CASE t \in TableKey /\ Prefetch(t)
  <2>1. Asking' = Asking BY <1>2 DEF Prefetch, Board
  <2> QED BY <1>2, <2>1, SameCount DEF Prefetch
<1>3. CASE Spawn(t) \/ Expire(t) \/ Extend(t)
  BY <1>3, SameCount DEF Spawn, Expire, Extend
<1>4. CASE c \in Client /\ (Batch(c) \/ Take(c))
  <2>1. Reading' = Reading BY <1>4 DEF Batch, Take, NoCall, Call
  <2> QED BY <1>4, <2>1, SameCount DEF Batch, Take
<1> QED BY <1>1, <1>2, <1>3, <1>4

LEMMA TableCounts ==
  ASSUME AltTypeOK, Counted, NEW t \in TableKey, Acquire(t) \/ Fetched(t) \/ FetchFailed(t)
  PROVE  Counted'
<1> USE Finite, Counts DEF AltTypeOK
<1>1. CASE Acquire(t)
  <2>1. Asking' = Asking \cup {t} /\ t \notin Asking BY <1>1 DEF Acquire, Asking
  <2>2. Cardinality(Asking') = Cardinality(Asking) + 1 BY <2>1, FS_AddElement
  <2>3. Reading' = Reading BY <1>1 DEF Acquire, Reading
  <2> QED BY <1>1, <2>2, <2>3 DEF Acquire, Counted
<1>2. ASSUME NEW op \in {"got", "failed"}, NEW len, Land(t, op, len) PROVE Counted'
  <2>1. Asking' = Asking \ {t} /\ t \in Asking BY <1>2 DEF Land, Asking
  <2>2. Cardinality(Asking') = Cardinality(Asking) - 1 BY <2>1, FS_RemoveElement
  <2>3. Reading' = Reading BY <1>2 DEF Land, Reading, Call
  <2> QED BY <1>2, <2>2, <2>3 DEF Land, Counted
<1> QED BY <1>1, <1>2 DEF Fetched, FetchFailed

LEMMA BatchCounts ==
  ASSUME AltTypeOK, Counted, NEW c \in Client, CallStep(c)
  PROVE  Counted'
<1> USE Finite, Counts DEF AltTypeOK
<1>1. CASE BatchAcquire(c)
  <2>1. Reading' = Reading \cup {c} /\ c \notin Reading BY <1>1 DEF BatchAcquire, Reading
  <2>2. Cardinality(Reading') = Cardinality(Reading) + 1 BY <2>1, FS_AddElement
  <2>3. Asking' = Asking BY <1>1 DEF BatchAcquire, Asking
  <2> QED BY <1>1, <2>2, <2>3 DEF BatchAcquire, Counted
<1>2. CASE BatchEnds(c)
  <2>1. Reading' = Reading \ {c} /\ c \in Reading BY <1>2 DEF BatchEnds, Reading
  <2>2. Cardinality(Reading') = Cardinality(Reading) - 1 BY <2>1, FS_RemoveElement
  <2>3. Asking' = Asking BY <1>2 DEF BatchEnds, Asking
  <2> QED BY <1>2, <2>2, <2>3 DEF BatchEnds, Counted
<1> QED BY <1>1, <1>2 DEF CallStep

LEMMA CountedStep == ASSUME AltTypeOK, Counted, [AltNext]_alt PROVE Counted'
<1>1. CASE UNCHANGED alt BY <1>1, SameCount DEF alt, Asking, Reading
<1>2. ASSUME NEW t \in TableKey, TableStep(t) \/ Spawn(t) \/ Expire(t) \/ Extend(t)
      PROVE Counted'
  <2>1. CASE Prefetch(t) \/ Spawn(t) \/ Expire(t) \/ Extend(t)
    BY <2>1, WaitCounts
  <2> QED BY <1>2, <2>1, TableCounts DEF TableStep
<1>3. CASE AltNext
  BY <1>2, <1>3, WaitCounts, BatchCounts DEF AltNext, ResolverStep, World
<1> QED BY <1>1, <1>3

---------------------------------------------------------------------------
(* Nobody waits for a fetch that is not under way, and a table only grows.  *)

LEMMA AboardStep == ASSUME AltTypeOK, Aboard, [AltNext]_alt PROVE Aboard'
<1> USE TableAssumption DEF AltTypeOK, Aboard, Flights
<1>1. CASE UNCHANGED alt BY <1>1 DEF alt
<1>2. ASSUME NEW c \in Client, NEW t \in TableKey, Get(c, t) PROVE Aboard'
  BY <1>2 DEF Get, Board, Call
<1>3. ASSUME NEW t \in TableKey, TableStep(t) \/ Spawn(t) \/ Expire(t) \/ Extend(t)
      PROVE Aboard'
  <2>1. CASE Prefetch(t) BY <2>1 DEF Prefetch, Board
  <2>2. CASE Acquire(t) BY <2>2 DEF Acquire
  <2>3. CASE Fetched(t) \/ FetchFailed(t) BY <2>3 DEF Fetched, FetchFailed, Land, Call
  <2>4. CASE Spawn(t) \/ Expire(t) \/ Extend(t) BY <2>4 DEF Spawn, Expire, Extend
  <2> QED BY <1>3, <2>1, <2>2, <2>3, <2>4 DEF TableStep
<1>4. ASSUME NEW c \in Client, CallStep(c) \/ Batch(c) \/ Take(c) PROVE Aboard'
  BY <1>4 DEF CallStep, BatchAcquire, BatchEnds, Batch, Take, NoCall, Call
<1> QED BY <1>1, <1>2, <1>3, <1>4 DEF AltNext, ResolverStep, World

LEMMA ListsStep ==
  ASSUME AltTypeOK, ListsAreBeginnings, [AltNext]_alt PROVE ListsAreBeginnings'
<1> USE TableAssumption DEF AltTypeOK, ListsAreBeginnings, Missing
<1>1. CASE UNCHANGED alt BY <1>1 DEF alt
<1>2. ASSUME NEW c \in Client, NEW t \in TableKey, Get(c, t) PROVE ListsAreBeginnings'
  BY <1>2 DEF Get, Call
<1>3. ASSUME NEW t \in TableKey, TableStep(t) \/ Spawn(t) \/ Expire(t) \/ Extend(t)
      PROVE ListsAreBeginnings'
  <2>1. CASE Prefetch(t) \/ Acquire(t) \/ Spawn(t) BY <2>1 DEF Prefetch, Acquire, Spawn
  <2>2. CASE Fetched(t) BY <2>2 DEF Fetched, Land, Call
  <2>3. CASE FetchFailed(t) BY <2>3 DEF FetchFailed, Land, Call
  <2>4. CASE Expire(t) BY <2>4 DEF Expire
  <2>5. CASE Extend(t) BY <2>5 DEF Extend
  <2> QED BY <1>3, <2>1, <2>2, <2>3, <2>4, <2>5 DEF TableStep
<1>4. ASSUME NEW c \in Client, CallStep(c) \/ Batch(c) \/ Take(c) PROVE ListsAreBeginnings'
  BY <1>4 DEF CallStep, BatchAcquire, BatchEnds, Batch, Take, NoCall, Call
<1> QED BY <1>1, <1>2, <1>3, <1>4 DEF AltNext, ResolverStep, World

---------------------------------------------------------------------------
(* The parser takes the resolver's steps and no others.                     *)


(* What a parse is about, whatever comes out of it.                         *)
Fields == {"at", "tx", "next", "writable", "readonly", "res"}
JobInv ==
    \A c \in Client :
        /\ DOMAIN job[c] = Fields
        /\ job[c].tx \in Arrivals[c] \cup {NoTx}
        /\ job[c].next \in Nat \ {0}

LEMMA JobInit == Init => JobInv
  BY DEF Init, Idle, JobInv, Fields

LEMMA JobStep ==
  ASSUME JobInv, DOMAIN job = Client, [Next]_vars
  PROVE  JobInv' /\ DOMAIN job' = Client
<1> USE DEF JobInv, Fields
<1>1. ASSUME NEW c \in Client, NEW res, Finish(c, res) PROVE JobInv' /\ DOMAIN job' = Client
  BY <1>1 DEF Finish, Idle
<1>2. ASSUME NEW c \in Client, NEW reason, Abandon(c, reason)
      PROVE JobInv' /\ DOMAIN job' = Client
  BY <1>2 DEF Abandon, Idle
<1>3. ASSUME NEW c \in Client, NEW len, Load(c, len) PROVE JobInv' /\ DOMAIN job' = Client
  BY <1>3 DEF Load
<1>4. ASSUME NEW c \in Client, NEW tx \in Arrivals[c], Begin(c, tx)
      PROVE JobInv' /\ DOMAIN job' = Client
  BY <1>4 DEF Begin, Idle
<1>5. ASSUME NEW c \in Client, ParseStep(c) PROVE JobInv' /\ DOMAIN job' = Client
  <2>1. CASE Peek(c) BY <1>2, <1>3, <2>1 DEF Peek
  <2>2. CASE Ask(c) BY <2>2 DEF Ask
  <2>3. CASE Answer(c) BY <1>2, <1>3, <2>3 DEF Answer
  <2>4. CASE Decide(c) BY <1>1, <2>4 DEF Decide
  <2>5. CASE ProbeEnds(c) BY <1>1, <1>2, <2>5 DEF ProbeEnds
  <2> QED BY <1>5, <2>1, <2>2, <2>3, <2>4, <2>5 DEF ParseStep
<1>6. CASE UNCHANGED vars \/ (ResolverStep /\ UNCHANGED <<cfg, job>>) BY <1>6 DEF vars
<1> QED BY <1>4, <1>5, <1>6 DEF Next

(* A parse asks for tables only.                                            *)
LEMMA DueIsATable ==
  ASSUME JobInv, NEW c \in Client, Pending(c)
  PROVE  Due(c).table \in TableKey
<1>1. job[c].next \in 1 .. Len(job[c].tx.lookups)
  <2>1. CASE job[c].tx = NoTx BY <2>1 DEF JobInv, Pending, NoTx
  <2>2. CASE job[c].tx \in Arrivals[c]
    <3>1. job[c].tx.lookups \in Seq(Lookup) BY <2>2, ArrivalAssumption DEF Transaction
    <3>2. Len(job[c].tx.lookups) \in Nat BY <3>1, LenProperties
    <3> QED BY <3>2 DEF JobInv, Pending
  <2> QED BY <2>1, <2>2 DEF JobInv
<1>2. job[c].tx \in Arrivals[c]
  BY <1>1 DEF JobInv, NoTx
<1>3. job[c].tx.lookups \in Seq(Lookup) BY <1>2, ArrivalAssumption DEF Transaction
<1>4. Due(c) \in Lookup BY <1>1, <1>3, ElementOfSeq DEF Due
<1> QED BY <1>4 DEF Lookup

LEMMA ParserUsesResolver == ASSUME JobInv, [Next]_vars PROVE [AltNext]_alt
<1>1. CASE UNCHANGED vars BY <1>1 DEF vars
<1>2. CASE ResolverStep BY <1>2 DEF AltNext
<1>3. ASSUME NEW c \in Client, ParseStep(c) PROVE [AltNext]_alt
  <2>1. CASE Peek(c) BY <2>1, DueIsATable DEF Peek, AltNext
  <2>2. CASE Ask(c) BY <2>2, DueIsATable DEF Ask, AltNext
  <2>3. CASE Answer(c) BY <2>3 DEF Answer, AltNext
  <2>4. CASE Decide(c) BY <2>4 DEF Decide, AltNext
  <2>5. CASE ProbeEnds(c) BY <2>5 DEF ProbeEnds, AltNext
  <2> QED BY <1>3, <2>1, <2>2, <2>3, <2>4, <2>5 DEF ParseStep
<1>4. ASSUME NEW c \in Client, NEW tx \in Arrivals[c], Begin(c, tx) PROVE [AltNext]_alt
  BY <1>4 DEF Begin
<1> QED BY <1>1, <1>2, <1>3, <1>4 DEF Next

---------------------------------------------------------------------------
AltIInv == AltInv /\ ListsAreBeginnings

LEMMA AltInitially == AltInit => AltIInv
<1> SUFFICES ASSUME AltInit PROVE AltIInv OBVIOUS
<1>1. Aboard /\ ListsAreBeginnings
  BY DEF AltInit, Aboard, ListsAreBeginnings, NoCall, Call
<1> QED BY <1>1, AltTypeInit, CountedInit DEF AltIInv, AltInv

LEMMA AltStep == ASSUME AltIInv, [AltNext]_alt PROVE AltIInv'
  BY AltTypeStep, CountedStep, AboardStep, ListsStep DEF AltIInv, AltInv

(* Every parse, for every number of tables, callers and permits: what the   *)
(* parser does with the resolver is what AltResolver allows.                *)
THEOREM ImplementsResolver == SafeSpec => AltSpec
<1>1. Init => AltInit /\ JobInv /\ DOMAIN job = Client BY JobInit DEF Init
<1>2. (JobInv /\ DOMAIN job = Client) /\ [Next]_vars => (JobInv /\ DOMAIN job = Client)'
  BY JobStep
<1>3. JobInv /\ [Next]_vars => [AltNext]_alt BY ParserUsesResolver
<1> QED BY <1>1, <1>2, <1>3, PTL DEF SafeSpec, AltSpec

(* The resolver keeps its permits and types and hands out beginnings of     *)
(* tables.                                                                  *)
THEOREM ResolverInvariant == AltSpec => []AltIInv
<1>1. AltInit => AltIInv BY AltInitially
<1>2. AltIInv /\ [AltNext]_alt => AltIInv' BY AltStep
<1> QED BY <1>1, <1>2, PTL DEF AltSpec

(* The requests under way never exceed the permits, and whoever waits for a *)
(* table waits for a fetch that is under way.                               *)
THEOREM FetchesAreBounded == SafeSpec => []FetchesBounded
<1>1. AltIInv => FetchesBounded
  <2> SUFFICES ASSUME AltIInv PROVE FetchesBounded OBVIOUS
  <2>1. free \in Nat /\ Permits \in Nat
    BY PermitAssumption DEF AltIInv, AltInv, AltTypeOK
  <2>2. Cardinality(Asking) + Cardinality(Reading) <= Permits
    BY <2>1, Counts DEF AltIInv, AltInv, Counted
  <2> QED BY <2>2 DEF FetchesBounded, AltIInv, AltInv, Aboard
<1> QED BY <1>1, ImplementsResolver, ResolverInvariant, PTL

---------------------------------------------------------------------------
(* A parse is at the lookup its call is about.                              *)

CallFits(c) ==
    /\ call[c].op = "idle" => call[c].table = NoTable
    /\ call[c].op # "idle" => job[c].at = IF call[c].table = NoTable THEN "probe" ELSE "lookups"
    /\ call[c].table # NoTable =>
          cfg.resolve /\ job[c].next <= Len(job[c].tx.lookups) /\ call[c].table = Due(c).table

JobShape(c) ==
    /\ job[c].at \in {"idle", "lookups", "probe"}
    /\ job[c].tx \in Arrivals[c] \cup {NoTx}
    /\ job[c].at # "idle" => job[c].tx \in Arrivals[c]
    /\ job[c].next \in 1 .. Len(job[c].tx.lookups) + 1

ShapeInv ==
    /\ DOMAIN job = Client /\ JobInv
    /\ cfg \in Settings
    /\ \A c \in Client : JobShape(c) /\ CallFits(c)

(* The number of a transaction's lookups.                                   *)
LEMMA LookupCount ==
    ASSUME NEW c \in Client, NEW tx \in Arrivals[c] \cup {NoTx}
    PROVE  Len(tx.lookups) \in Nat /\ 1 \in 1 .. Len(tx.lookups) + 1
<1>1. CASE tx = NoTx BY <1>1 DEF NoTx
<1>2. CASE tx \in Arrivals[c]
  <2>1. tx.lookups \in Seq(Lookup) BY <1>2, ArrivalAssumption DEF Transaction
  <2> QED BY <2>1, LenProperties
<1> QED BY <1>1, <1>2

(* What the resolver does by itself changes no call's table, and neither    *)
(* begins nor ends a call.                                                  *)
SameCall(c) == call'[c].table = call[c].table /\ (call'[c].op = "idle" <=> call[c].op = "idle")

LEMMA ResolverKeepsCalls == ASSUME AltTypeOK, ResolverStep PROVE \A c \in Client : SameCall(c)
<1> USE DEF AltTypeOK, SameCall
<1>1. CASE World BY <1>1 DEF World, Expire, Extend
<1>2. ASSUME NEW t \in TableKey, TableStep(t) PROVE \A c \in Client : SameCall(c)
  BY <1>2 DEF TableStep, Prefetch, Acquire, Fetched, FetchFailed, Land, Call
<1>3. ASSUME NEW c \in Client, CallStep(c) PROVE \A d \in Client : SameCall(d)
  BY <1>3 DEF CallStep, BatchAcquire, BatchEnds
<1> QED BY <1>1, <1>2, <1>3 DEF ResolverStep

(* What another parse does leaves the call and the job of this one alone.   *)
LeftAlone(c) == job'[c] = job[c] /\ call'[c] = call[c] /\ cfg' = cfg
LEMMA OthersKeep ==
    ASSUME DOMAIN job = Client, AltTypeOK, NEW c \in Client, ParseStep(c) \/ \E tx \in Arrivals[c] : Begin(c, tx)
    PROVE  \A d \in Client \ {c} : LeftAlone(d)
<1> USE DEF AltTypeOK, LeftAlone
<1>1. ASSUME NEW d \in Client \ {c}, NEW res, Finish(c, res) PROVE job'[d] = job[d]
  BY <1>1 DEF Finish
<1>2. ASSUME NEW d \in Client \ {c}, NEW reason, Abandon(c, reason) PROVE job'[d] = job[d]
  BY <1>2 DEF Abandon
<1>3. ASSUME NEW d \in Client \ {c}, NEW len, Load(c, len) PROVE job'[d] = job[d]
  BY <1>3 DEF Load
<1>4. ASSUME NEW d \in Client \ {c}, Take(c) PROVE call'[d] = call[d] BY <1>4 DEF Take
<1>5. CASE Peek(c) BY <1>5, <1>2, <1>3 DEF Peek, Spawn, alt
<1>6. CASE Ask(c) BY <1>6 DEF Ask, Get
<1>7. CASE Answer(c) BY <1>7, <1>2, <1>3, <1>4 DEF Answer
<1>8. CASE Decide(c) BY <1>8, <1>1 DEF Decide, Batch, alt
<1>9. CASE ProbeEnds(c) BY <1>9, <1>1, <1>2, <1>4 DEF ProbeEnds
<1>10. ASSUME NEW tx \in Arrivals[c], Begin(c, tx) PROVE \A d \in Client \ {c} : LeftAlone(d)
  BY <1>10 DEF Begin, alt
<1> QED BY <1>5, <1>6, <1>7, <1>8, <1>9, <1>10 DEF ParseStep

LEMMA KeptShape ==
    ASSUME NEW c \in Client, JobShape(c), CallFits(c), LeftAlone(c)
    PROVE  JobShape(c)' /\ CallFits(c)'
  BY DEF JobShape, CallFits, LeftAlone, Due

LEMMA FinishShape ==
    ASSUME ShapeInv, NEW c \in Client, job[c].at # "idle",
           (\E res : Finish(c, res)) \/ (\E reason : Abandon(c, reason)),
           call'[c].op = "idle" /\ call'[c].table = NoTable
    PROVE  JobShape(c)' /\ CallFits(c)'
<1>1. job[c].tx \in Arrivals[c] /\ 1 \in 1 .. Len(job[c].tx.lookups) + 1
  BY LookupCount DEF ShapeInv, JobShape
<1>2. job'[c].at = "idle" /\ job'[c].tx = job[c].tx /\ job'[c].next = 1
  BY DEF ShapeInv, Finish, Abandon, Idle
<1> QED BY <1>1, <1>2 DEF JobShape, CallFits

LEMMA LoadShape ==
    ASSUME ShapeInv, NEW c \in Client, NEW len, Load(c, len),
           job[c].at = "lookups", job[c].next <= Len(job[c].tx.lookups),
           call'[c].op = "idle" /\ call'[c].table = NoTable
    PROVE  JobShape(c)' /\ CallFits(c)'
<1>1. job[c].tx \in Arrivals[c] /\ Len(job[c].tx.lookups) \in Nat
  BY LookupCount DEF ShapeInv, JobShape
<1>2. job'[c].at = "lookups" /\ job'[c].tx = job[c].tx /\ job'[c].next = job[c].next + 1
  BY DEF ShapeInv, JobInv, Fields, Load
<1>3. job[c].next \in Nat \ {0} BY DEF ShapeInv, JobInv
<1> QED BY <1>1, <1>2, <1>3 DEF JobShape, CallFits

LEMMA ParseShape ==
    ASSUME ShapeInv, AltTypeOK, NEW c \in Client, ParseStep(c)
    PROVE  JobShape(c)' /\ CallFits(c)'
<1>0. JobShape(c) /\ CallFits(c) /\ DOMAIN job = Client /\ DOMAIN call = Client /\ JobInv
  BY DEF ShapeInv, AltTypeOK
<1>1. CASE Peek(c)
  <2>1. job[c].at = "lookups" /\ call[c].op = "idle" /\ job[c].next <= Len(job[c].tx.lookups)
    BY <1>1 DEF Peek, Pending
  <2>2. call'[c] = call[c] BY <1>1 DEF Peek, Spawn, alt
  <2>3. call'[c].op = "idle" /\ call'[c].table = NoTable BY <1>0, <2>1, <2>2 DEF CallFits
  <2>4. (\E len : Load(c, len)) \/ (\E reason : Abandon(c, reason)) BY <1>1 DEF Peek
  <2> QED BY <2>1, <2>3, <2>4, FinishShape, LoadShape
<1>2. CASE Ask(c)
  <2>1. call'[c].table = Due(c).table /\ call'[c].op # "idle" /\ call'[c].table # NoTable
    BY <1>0, <1>2, DueIsATable, TableAssumption DEF Ask, Get, Call
  <2>2. job' = job /\ cfg' = cfg /\ Pending(c) BY <1>2 DEF Ask
  <2> QED BY <1>0, <2>1, <2>2 DEF JobShape, CallFits, Pending, Due
<1>3. CASE Answer(c)
  <2>1. call'[c] = NoCall /\ job[c].at = "lookups" BY <1>0, <1>3 DEF Answer, Take
  <2>2. call'[c].op = "idle" /\ call'[c].table = NoTable BY <2>1 DEF NoCall, Call
  <2>3. CASE call[c].op = "got"
    <3>1. call[c].table # NoTable BY <2>3, <1>0 DEF AltTypeOK
    <3>2. job[c].next <= Len(job[c].tx.lookups) BY <3>1, <1>0 DEF CallFits
    <3>3. Load(c, call[c].len) BY <1>3, <2>3 DEF Answer
    <3> QED BY <2>1, <2>2, <3>2, <3>3, LoadShape
  <2>4. CASE call[c].op # "got"
    <3>1. Abandon(c, "error") BY <1>3, <2>4 DEF Answer
    <3> QED BY <2>1, <2>2, <3>1, FinishShape
  <2> QED BY <2>3, <2>4
<1>4. CASE Decide(c)
  <2>1. job[c].at = "lookups" /\ call[c].op = "idle" /\ call[c].table = NoTable
    BY <1>0, <1>4 DEF Decide, CallFits
  <2>2. CASE \E res : Finish(c, res) /\ UNCHANGED alt
    <3>1. call'[c] = call[c] BY <2>2 DEF alt
    <3> QED BY <2>1, <2>2, <3>1, FinishShape
  <2>3. CASE Batch(c) /\ job' = [job EXCEPT ![c].at = "probe"]
    <3>1. call'[c].table = NoTable /\ call'[c].op = "permit" BY <1>0, <2>1, <2>3 DEF Batch, AltTypeOK
    <3>2. job'[c].at = "probe" /\ job'[c].tx = job[c].tx /\ job'[c].next = job[c].next
      BY <1>0, <2>3 DEF JobInv, Fields
    <3> QED BY <1>0, <2>1, <3>1, <3>2 DEF JobShape, CallFits
  <2> QED BY <1>4, <2>2, <2>3 DEF Decide
<1>5. CASE ProbeEnds(c)
  <2>1. call'[c] = NoCall /\ job[c].at = "probe" BY <1>0, <1>5 DEF ProbeEnds, Take
  <2>2. call'[c].op = "idle" /\ call'[c].table = NoTable BY <2>1 DEF NoCall, Call
  <2>3. (\E res : Finish(c, res)) \/ (\E reason : Abandon(c, reason)) BY <1>5 DEF ProbeEnds
  <2> QED BY <2>1, <2>2, <2>3, FinishShape
<1> QED BY <1>1, <1>2, <1>3, <1>4, <1>5 DEF ParseStep

LEMMA BeginShape ==
    ASSUME ShapeInv, NEW c \in Client, NEW tx \in Arrivals[c], Begin(c, tx)
    PROVE  JobShape(c)' /\ CallFits(c)'
<1>1. job[c].at = "idle" /\ CallFits(c) BY DEF Begin, ShapeInv
<1>2. call[c].op = "idle" /\ call[c].table = NoTable BY <1>1 DEF CallFits
<1>3. call'[c] = call[c] BY DEF Begin, alt
<1>4. job'[c].at \in {"idle", "lookups"} /\ job'[c].tx = tx /\ job'[c].next = 1
  BY DEF Begin, Idle, ShapeInv
<1>5. 1 \in 1 .. Len(tx.lookups) + 1 BY LookupCount
<1> QED BY <1>2, <1>3, <1>4, <1>5 DEF JobShape, CallFits

LEMMA ShapeInit == Init => ShapeInv
<1> SUFFICES ASSUME Init PROVE ShapeInv OBVIOUS
<1>1. \A c \in Client : JobShape(c)
  <2>1. Len(NoTx.lookups) = 0 BY DEF NoTx
  <2> QED BY <2>1 DEF Init, Idle, JobShape
<1>2. \A c \in Client : CallFits(c) BY DEF Init, AltInit, NoCall, Call, CallFits
<1> QED BY <1>1, <1>2, JobInit DEF Init, ShapeInv

LEMMA ShapeStep == ASSUME ShapeInv, AltTypeOK, [Next]_vars PROVE ShapeInv'
<1>1. DOMAIN job' = Client /\ JobInv' BY JobStep DEF ShapeInv
<1>2. cfg' \in Settings /\ cfg' = cfg
  BY DEF ShapeInv, Next, vars, ParseStep, Peek, Ask, Answer, Decide, ProbeEnds, Begin
<1>3. ASSUME NEW d \in Client PROVE JobShape(d)' /\ CallFits(d)'
  <2>0. JobShape(d) /\ CallFits(d) /\ DOMAIN job = Client BY DEF ShapeInv
  <2>1. CASE UNCHANGED vars BY <2>0, <2>1, KeptShape DEF vars, alt, LeftAlone
  <2>2. CASE ResolverStep /\ UNCHANGED <<cfg, job>>
    <3>1. SameCall(d) BY <2>2, ResolverKeepsCalls
    <3> QED BY <2>0, <2>2, <3>1 DEF SameCall, JobShape, CallFits, Due
  <2>3. ASSUME NEW c \in Client, ParseStep(c) \/ \E tx \in Arrivals[c] : Begin(c, tx)
        PROVE  JobShape(d)' /\ CallFits(d)'
    <3>1. CASE c = d BY <2>3, <3>1, ParseShape, BeginShape
    <3>2. CASE c # d
      <4>1. LeftAlone(d) BY <2>0, <2>3, <3>2, OthersKeep
      <4> QED BY <2>0, <4>1, KeptShape
    <3> QED BY <3>1, <3>2
  <2> QED BY <2>1, <2>2, <2>3 DEF Next
<1> QED BY <1>1, <1>2, <1>3 DEF ShapeInv

---------------------------------------------------------------------------
(* Lists that grow are beginnings of what the runtime sees.                  *)

(* x may be the beginning of y that was there to be seen; it is y when it   *)
(* has as many members.                                                     *)
Behind(x, y) ==
    /\ x \in Seq(STRING) /\ y \in Seq(STRING)
    /\ Len(x) <= Len(y) /\ (Len(x) = Len(y) => x = y)

LEMMA NothingBehind == ASSUME NEW y \in Seq(STRING) PROVE Behind(<<>>, y)
<1>1. <<>> \in Seq(STRING) /\ Len(<<>>) = 0 /\ Len(y) \in Nat BY EmptySeq, LenProperties
<1>2. Len(y) = 0 => y = <<>> BY EmptySeq
<1> QED BY <1>1, <1>2 DEF Behind

LEMMA BehindConcat ==
    ASSUME NEW a, NEW b, NEW x, NEW y, Behind(a, b), Behind(x, y)
    PROVE  Behind(a \o x, b \o y)
<1>1. /\ a \in Seq(STRING) /\ b \in Seq(STRING) /\ x \in Seq(STRING) /\ y \in Seq(STRING)
      /\ Len(a) <= Len(b) /\ Len(x) <= Len(y)
      /\ (Len(a) = Len(b) => a = b) /\ (Len(x) = Len(y) => x = y)
  BY DEF Behind
<1>2. /\ a \o x \in Seq(STRING) /\ Len(a \o x) = Len(a) + Len(x)
      /\ b \o y \in Seq(STRING) /\ Len(b \o y) = Len(b) + Len(y)
  BY <1>1, ConcatProperties
<1>3. Len(a) \in Nat /\ Len(b) \in Nat /\ Len(x) \in Nat /\ Len(y) \in Nat
  BY <1>1, LenProperties
<1> DEFINE la == Len(a)
           lb == Len(b)
           lx == Len(x)
           ly == Len(y)
<1>4. la \in Nat /\ lb \in Nat /\ lx \in Nat /\ ly \in Nat /\ la <= lb /\ lx <= ly
  BY <1>1, <1>3
<1>5. la + lx <= lb + ly /\ (la + lx = lb + ly => la = lb /\ lx = ly)
  <2> HIDE DEF la, lb, lx, ly
  <2> QED BY <1>4
<1>6. Len(a \o x) = la + lx /\ Len(b \o y) = lb + ly BY <1>2
<1>7. Len(a \o x) <= Len(b \o y)
  <2> HIDE DEF la, lb, lx, ly
  <2> QED BY <1>5, <1>6
<1>8. Len(a \o x) = Len(b \o y) => a \o x = b \o y
  <2> SUFFICES ASSUME Len(a \o x) = Len(b \o y) PROVE a \o x = b \o y
    OBVIOUS
  <2>1. la = lb /\ lx = ly
    <3> HIDE DEF la, lb, lx, ly
    <3> QED BY <1>5, <1>6
  <2>2. a = b /\ x = y BY <2>1, <1>1
  <2> QED BY <2>2
<1> QED BY <1>2, <1>7, <1>8 DEF Behind

(* A list that a parse was given, and the whole list.                       *)
LEMMA LoadedBehind ==
    ASSUME NEW t \in TableKey, NEW idx \in Seq(Nat), ToSet(idx) \subseteq DOMAIN Table[t],
           NEW len \in Nat, len <= Size[t]
    PROVE  Behind(Loaded(t, len, idx), Loaded(t, Size[t], idx))
<1>1. Table[t] \in Seq(STRING) /\ Len(Table[t]) = Size[t] /\ Size[t] \in Nat
  BY TableContents, TableAssumption
<1>2. \A i \in 1 .. Len(idx) : idx[i] \in 1 .. Size[t]
  <2>1. \A i \in 1 .. Len(idx) : idx[i] \in ToSet(idx)
    <3>1. DOMAIN idx = 1 .. Len(idx) BY LenProperties
    <3> QED BY <3>1 DEF ToSet, Range
  <2>2. DOMAIN Table[t] = 1 .. Size[t] BY <1>1, LenProperties
  <2> QED BY <2>1, <2>2
<1> DEFINE near == Only(idx, 1 .. len)
           far == Only(idx, 1 .. Size[t])
<1>3. far = idx
  <2> DEFINE T == 1 .. Size[t]
  <2>1. \A i \in 1 .. Len(idx) : idx[i] \in T BY <1>2
  <2> HIDE DEF T
  <2>2. Only(idx, T) = idx BY <2>1, OnlyFacts
  <2> QED BY <2>2 DEF T
<1>4. /\ near \in Seq(Nat) /\ Len(near) <= Len(idx) /\ (Len(near) = Len(idx) => near = idx)
      /\ \A k \in 1 .. Len(near) : near[k] \in 1 .. len
  BY OnlyFacts
<1>5. Loaded(t, len, idx) = [k \in DOMAIN near |-> Table[t][near[k]]]
      /\ Loaded(t, Size[t], idx) = [k \in DOMAIN far |-> Table[t][far[k]]]
  BY DEF Loaded
<1> HIDE DEF near, far
<1>6. DOMAIN near = 1 .. Len(near) /\ DOMAIN far = 1 .. Len(idx) /\ Len(near) \in Nat /\ Len(idx) \in Nat
  BY <1>3, <1>4, LenProperties
<1>7. \A j \in 1 .. Size[t] : Table[t][j] \in STRING BY <1>1, ElementOfSeq
<1>8. \A k \in 1 .. Len(near) : Table[t][near[k]] \in STRING
  <2>1. \A k \in 1 .. Len(near) : near[k] \in 1 .. Size[t] BY <1>1, <1>4
  <2> QED BY <2>1, <1>7
<1>9. \A k \in 1 .. Len(idx) : Table[t][far[k]] \in STRING BY <1>2, <1>3, <1>7
<1>10. Loaded(t, len, idx) \in Seq(STRING) /\ Len(Loaded(t, len, idx)) = Len(near)
  BY <1>5, <1>6, <1>8
<1>11. Loaded(t, Size[t], idx) \in Seq(STRING) /\ Len(Loaded(t, Size[t], idx)) = Len(idx)
  BY <1>5, <1>6, <1>9
<1>12. Len(near) = Len(idx) => Loaded(t, len, idx) = Loaded(t, Size[t], idx)
  <2>1. near = idx => near = far BY <1>3
  <2> QED BY <2>1, <1>4, <1>5
<1> QED BY <1>4, <1>10, <1>11, <1>12 DEF Behind

(* The lists a transaction loads, as they are when it is executed.          *)
WritableLists(tx) ==
    [k \in DOMAIN tx.lookups |->
        Loaded(tx.lookups[k].table, Size[tx.lookups[k].table], tx.lookups[k].writable)]
ReadonlyLists(tx) ==
    [k \in DOMAIN tx.lookups |->
        Loaded(tx.lookups[k].table, Size[tx.lookups[k].table], tx.lookups[k].readonly)]

SoFar(w, ss, n) ==
    \A g \in [0 .. Len(ss) -> Seq(STRING)] : Joins(g, ss) => Behind(w, g[n])

Loads(c) == cfg.resolve => job[c].next > Len(job[c].tx.lookups)
KeysFit(c) ==
    /\ job[c].writable \in Seq(STRING) /\ job[c].readonly \in Seq(STRING)
    /\ job[c].at # "idle" =>
          /\ SoFar(job[c].writable, WritableLists(job[c].tx), job[c].next - 1)
          /\ SoFar(job[c].readonly, ReadonlyLists(job[c].tx), job[c].next - 1)
    /\ ~cfg.resolve => job[c].writable = <<>> /\ job[c].readonly = <<>>

LEMMA ConcatSet ==
    ASSUME NEW E, NEW a \in Seq(E), NEW b \in Seq(E)
    PROVE  ToSet(a) \subseteq ToSet(a \o b) /\ ToSet(b) \subseteq ToSet(a \o b)
<1>1. /\ a \o b \in Seq(E) /\ Len(a \o b) = Len(a) + Len(b)
      /\ \A i \in 1 .. Len(a) + Len(b) : (a \o b)[i] = IF i <= Len(a) THEN a[i] ELSE b[i - Len(a)]
  BY ConcatProperties
<1>2. Len(a) \in Nat /\ Len(b) \in Nat /\ DOMAIN a = 1 .. Len(a) /\ DOMAIN b = 1 .. Len(b)
  BY LenProperties
<1> DEFINE q == a \o b
<1>3. DOMAIN q = 1 .. Len(a) + Len(b) BY <1>1, LenProperties
<1>4. \A i \in 1 .. Len(a) + Len(b) : q[i] = IF i <= Len(a) THEN a[i] ELSE b[i - Len(a)]
  BY <1>1
<1> HIDE DEF q
<1>5. ASSUME NEW x \in ToSet(a) PROVE x \in ToSet(q)
  <2>1. PICK i \in 1 .. Len(a) : x = a[i] BY <1>2 DEF ToSet, Range
  <2>2. i \in 1 .. Len(a) + Len(b) /\ i <= Len(a) BY <1>2
  <2>3. q[i] = x BY <1>4, <2>1, <2>2
  <2> QED BY <1>3, <2>2, <2>3 DEF ToSet, Range
<1>6. ASSUME NEW x \in ToSet(b) PROVE x \in ToSet(q)
  <2>1. PICK i \in 1 .. Len(b) : x = b[i] BY <1>2 DEF ToSet, Range
  <2>2. i + Len(a) \in 1 .. Len(a) + Len(b) /\ ~(i + Len(a) <= Len(a)) /\ (i + Len(a)) - Len(a) = i
    BY <1>2
  <2>3. q[i + Len(a)] = x BY <1>4, <2>1, <2>2
  <2> QED BY <1>3, <2>2, <2>3 DEF ToSet, Range
<1> QED BY <1>5, <1>6 DEF q

(* A lookup of an executed transaction, whole.                              *)
LEMMA LookupFits ==
    ASSUME NEW c \in Client, NEW tx \in Arrivals[c], NEW k \in 1 .. Len(tx.lookups)
    PROVE  /\ tx.lookups \in Seq(Lookup) /\ tx.lookups[k] \in Lookup
           /\ ToSet(tx.lookups[k].writable) \subseteq DOMAIN Table[tx.lookups[k].table]
           /\ ToSet(tx.lookups[k].readonly) \subseteq DOMAIN Table[tx.lookups[k].table]
<1>1. tx \in Transaction /\ Executable(tx) BY ArrivalAssumption
<1>2. tx.lookups \in Seq(Lookup) BY <1>1 DEF Transaction
<1>3. k \in DOMAIN tx.lookups /\ tx.lookups[k] \in Lookup BY <1>2, LenProperties, ElementOfSeq
<1> DEFINE l == tx.lookups[k]
<1>4. l.writable \in Seq(Nat) /\ l.readonly \in Seq(Nat) BY <1>3 DEF Lookup
<1>5. ToSet(l.writable \o l.readonly) \subseteq DOMAIN Table[l.table]
  BY <1>1, <1>3 DEF Executable
<1> HIDE DEF l
<1>6. ToSet(l.writable) \subseteq ToSet(l.writable \o l.readonly)
      /\ ToSet(l.readonly) \subseteq ToSet(l.writable \o l.readonly)
  BY <1>4, ConcatSet
<1> QED BY <1>2, <1>3, <1>5, <1>6 DEF l

(* The whole lists are sequences.                                           *)
LEMMA ListsType ==
    ASSUME NEW c \in Client, NEW tx \in Arrivals[c]
    PROVE  /\ WritableLists(tx) \in Seq(Seq(STRING)) /\ Len(WritableLists(tx)) = Len(tx.lookups)
           /\ ReadonlyLists(tx) \in Seq(Seq(STRING)) /\ Len(ReadonlyLists(tx)) = Len(tx.lookups)
           /\ \A k \in 1 .. Len(tx.lookups) :
                 LET l == tx.lookups[k]
                 IN  /\ WritableLists(tx)[k] = Loaded(l.table, Size[l.table], l.writable)
                     /\ ReadonlyLists(tx)[k] = Loaded(l.table, Size[l.table], l.readonly)
<1>1. tx.lookups \in Seq(Lookup) BY ArrivalAssumption DEF Transaction
<1>2. DOMAIN tx.lookups = 1 .. Len(tx.lookups) /\ Len(tx.lookups) \in Nat BY <1>1, LenProperties
<1>3. ASSUME NEW k \in 1 .. Len(tx.lookups)
      PROVE  /\ Loaded(tx.lookups[k].table, Size[tx.lookups[k].table], tx.lookups[k].writable) \in Seq(STRING)
             /\ Loaded(tx.lookups[k].table, Size[tx.lookups[k].table], tx.lookups[k].readonly) \in Seq(STRING)
  <2> DEFINE l == tx.lookups[k]
             t == l.table
  <2>1. /\ l \in Lookup
        /\ ToSet(l.writable) \subseteq DOMAIN Table[l.table]
        /\ ToSet(l.readonly) \subseteq DOMAIN Table[l.table]
    BY LookupFits
  <2>2. l.table \in TableKey /\ l.writable \in Seq(Nat) /\ l.readonly \in Seq(Nat)
    BY <2>1 DEF Lookup
  <2>3. Size[l.table] \in Nat /\ Size[l.table] <= Size[l.table] BY <2>2, TableAssumption
  <2> HIDE DEF l
  <2>4. Behind(Loaded(l.table, Size[l.table], l.writable), Loaded(l.table, Size[l.table], l.writable))
        /\ Behind(Loaded(l.table, Size[l.table], l.readonly), Loaded(l.table, Size[l.table], l.readonly))
    BY <2>1, <2>2, <2>3, LoadedBehind
  <2> QED BY <2>4 DEF Behind, l
<1> QED BY <1>2, <1>3 DEF WritableLists, ReadonlyLists

(* One more list, or what was visible of it.                                *)
LEMMA SoFarStep ==
    ASSUME NEW ss, ss \in Seq(Seq(STRING)), NEW n, n \in 1 .. Len(ss), NEW w, SoFar(w, ss, n - 1),
           NEW x, Behind(x, ss[n])
    PROVE  SoFar(w \o x, ss, n)
<1> SUFFICES ASSUME NEW g \in [0 .. Len(ss) -> Seq(STRING)], Joins(g, ss)
             PROVE  Behind(w \o x, g[n])
  BY DEF SoFar
<1>1. Behind(w, g[n - 1]) BY DEF SoFar
<1>2. g[n] = g[n - 1] \o ss[n] BY DEF Joins
<1> QED BY <1>1, <1>2, BehindConcat

LEMMA SoFarNone == ASSUME NEW ss, ss \in Seq(Seq(STRING)) PROVE SoFar(<<>>, ss, 0)
<1> SUFFICES ASSUME NEW g \in [0 .. Len(ss) -> Seq(STRING)]
             PROVE  Behind(<<>>, g[0])
  BY DEF SoFar
<1>1. Len(ss) \in Nat BY LenProperties
<1>2. g[0] \in Seq(STRING) BY <1>1
<1> QED BY <1>2, NothingBehind

LEMMA SoFarAll ==
    ASSUME NEW ss, ss \in Seq(Seq(STRING)), NEW w, SoFar(w, ss, Len(ss)) \/ w = <<>>
    PROVE  Behind(w, FlattenSeq(ss))
<1>1. PICK g \in [0 .. Len(ss) -> Seq(STRING)] : Joins(g, ss) /\ FlattenSeq(ss) = g[Len(ss)]
  BY FlattenWalks
<1>2. FlattenSeq(ss) \in Seq(STRING)
  <2>1. Len(ss) \in 0 .. Len(ss) BY LenProperties
  <2> QED BY <1>1, <2>1
<1> QED BY <1>1, <1>2, NothingBehind DEF SoFar

(* With all lists done, a parse that has as many keys as the runtime has    *)
(* the same.                                                                *)
LEMMA RuntimeIs ==
    ASSUME NEW tx
    PROVE  RuntimeKeys(tx) = tx.keys \o FlattenSeq(WritableLists(tx)) \o FlattenSeq(ReadonlyLists(tx))
  BY DEF RuntimeKeys, Chosen, WritableLists, ReadonlyLists

LEMMA KeysBehind ==
    ASSUME ShapeInv, NEW c \in Client, job[c].at # "idle", KeysFit(c), Loads(c)
    PROVE  Behind(Keys(c), RuntimeKeys(job[c].tx))
<1> DEFINE tx == job[c].tx
           ws == WritableLists(tx)
           rs == ReadonlyLists(tx)
<1>1. tx \in Arrivals[c] /\ job[c].next \in 1 .. Len(tx.lookups) + 1 BY DEF ShapeInv, JobShape
<1>2. tx.keys \in Seq(STRING) BY <1>1, ArrivalAssumption DEF Transaction
<1>3. Len(tx.lookups) \in Nat BY <1>1, LookupCount
<1>4. ws \in Seq(Seq(STRING)) /\ rs \in Seq(Seq(STRING)) /\ Len(ws) = Len(tx.lookups) /\ Len(rs) = Len(tx.lookups)
  BY <1>1, ListsType
<1>5. (SoFar(job[c].writable, ws, Len(ws)) \/ job[c].writable = <<>>)
      /\ (SoFar(job[c].readonly, rs, Len(rs)) \/ job[c].readonly = <<>>)
  <2>1. cfg.resolve => job[c].next - 1 = Len(tx.lookups) BY <1>1, <1>3 DEF Loads
  <2> QED BY <1>4, <2>1 DEF KeysFit
<1> HIDE DEF ws, rs
<1>6. Behind(job[c].writable, FlattenSeq(ws)) /\ Behind(job[c].readonly, FlattenSeq(rs))
  BY <1>4, <1>5, SoFarAll
<1>7. Behind(tx.keys, tx.keys) BY <1>2, LenProperties DEF Behind
<1>8. Behind(tx.keys \o job[c].writable \o job[c].readonly, tx.keys \o FlattenSeq(ws) \o FlattenSeq(rs))
  BY <1>6, <1>7, BehindConcat
<1> QED BY <1>8, RuntimeIs DEF Keys, ws, rs

(* Keys of a parse follow the lookups.                                      *)
LEMMA LoadKeys ==
    ASSUME ShapeInv, NEW c \in Client, KeysFit(c), job[c].at = "lookups", cfg.resolve,
           job[c].next <= Len(job[c].tx.lookups),
           NEW len \in Nat, len <= Size[Due(c).table], Load(c, len), cfg' = cfg
    PROVE  KeysFit(c)'
<1> DEFINE tx == job[c].tx
           n == job[c].next
           l == Due(c)
           w == Loaded(l.table, len, l.writable)
           r == Loaded(l.table, len, l.readonly)
           ws == WritableLists(tx)
           rs == ReadonlyLists(tx)
<1>1. tx \in Arrivals[c] /\ n \in 1 .. Len(tx.lookups) /\ DOMAIN job = Client /\ DOMAIN job[c] = Fields
      /\ l = tx.lookups[n] /\ n \in Nat \ {0}
  BY DEF ShapeInv, JobShape, JobInv, Due
<1>2. /\ job'[c].at = "lookups" /\ job'[c].tx = tx /\ job'[c].next = n + 1
      /\ job'[c].writable = job[c].writable \o w
      /\ job'[c].readonly = job[c].readonly \o r
  BY <1>1 DEF Load, Fields
<1>3. l \in Lookup /\ ToSet(l.writable) \subseteq DOMAIN Table[l.table]
      /\ ToSet(l.readonly) \subseteq DOMAIN Table[l.table]
  BY <1>1, LookupFits
<1>4. l.table \in TableKey /\ l.writable \in Seq(Nat) /\ l.readonly \in Seq(Nat)
  BY <1>3 DEF Lookup
<1>5. /\ ws \in Seq(Seq(STRING)) /\ rs \in Seq(Seq(STRING)) /\ n \in 1 .. Len(ws) /\ n \in 1 .. Len(rs)
      /\ ws[n] = Loaded(l.table, Size[l.table], l.writable)
      /\ rs[n] = Loaded(l.table, Size[l.table], l.readonly)
  BY <1>1, ListsType
<1>6. SoFar(job[c].writable, ws, n - 1) /\ SoFar(job[c].readonly, rs, n - 1)
      /\ job[c].writable \in Seq(STRING) /\ job[c].readonly \in Seq(STRING)
  BY DEF KeysFit
<1>7. (n + 1) - 1 = n BY <1>1
<1> HIDE DEF tx, n, l, ws, rs
<1>8. Behind(w, ws[n]) /\ Behind(r, rs[n]) BY <1>3, <1>4, <1>5, LoadedBehind DEF l
<1>9. w \in Seq(STRING) /\ r \in Seq(STRING) BY <1>8 DEF Behind
<1> HIDE DEF w, r
<1>10. SoFar(job[c].writable \o w, ws, n) /\ SoFar(job[c].readonly \o r, rs, n)
  BY <1>5, <1>6, <1>8, SoFarStep
<1>11. job[c].writable \o w \in Seq(STRING) /\ job[c].readonly \o r \in Seq(STRING)
  BY <1>6, <1>9, ConcatProperties
<1>12. WritableLists(job'[c].tx) = ws /\ ReadonlyLists(job'[c].tx) = rs BY <1>2 DEF ws, rs
<1>13. WritableLists(job[c].tx)' = ws /\ ReadonlyLists(job[c].tx)' = rs
  BY <1>12 DEF WritableLists, ReadonlyLists, Loaded
<1> QED BY <1>2, <1>7, <1>10, <1>11, <1>13 DEF KeysFit, SoFar, Joins, Behind

LEMMA SameKeys ==
    ASSUME NEW c \in Client, KeysFit(c), cfg' = cfg, job'[c] = job[c]
    PROVE  KeysFit(c)'
<1>1. WritableLists(job[c].tx)' = WritableLists(job[c].tx) /\ ReadonlyLists(job[c].tx)' = ReadonlyLists(job[c].tx)
  BY DEF WritableLists, ReadonlyLists, Loaded
<1> QED BY <1>1 DEF KeysFit, SoFar, Joins, Behind

LEMMA EndKeys ==
    ASSUME ShapeInv, NEW c \in Client, KeysFit(c), cfg' = cfg,
           (\E res : Finish(c, res)) \/ (\E reason : Abandon(c, reason))
    PROVE  KeysFit(c)'
<1>1. DOMAIN job = Client /\ <<>> \in Seq(STRING) BY EmptySeq DEF ShapeInv
<1>2. /\ job'[c].at = "idle"
      /\ job'[c].writable \in {<<>>, job[c].writable} /\ job'[c].readonly \in {<<>>, job[c].readonly}
  BY <1>1 DEF Finish, Abandon, Idle
<1> QED BY <1>1, <1>2 DEF KeysFit

LEMMA BeginKeys ==
    ASSUME ShapeInv, NEW c \in Client, NEW tx \in Arrivals[c], Begin(c, tx)
    PROVE  KeysFit(c)'
<1> DEFINE ws == WritableLists(tx)
           rs == ReadonlyLists(tx)
<1>1. job'[c].tx = tx /\ job'[c].next = 1 /\ job'[c].writable = <<>> /\ job'[c].readonly = <<>>
  BY DEF Begin, Idle, ShapeInv
<1>2. SoFar(<<>>, ws, 0) /\ SoFar(<<>>, rs, 0) BY ListsType, SoFarNone
<1>3. WritableLists(job[c].tx)' = ws /\ ReadonlyLists(job[c].tx)' = rs
  BY <1>1 DEF WritableLists, ReadonlyLists, Loaded
<1>4. <<>> \in Seq(STRING) BY EmptySeq
<1> HIDE DEF ws, rs
<1>5. SoFar(job'[c].writable, ws, job'[c].next - 1) /\ SoFar(job'[c].readonly, rs, job'[c].next - 1)
  BY <1>1, <1>2
<1> QED BY <1>1, <1>3, <1>4, <1>5 DEF KeysFit, SoFar, Joins, Behind

LEMMA ParseKeys ==
    ASSUME ShapeInv, AltIInv, NEW c \in Client, KeysFit(c), ParseStep(c), cfg' = cfg
    PROVE  KeysFit(c)'
<1>0. /\ JobShape(c) /\ CallFits(c) /\ DOMAIN job = Client /\ JobInv /\ AltTypeOK /\ ListsAreBeginnings
      /\ cfg \in Settings
  BY DEF ShapeInv, AltIInv, AltInv
<1>1. CASE Peek(c)
  <2> DEFINE t == Due(c).table
  <2>1. job[c].at = "lookups" /\ cfg.resolve /\ job[c].next <= Len(job[c].tx.lookups) /\ t \in TableKey
    BY <1>0, <1>1, DueIsATable DEF Peek, Pending
  <2>2. CASE cache[t] # Missing
    <3>1. cache[t] \in Nat /\ cache[t] <= Size[t]
      BY <1>0, <2>1, <2>2, TableAssumption DEF AltTypeOK, ListsAreBeginnings
    <3>2. Load(c, cache[t]) BY <1>1, <2>2 DEF Peek
    <3> HIDE DEF t
    <3> QED BY <2>1, <3>1, <3>2, LoadKeys DEF t
  <2>3. CASE cache[t] = Missing
    <3>1. Abandon(c, "missed") BY <1>1, <2>3 DEF Peek
    <3> QED BY <3>1, EndKeys
  <2> QED BY <2>2, <2>3
<1>2. CASE Ask(c) BY <1>2, SameKeys DEF Ask
<1>3. CASE Answer(c)
  <2>1. job[c].at = "lookups" BY <1>3 DEF Answer
  <2>2. CASE call[c].op = "got"
    <3>1. call[c].table # NoTable /\ call[c].len \in Nat /\ call[c].table \in TableKey
      BY <2>2, <1>0 DEF AltTypeOK
    <3>2. cfg.resolve /\ job[c].next <= Len(job[c].tx.lookups) /\ call[c].table = Due(c).table
      BY <3>1, <1>0 DEF CallFits
    <3>3. call[c].len <= Size[Due(c).table]
      BY <1>0, <2>2, <3>1, <3>2, TableAssumption DEF AltTypeOK, ListsAreBeginnings
    <3>4. Load(c, call[c].len) BY <1>3, <2>2 DEF Answer
    <3> QED BY <2>1, <3>1, <3>2, <3>3, <3>4, LoadKeys
  <2>3. CASE call[c].op # "got"
    <3>1. Abandon(c, "error") BY <1>3, <2>3 DEF Answer
    <3> QED BY <3>1, EndKeys
  <2> QED BY <2>2, <2>3
<1>4. CASE Decide(c)
  <2>1. CASE \E res : Finish(c, res) BY <2>1, EndKeys
  <2>2. CASE job' = [job EXCEPT ![c].at = "probe"]
    <3>1. /\ job'[c].tx = job[c].tx /\ job'[c].next = job[c].next
          /\ job'[c].writable = job[c].writable /\ job'[c].readonly = job[c].readonly
      BY <1>0, <2>2 DEF JobInv, Fields
    <3>2. WritableLists(job[c].tx)' = WritableLists(job[c].tx) /\ ReadonlyLists(job[c].tx)' = ReadonlyLists(job[c].tx)
      BY <3>1 DEF WritableLists, ReadonlyLists, Loaded
    <3>3. job[c].at = "lookups" BY <1>4 DEF Decide
    <3> QED BY <3>1, <3>2, <3>3 DEF KeysFit, SoFar, Joins, Behind
  <2> QED BY <1>4, <2>1, <2>2 DEF Decide
<1>5. CASE ProbeEnds(c)
  <2>1. (\E res : Finish(c, res)) \/ (\E reason : Abandon(c, reason)) BY <1>5 DEF ProbeEnds
  <2> QED BY <2>1, EndKeys
<1> QED BY <1>1, <1>2, <1>3, <1>4, <1>5 DEF ParseStep

---------------------------------------------------------------------------
(* What a parse finds depends on the settings and what it sees only.        *)

LEMMA SameFollowed ==
    ASSUME cfg' = cfg, NEW v PROVE /\ Followed(v)' = Followed(v)
        /\ \A source, mint, accounts : Signal(v, source, mint, accounts)' = Signal(v, source, mint, accounts)
  BY DEF Followed, Signal

LEMMA SameDirect == ASSUME cfg' = cfg, NEW v PROVE Direct(v)' = Direct(v)
  BY DEF Direct, FirstFound, Signal, Followed
LEMMA SameCpi == ASSUME cfg' = cfg, NEW v PROVE Cpi(v)' = Cpi(v)
  BY DEF Cpi, FirstFound, Signal, Followed
LEMMA SameAmm == ASSUME cfg' = cfg, NEW v PROVE Amm(v)' = Amm(v)
  BY DEF Amm, FirstFound, Signal, Followed
LEMMA SamePda == ASSUME cfg' = cfg, NEW v PROVE Pda(v)' = Pda(v)
  BY DEF Pda, Signal, Followed
LEMMA SameProbe == ASSUME cfg' = cfg, NEW v, NEW shown PROVE Probe(v, shown)' = Probe(v, shown)
  BY DEF Probe, FirstFound, Signal, Followed
LEMMA SameMirror == ASSUME cfg' = cfg, NEW v PROVE Mirror(v)' = Mirror(v)
  BY DEF Mirror, FirstFound, Signal, Followed
LEMMA SameOffline == ASSUME cfg' = cfg, NEW v PROVE Offline(v)' = Offline(v)
  BY SameFollowed, SameDirect, SameCpi, SameAmm, SamePda DEF Offline
LEMMA SameLate == ASSUME cfg' = cfg, NEW v, NEW shown PROVE Late(v, shown)' = Late(v, shown)
  BY SameFollowed, SameProbe, SameMirror DEF Late
LEMMA SameVerdicts == ASSUME cfg' = cfg, NEW tx PROVE Verdicts(tx)' = Verdicts(tx)
  BY SameOffline, SameLate DEF Verdicts, Verdict
(* The request is made only where nothing was found without it.             *)
ProbeFits(c) ==
    job[c].at = "probe" => Loads(c) /\ \A v \in {View(job[c].tx, Keys(c))} : Offline(v) = NoSignal

Faithful(c) ==
    LET tx == job[c].tx
    IN  /\ job[c].at = "idle" /\ job[c].res.source \in Sources \cup {"none"}
        /\ Len(Keys(c)) = Len(RuntimeKeys(tx))
        => job[c].res \in Verdicts(tx)

LEMMA SameRest ==
    ASSUME NEW c \in Client, cfg' = cfg, job'[c] = job[c]
    PROVE  (ProbeFits(c) => ProbeFits(c)') /\ (Faithful(c) => Faithful(c)')
<1>1. Keys(c)' = Keys(c) BY DEF Keys
<1>2. ASSUME ProbeFits(c) PROVE ProbeFits(c)'
  <2>1. ASSUME NEW v, v = View(job[c].tx, Keys(c)) PROVE v = View(job[c].tx, Keys(c))'
    BY <1>1, <2>1 DEF View
  <2>2. ASSUME job[c].at = "probe", NEW v \in {View(job[c].tx, Keys(c))'} PROVE Offline(v)' = NoSignal
    <3>1. v = View(job[c].tx, Keys(c)) BY <1>1, <2>2 DEF View
    <3>2. Offline(v) = NoSignal BY <1>2, <2>2, <3>1 DEF ProbeFits
    <3> QED BY <3>2, SameOffline
  <2>3. job[c].at = "probe" => Loads(c)' BY <1>2 DEF ProbeFits, Loads
  <2>4. NoSignal' = NoSignal BY DEF NoSignal, Nothing
  <2> QED BY <2>2, <2>3, <2>4 DEF ProbeFits
<1>3. ASSUME Faithful(c) PROVE Faithful(c)'
  <2>1. Verdicts(job[c].tx)' = Verdicts(job[c].tx) BY SameVerdicts
  <2>2. RuntimeKeys(job[c].tx)' = RuntimeKeys(job[c].tx) BY DEF RuntimeKeys, Chosen, Loaded
  <2> QED BY <1>1, <1>3, <2>1, <2>2 DEF Faithful
<1> QED BY <1>2, <1>3

LEMMA FinishFaithful ==
    ASSUME ShapeInv, NEW c \in Client, job[c].at # "idle", KeysFit(c), Loads(c), cfg' = cfg,
           NEW v, v = View(job[c].tx, Keys(c)), NEW shown \in SUBSET MintLike,
           NEW res, res = Verdict(v, shown), Finish(c, res)
    PROVE  Faithful(c)'
<1> DEFINE tx == job[c].tx
<1>1. /\ job'[c].tx = tx /\ job'[c].writable = job[c].writable /\ job'[c].readonly = job[c].readonly
      /\ job'[c].res = res
  BY DEF ShapeInv, Finish, Idle
<1>2. Keys(c)' = Keys(c) BY <1>1 DEF Keys
<1>3. RuntimeKeys(job[c].tx)' = RuntimeKeys(tx) BY <1>1 DEF RuntimeKeys, Chosen, Loaded
<1>4. Behind(Keys(c), RuntimeKeys(tx)) BY KeysBehind
<1>5. Len(Keys(c)) = Len(RuntimeKeys(tx)) => res \in Verdicts(tx)
  BY <1>4 DEF Behind, Verdicts
<1>6. Verdicts(job[c].tx)' = Verdicts(tx)
  <2>1. \A t : Verdicts(t)' = Verdicts(t) BY SameVerdicts
  <2>2. PICK t : t = tx OBVIOUS
  <2>3. Verdicts(t)' = Verdicts(job[c].tx)' BY <1>1, <2>2 DEF Verdicts, Verdict
  <2> QED BY <2>1, <2>2, <2>3
<1> QED BY <1>1, <1>2, <1>3, <1>5, <1>6 DEF Faithful


FaithInv == \A c \in Client : KeysFit(c) /\ ProbeFits(c) /\ Faithful(c)

LEMMA RestVacuous ==
    ASSUME NEW c \in Client,
           job'[c].at = "lookups" \/ (job'[c].at = "idle" /\ job'[c].res.source \in {"missed", "error", "filtered"})
    PROVE  ProbeFits(c)' /\ Faithful(c)'
  BY DEF ProbeFits, Faithful, Sources

LEMMA AbandonRest ==
    ASSUME ShapeInv, NEW c \in Client, NEW reason \in {"missed", "error"}, Abandon(c, reason)
    PROVE  ProbeFits(c)' /\ Faithful(c)'
<1>1. job'[c].at = "idle" /\ job'[c].res.source = reason
  BY DEF ShapeInv, Abandon, Idle, Nothing
<1> QED BY <1>1, RestVacuous

LEMMA LoadRest ==
    ASSUME ShapeInv, NEW c \in Client, NEW len, Load(c, len), job[c].at = "lookups"
    PROVE  ProbeFits(c)' /\ Faithful(c)'
<1>1. job'[c].at = "lookups" BY DEF ShapeInv, JobInv, Fields, Load
<1> QED BY <1>1, RestVacuous

LEMMA ParseFaithful ==
    ASSUME ShapeInv, NEW c \in Client, KeysFit(c), ProbeFits(c), Faithful(c), ParseStep(c), cfg' = cfg
    PROVE  ProbeFits(c)' /\ Faithful(c)'
<1>1. CASE Peek(c)
  <2>1. job[c].at = "lookups" BY <1>1 DEF Peek, Pending
  <2> QED BY <1>1, <2>1, AbandonRest, LoadRest DEF Peek
<1>2. CASE Ask(c) BY <1>2, SameRest DEF Ask
<1>3. CASE Answer(c) BY <1>3, AbandonRest, LoadRest DEF Answer
<1>4. CASE Decide(c)
  <2>1. job[c].at = "lookups" /\ Loads(c) BY <1>4 DEF Decide, Loads
  <2>2. PICK v : /\ v = View(job[c].tx, Keys(c))
                 /\ \/ Offline(v) = NoSignal /\ job' = [job EXCEPT ![c].at = "probe"]
                    \/ Finish(c, Verdict(v, {}))
    BY <1>4 DEF Decide
  <2>3. CASE Offline(v) = NoSignal /\ job' = [job EXCEPT ![c].at = "probe"]
    <3>1. /\ job'[c].at = "probe" /\ job'[c].tx = job[c].tx /\ job'[c].next = job[c].next
          /\ job'[c].writable = job[c].writable /\ job'[c].readonly = job[c].readonly
      BY <2>3 DEF ShapeInv, JobInv, Fields
    <3>2. Loads(c)' BY <2>1, <3>1 DEF Loads
    <3>3. Keys(c)' = Keys(c) BY <3>1 DEF Keys
    <3>4. View(job[c].tx, Keys(c))' = v BY <2>2, <3>1, <3>3 DEF View
    <3>5. Offline(v)' = NoSignal BY <2>3, SameOffline
    <3>6. ASSUME NEW u \in {View(job[c].tx, Keys(c))'} PROVE Offline(u)' = NoSignal
      <4>1. u = v BY <3>4
      <4>2. Offline(u) = NoSignal BY <4>1, <2>3
      <4> QED BY <4>2, SameOffline
    <3> QED BY <3>1, <3>2, <3>6 DEF ProbeFits, Faithful, NoSignal, Nothing
  <2>4. CASE Finish(c, Verdict(v, {}))
    <3>1. Faithful(c)' BY <2>1, <2>2, <2>4, FinishFaithful
    <3>2. job'[c].at = "idle" BY <2>4 DEF ShapeInv, Finish, Idle
    <3> QED BY <3>1, <3>2 DEF ProbeFits
  <2> QED BY <2>2, <2>3, <2>4
<1>5. CASE ProbeEnds(c)
  <2>1. job[c].at = "probe" BY <1>5 DEF ProbeEnds
  <2>2. CASE Abandon(c, "error") BY <2>2, AbandonRest
  <2>3. CASE ~Abandon(c, "error")
    <3>1. PICK v \in {View(job[c].tx, Keys(c))}, shown \in SUBSET MintLike : Finish(c, Late(v, shown))
      BY <1>5, <2>3 DEF ProbeEnds
    <3>2. Loads(c) /\ Offline(v) = NoSignal BY <2>1, <3>1 DEF ProbeFits
    <3>3. Late(v, shown) = Verdict(v, shown) BY <3>2 DEF Verdict, Else
    <3>4. Faithful(c)' BY <2>1, <3>1, <3>2, <3>3, FinishFaithful
    <3>5. job'[c].at = "idle" BY <3>1 DEF ShapeInv, Finish, Idle
    <3> QED BY <3>4, <3>5 DEF ProbeFits
  <2> QED BY <2>2, <2>3
<1> QED BY <1>1, <1>2, <1>3, <1>4, <1>5 DEF ParseStep

LEMMA BeginFaithful ==
    ASSUME ShapeInv, NEW c \in Client, NEW tx \in Arrivals[c], Begin(c, tx)
    PROVE  ProbeFits(c)' /\ Faithful(c)'
<1>1. job'[c].at = "lookups" \/ (job'[c].at = "idle" /\ job'[c].res.source = "filtered")
  BY DEF ShapeInv, Begin, Idle, Nothing
<1> QED BY <1>1, RestVacuous

LEMMA FaithStep == ASSUME ShapeInv, AltIInv, FaithInv, [Next]_vars PROVE FaithInv'
<1>1. cfg' = cfg
  BY DEF Next, vars, ParseStep, Peek, Ask, Answer, Decide, ProbeEnds, Begin
<1>2. ASSUME NEW d \in Client PROVE KeysFit(d)' /\ ProbeFits(d)' /\ Faithful(d)'
  <2>0. KeysFit(d) /\ ProbeFits(d) /\ Faithful(d) /\ DOMAIN job = Client /\ AltTypeOK
    BY DEF ShapeInv, FaithInv, AltIInv, AltInv
  <2>1. CASE job' = job BY <1>1, <2>0, <2>1, SameKeys, SameRest
  <2>2. ASSUME NEW c \in Client, ParseStep(c) \/ \E tx \in Arrivals[c] : Begin(c, tx)
        PROVE  KeysFit(d)' /\ ProbeFits(d)' /\ Faithful(d)'
    <3>1. CASE c = d
      BY <1>1, <2>0, <2>2, <3>1, ParseKeys, BeginKeys, ParseFaithful, BeginFaithful
    <3>2. CASE c # d
      <4>1. LeftAlone(d) BY <2>0, <2>2, <3>2, OthersKeep
      <4> QED BY <2>0, <4>1, SameKeys, SameRest DEF LeftAlone
    <3> QED BY <3>1, <3>2
  <2> QED BY <2>1, <2>2 DEF Next, vars
<1> QED BY <1>2 DEF FaithInv

(* Of no transaction nothing is said.                                       *)
LEMMA NothingSaid == NoSignal \in Verdicts(NoTx)
<1>1. RuntimeKeys(NoTx) = <<>>
  <2>1. NoTx.keys = <<>> /\ DOMAIN NoTx.lookups = {} BY DEF NoTx
  <2>2. WritableLists(NoTx) = <<>> /\ ReadonlyLists(NoTx) = <<>> BY <2>1 DEF WritableLists, ReadonlyLists
  <2>3. FlattenSeq(<<>>) = <<>> BY EmptySeq DEF FlattenSeq
  <2>4. RuntimeKeys(NoTx) = <<>> \o <<>> \o <<>> BY <2>1, <2>2, <2>3, RuntimeIs
  <2> QED BY <2>4
<1> DEFINE v == View(NoTx, <<>>)
<1>2. v.keys = <<>> /\ v.signers = 0 BY DEF View, NoTx
<1>3. SubSeq(<<>>, 1, 0) = <<>> OBVIOUS
<1>4. Only(<<>>, cfg.leaders) = <<>>
  <2>1. <<>> \in Seq(STRING) /\ Len(<<>>) = 0 BY EmptySeq
  <2>2. \A k \in 1 .. Len(<<>>) : <<>>[k] \notin cfg.leaders BY <2>1
  <2> QED BY <2>1, <2>2, OnlyFacts
<1> HIDE DEF v
<1>5. Followed(v) = <<>> BY <1>2, <1>3, <1>4 DEF Followed
<1>6. Verdict(v, {}) = NoSignal BY <1>5 DEF Verdict, Offline, Late, Else
<1> QED BY <1>1, <1>6 DEF Verdicts, v

LEMMA FaithInit == Init => FaithInv
<1> SUFFICES ASSUME Init, NEW c \in Client PROVE KeysFit(c) /\ ProbeFits(c) /\ Faithful(c)
  BY DEF FaithInv
<1>1. /\ job[c].at = "idle" /\ job[c].tx = NoTx /\ job[c].res = NoSignal
      /\ job[c].writable = <<>> /\ job[c].readonly = <<>>
  BY DEF Init, Idle
<1>2. <<>> \in Seq(STRING) BY EmptySeq
<1> QED BY <1>1, <1>2, NothingSaid DEF KeysFit, ProbeFits, Faithful

---------------------------------------------------------------------------
(* The first result that is one is one of them.                             *)
LEMMA FirstFacts ==
    ASSUME NEW s, NEW n \in Nat, DOMAIN s = 1 .. n, NEW none, First(s, none) # none
    PROVE  \E k \in 1 .. n : s[k] # none /\ First(s, none) = s[k]
<1> DEFINE S == {k \in 1 .. n : s[k] # none}
           IsFirst(k) == s[k] # none /\ \A j \in 1 .. k - 1 : s[j] = none
<1>1. S # {} BY DEF First
<1>2. PICK x \in S : \A y \in S : x <= y
  <2>1. S \in SUBSET Nat OBVIOUS
  <2> HIDE DEF S
  <2> QED BY <1>1, <2>1, Least
<1>3. x \in DOMAIN s /\ IsFirst(x)
  <2>1. \A j \in 1 .. x - 1 : j \in 1 .. n /\ ~(x <= j) BY <1>2
  <2> QED BY <2>1, <1>2
<1>4. First(s, none) = s[CHOOSE k \in DOMAIN s : IsFirst(k)] BY <1>1 DEF First
<1> DEFINE k == CHOOSE i \in DOMAIN s : IsFirst(i)
<1>5. k \in DOMAIN s /\ IsFirst(k)
  <2> HIDE DEF IsFirst
  <2> QED BY <1>3
<1> QED BY <1>4, <1>5

(* A position is of a member, or 0.                                         *)
LEMMA PositionFacts ==
    ASSUME NEW E, NEW s \in Seq(E), NEW a
    PROVE  Position(s, a) = 0 \/ Position(s, a) \in 1 .. Len(s)
<1> DEFINE I == {i \in 1 .. Len(s) : s[i] = a}
<1>1. Position(s, a) = IF I # {} THEN Min(I) ELSE 0 BY DEF Position, SelectInSeq
<1>2. I \in SUBSET Nat BY LenProperties
<1>3. ASSUME I # {} PROVE Min(I) \in I
  <2> HIDE DEF I
  <2>1. \E x \in I : \A y \in I : x <= y BY <1>2, <1>3, Least
  <2> QED BY <2>1 DEF Min
<1> QED BY <1>1, <1>3

(* What a parse sees of an executable transaction.                          *)
Account == STRING \cup {"unresolved"}
Seen(v, n) ==
    /\ v.keys \in Seq(STRING) /\ v.signers \in 0 .. Len(v.keys) /\ n \in Nat /\ DOMAIN v.ixs = 1 .. n
    /\ \A k \in 1 .. n : /\ v.ixs[k].prog \in STRING /\ v.ixs[k].args \in Seq(Nat)
                         /\ v.ixs[k].all \in Seq(Account) /\ v.ixs[k].accounts \in Seq(STRING)

LEMMA ViewSeen ==
    ASSUME NEW c \in Client, NEW tx \in Arrivals[c], NEW keys \in Seq(STRING),
           Len(tx.keys) <= Len(keys)
    PROVE  /\ Seen(View(tx, keys), Len(tx.ixs)) /\ View(tx, keys).keys = keys
           /\ View(tx, keys).signers = tx.signers
           /\ \A k \in 1 .. Len(tx.ixs) : View(tx, keys).ixs[k].prog \in ToSet(tx.keys)
<1> DEFINE n == Len(tx.ixs)
           v == View(tx, keys)
           At(i) == IF i \in DOMAIN keys THEN keys[i] ELSE "unresolved"
           All(k) == [j \in DOMAIN tx.ixs[k].accounts |-> At(tx.ixs[k].accounts[j])]
<1>1. tx \in Transaction /\ Executable(tx) BY ArrivalAssumption
<1>2. tx.ixs \in Seq(Instruction) /\ tx.keys \in Seq(STRING) /\ tx.signers \in 0 .. Len(keys)
  BY <1>1, LenProperties DEF Transaction, Executable
<1>3. n \in Nat /\ DOMAIN tx.ixs = 1 .. n /\ \A k \in 1 .. n : tx.ixs[k] \in Instruction
  BY <1>2, LenProperties, ElementOfSeq
<1>4. /\ v.keys = keys /\ v.signers = tx.signers /\ DOMAIN v.ixs = 1 .. n
      /\ \A k \in 1 .. n : /\ v.ixs[k].prog = tx.keys[tx.ixs[k].prog]
                           /\ v.ixs[k].args = tx.ixs[k].args
                           /\ v.ixs[k].all = All(k)
                           /\ v.ixs[k].accounts = Only(All(k), ToSet(keys))
  BY <1>3 DEF View
<1>5. ASSUME NEW k \in 1 .. n PROVE All(k) \in Seq(Account)
  <2>1. tx.ixs[k].accounts \in Seq(Nat) BY <1>3 DEF Instruction
  <2>2. DOMAIN tx.ixs[k].accounts = 1 .. Len(tx.ixs[k].accounts) /\ Len(tx.ixs[k].accounts) \in Nat
    BY <2>1, LenProperties
  <2>3. \A i : At(i) \in Account
    <3>1. \A i \in DOMAIN keys : keys[i] \in STRING BY LenProperties, ElementOfSeq
    <3> QED BY <3>1 DEF Account
  <2> HIDE DEF At
  <2> QED BY <2>2, <2>3
<1>6. ToSet(keys) \subseteq STRING
  <2>1. \A i \in DOMAIN keys : keys[i] \in STRING BY LenProperties, ElementOfSeq
  <2> QED BY <2>1 DEF ToSet, Range
<1>7. ASSUME NEW k \in 1 .. n PROVE Only(All(k), ToSet(keys)) \in Seq(STRING)
  <2> DEFINE a == All(k)
             o == Only(a, ToSet(keys))
  <2>1. a \in Seq(Account) BY <1>5
  <2> HIDE DEF a
  <2>2. o \in Seq(Account) /\ \A j \in 1 .. Len(o) : o[j] \in ToSet(keys) BY <2>1, OnlyFacts
  <2> HIDE DEF o
  <2>3. \A j \in 1 .. Len(o) : o[j] \in STRING BY <2>2, <1>6
  <2>4. DOMAIN o = 1 .. Len(o) /\ Len(o) \in Nat BY <2>2, LenProperties
  <2>5. o = [j \in 1 .. Len(o) |-> o[j]] BY <2>2, <2>4
  <2>6. o \in Seq(STRING) BY <2>3, <2>4, <2>5
  <2> QED BY <2>6 DEF o, a
<1> HIDE DEF v, At, All
<1>8. ASSUME NEW k \in 1 .. n PROVE tx.keys[tx.ixs[k].prog] \in ToSet(tx.keys)
  <2>1. tx.ixs[k].prog \in 1 .. Len(tx.keys) BY <1>1, <1>3 DEF Executable
  <2>2. DOMAIN tx.keys = 1 .. Len(tx.keys) BY <1>2, LenProperties
  <2> QED BY <2>1, <2>2 DEF ToSet, Range
<1>9. ToSet(tx.keys) \subseteq STRING
  <2>1. \A i \in DOMAIN tx.keys : tx.keys[i] \in STRING BY <1>2, LenProperties, ElementOfSeq
  <2> QED BY <2>1 DEF ToSet, Range
<1>10. \A k \in 1 .. n : tx.ixs[k].args \in Seq(Nat) BY <1>3 DEF Instruction
<1>11. Seen(v, n) BY <1>2, <1>3, <1>4, <1>5, <1>7, <1>8, <1>9, <1>10 DEF Seen
<1> QED BY <1>4, <1>8, <1>11 DEF v

---------------------------------------------------------------------------
(* The results of the ways have their type.                                 *)

Answers == {r \in Result : r.source \in Sources \cup {"none"}}

LEMMA SeqName == ASSUME NEW s \in Seq(STRING) PROVE s \in Seq(Name)
<1>1. DOMAIN s = 1 .. Len(s) /\ Len(s) \in Nat /\ \A k \in 1 .. Len(s) : s[k] \in Name
  BY LenProperties, ElementOfSeq DEF Name
<1>2. s = [k \in 1 .. Len(s) |-> s[k]] BY <1>1
<1> QED BY <1>1, <1>2

LEMMA NoSignalType == NoSignal \in Answers
<1>1. <<>> \in Seq(Name) /\ <<>> \in Seq(Nat) BY EmptySeq
<1> QED BY <1>1 DEF NoSignal, Nothing, Answers, Result, Reasons, Name

LEMMA FirstInType == ASSUME NEW s \in Seq(STRING), NEW T PROVE FirstIn(s, T) \in Name
<1> DEFINE o == Only(s, T)
           a == Append(o, "")
<1>1. o \in Seq(STRING) BY OnlyFacts
<1> HIDE DEF o
<1>2. o \in Seq(Name) /\ "" \in Name BY <1>1, SeqName DEF Name
<1>3. a \in Seq(Name) /\ Len(a) = Len(o) + 1 /\ Len(o) \in Nat BY <1>2, AppendProperties, LenProperties
<1> HIDE DEF a
<1>4. a[1] \in Name BY <1>3, ElementOfSeq
<1>5. a # <<>> BY <1>3, EmptySeq
<1>6. Head(a) = a[1] BY <1>3, <1>5
<1> QED BY <1>4, <1>6 DEF FirstIn, a, o

LEMMA FollowedType == ASSUME NEW v, NEW n, Seen(v, n) PROVE Followed(v) \in Seq(STRING)
<1>1. v.keys \in Seq(STRING) /\ v.signers \in 0 .. Len(v.keys) /\ Len(v.keys) \in Nat
  BY LenProperties DEF Seen
<1>2. SubSeq(v.keys, 1, v.signers) \in Seq(STRING)
  BY <1>1, SubSeqProperties
<1>3. Only(v.keys, cfg.leaders) \in Seq(STRING) BY <1>1, OnlyFacts
<1>4. Only(SubSeq(v.keys, 1, v.signers), cfg.leaders) \in Seq(STRING)
  <2> DEFINE b == SubSeq(v.keys, 1, v.signers)
  <2>1. b \in Seq(STRING) BY <1>2
  <2> HIDE DEF b
  <2>2. Only(b, cfg.leaders) \in Seq(STRING) BY <2>1, OnlyFacts
  <2> QED BY <2>2 DEF b
<1> QED BY <1>1, <1>3, <1>4 DEF Followed

(* Results, field by field.                                                 *)
Res(s, l, m, a, t, p) ==
    [source |-> s, leader |-> l, mint |-> m, accounts |-> a, terms |-> t, program |-> p]

LEMMA ResType ==
    ASSUME NEW s \in Sources, NEW l \in Name, NEW m \in Name, NEW a \in Seq(Name),
           NEW t \in Seq(Nat), NEW p \in Name
    PROVE  Res(s, l, m, a, t, p) \in Answers
  BY DEF Res, Answers, Result

LEMMA SignalIs ==
    ASSUME NEW v, NEW source, NEW mint, NEW accounts
    PROVE  Signal(v, source, mint, accounts) = Res(source, Head(Followed(v)), mint, accounts, <<>>, "")
<1> DEFINE r == Signal(v, source, mint, accounts)
           head == Head(Followed(v))
           none == Nothing(source)
           empty == <<>>
           blank == ""
<1>1. none = Res(source, blank, blank, empty, empty, blank) BY DEF Nothing, Res
<1>2. r = [none EXCEPT !.leader = head, !.mint = mint, !.accounts = accounts] BY DEF Signal
<1> HIDE DEF r, head, none, empty, blank
<1>3. r = [[[none EXCEPT !.leader = head] EXCEPT !.mint = mint] EXCEPT !.accounts = accounts]
  BY <1>2
<1>4. [none EXCEPT !.leader = head] = Res(source, head, blank, empty, empty, blank) BY <1>1 DEF Res
<1>5. [Res(source, head, blank, empty, empty, blank) EXCEPT !.mint = mint] = Res(source, head, mint, empty, empty, blank)
  BY DEF Res
<1>6. [Res(source, head, mint, empty, empty, blank) EXCEPT !.accounts = accounts]
         = Res(source, head, mint, accounts, empty, blank)
  BY DEF Res
<1>7. r = Res(source, head, mint, accounts, empty, blank) BY <1>3, <1>4, <1>5, <1>6
<1> QED BY <1>7 DEF r, head, empty, blank

LEMMA SignalType ==
    ASSUME NEW v, NEW n, Seen(v, n), Followed(v) # <<>>, NEW source \in Sources, NEW mint \in Name,
           NEW accounts \in Seq(STRING)
    PROVE  /\ Signal(v, source, mint, accounts) \in Answers
           /\ \A args \in Seq(Nat) : [Signal(v, source, mint, accounts) EXCEPT !.terms = args] \in Answers
           /\ \A prog \in STRING : [Signal(v, source, mint, accounts) EXCEPT !.program = prog] \in Answers
<1> DEFINE head == Head(Followed(v))
           empty == <<>>
           blank == ""
<1>1. head \in Name BY FollowedType, HeadTailProperties DEF Name
<1>2. accounts \in Seq(Name) BY SeqName
<1>3. empty \in Seq(Nat) /\ blank \in Name BY EmptySeq DEF Name
<1>4. Signal(v, source, mint, accounts) = Res(source, head, mint, accounts, empty, blank) BY SignalIs
<1> HIDE DEF head, empty, blank
<1>5. Res(source, head, mint, accounts, empty, blank) \in Answers BY <1>1, <1>2, <1>3, ResType
<1>6. ASSUME NEW args \in Seq(Nat)
      PROVE  [Signal(v, source, mint, accounts) EXCEPT !.terms = args] \in Answers
  <2>1. [Res(source, head, mint, accounts, empty, blank) EXCEPT !.terms = args]
           = Res(source, head, mint, accounts, args, blank)
    BY DEF Res
  <2>2. Res(source, head, mint, accounts, args, blank) \in Answers BY <1>1, <1>2, <1>3, ResType
  <2> QED BY <1>4, <2>1, <2>2
<1>7. ASSUME NEW prog \in STRING
      PROVE  [Signal(v, source, mint, accounts) EXCEPT !.program = prog] \in Answers
  <2>1. prog \in Name BY DEF Name
  <2>2. [Res(source, head, mint, accounts, empty, blank) EXCEPT !.program = prog]
           = Res(source, head, mint, accounts, empty, prog)
    BY DEF Res
  <2>3. Res(source, head, mint, accounts, empty, prog) \in Answers
    BY <2>1, <1>1, <1>2, <1>3, ResType
  <2> QED BY <1>4, <2>2, <2>3
<1> QED BY <1>4, <1>5, <1>6, <1>7

LEMMA FirstType ==
    ASSUME NEW s, NEW n \in Nat, DOMAIN s = 1 .. n, NEW none, NEW A, none \in A, \A k \in 1 .. n : s[k] \in A
    PROVE  First(s, none) \in A
  BY FirstFacts

LEMMA Bound == ASSUME NEW f, NEW none PROVE (CHOOSE x \in {First(s, none) : s \in {f}} : TRUE) = First(f, none)
  OBVIOUS

LEMMA DirectType ==
    ASSUME NEW v, NEW n, Seen(v, n), Followed(v) # <<>> PROVE Direct(v) \in Answers
<1> DEFINE IsBuy(ix) == /\ ix.prog = "pump" /\ ix.method = "buy"
                        /\ Len(ix.all) > 2 /\ ix.all[3] # "unresolved"
           Found(ix) == IF IsBuy(ix)
                        THEN [Signal(v, "curve_direct_buy", ix.all[3], ix.accounts) EXCEPT !.terms = ix.args]
                        ELSE NoSignal
           f == [k \in DOMAIN v.ixs |-> Found(v.ixs[k])]
<1>1. Direct(v) = First(f, NoSignal) BY Bound DEF Direct, FirstFound
<1>2. ASSUME NEW k \in 1 .. n PROVE Found(v.ixs[k]) \in Answers
  <2> DEFINE ix == v.ixs[k]
  <2>1. /\ ix.prog \in STRING /\ ix.args \in Seq(Nat) /\ ix.all \in Seq(Account) /\ ix.accounts \in Seq(STRING)
    BY DEF Seen
  <2> SUFFICES Found(ix) \in Answers OBVIOUS
  <2> HIDE DEF ix
  <2>2. CASE ~IsBuy(ix) BY <2>2, NoSignalType
  <2>3. CASE IsBuy(ix)
    <3>1. 3 \in 1 .. Len(ix.all) BY <2>1, <2>3, LenProperties
    <3>2. ix.all[3] \in Account /\ ix.all[3] # "unresolved" BY <2>1, <2>3, <3>1, ElementOfSeq
    <3>3. ix.all[3] \in Name BY <3>2 DEF Account, Name
    <3>4. "curve_direct_buy" \in Sources BY DEF Sources
    <3>5. [Signal(v, "curve_direct_buy", ix.all[3], ix.accounts) EXCEPT !.terms = ix.args] \in Answers
      BY <2>1, <3>3, <3>4, SignalType
    <3> QED BY <2>3, <3>5
  <2> QED BY <2>2, <2>3
<1> HIDE DEF Found
<1>3. DOMAIN f = 1 .. n /\ n \in Nat /\ \A k \in 1 .. n : f[k] \in Answers BY <1>2 DEF Seen
<1> HIDE DEF f
<1> QED BY <1>1, <1>3, NoSignalType, FirstType

LEMMA CpiType ==
    ASSUME NEW v, NEW n, Seen(v, n), Followed(v) # <<>> PROVE Cpi(v) \in Answers
<1> DEFINE Block(accs) == SubSeq(accs, Position(accs, "global"), Position(accs, "global") + 15)
           IsBlock(b) == /\ b[8] = "sys" /\ b[9] \in {"tok", "tok22"} /\ b[12] = "pump"
                         /\ b[16] = "fee" /\ b[3] \in PumpNamed
           IsBuy(ix) == /\ ix.prog = "axiom"
                        /\ Position(ix.accounts, "global") \in 1 .. Len(ix.accounts) - 15
                        /\ \E b \in {Block(ix.accounts)} : IsBlock(b)
           Found(ix) == IF IsBuy(ix)
                        THEN Signal(v, "curve_cpi_buy", Block(ix.accounts)[3], Block(ix.accounts))
                        ELSE NoSignal
           f == [k \in DOMAIN v.ixs |-> Found(v.ixs[k])]
<1>1. Cpi(v) = IF HasAta(v) THEN First(f, NoSignal) ELSE NoSignal BY Bound DEF Cpi, FirstFound
<1> HIDE DEF IsBlock
<1>2. ASSUME NEW k \in 1 .. n PROVE Found(v.ixs[k]) \in Answers
  <2> DEFINE ix == v.ixs[k]
             s == ix.accounts
             p == Position(s, "global")
  <2>1. s \in Seq(STRING) BY DEF Seen
  <2> SUFFICES Found(ix) \in Answers OBVIOUS
  <2>2. CASE ~IsBuy(ix) BY <2>2, NoSignalType
  <2>3. CASE IsBuy(ix)
    <3>1. p \in 1 .. Len(s) - 15 BY <2>3
    <3> HIDE DEF p
    <3>2. Len(s) \in Nat /\ \A i \in 1 .. Len(s) : s[i] \in STRING BY <2>1, LenProperties, ElementOfSeq
    <3> HIDE DEF s
    <3>3. p \in Int /\ p + 15 \in Int /\ p <= p + 15 /\ (p + 15) - p + 1 = 16
          /\ \A i \in p .. p + 15 : i \in 1 .. Len(s)
      BY <3>1, <3>2
    <3> DEFINE q == p + 15
               b == SubSeq(s, p, q)
    <3>4. q \in Int /\ p \in Int /\ p <= q /\ q - p + 1 = 16 /\ \A i \in p .. q : s[i] \in STRING
      BY <3>2, <3>3
    <3> HIDE DEF q
    <3>5. b \in Seq(STRING) /\ Len(b) = 16 BY <3>4, SubSeqProperties
    <3>6. Block(ix.accounts) = b BY DEF b, q, p, s
    <3> HIDE DEF b, Block
    <3>7. 3 \in 1 .. Len(b) BY <3>5
    <3>8. b[3] \in Name BY <3>5, <3>7, ElementOfSeq DEF Name
    <3>9. "curve_cpi_buy" \in Sources BY DEF Sources
    <3>10. Signal(v, "curve_cpi_buy", b[3], b) \in Answers BY <3>5, <3>8, <3>9, SignalType
    <3> QED BY <2>3, <3>6, <3>10
  <2> QED BY <2>2, <2>3
<1> HIDE DEF Found
<1>3. DOMAIN f = 1 .. n /\ n \in Nat /\ \A k \in 1 .. n : f[k] \in Answers BY <1>2 DEF Seen
<1> HIDE DEF f
<1> QED BY <1>1, <1>3, NoSignalType, FirstType

LEMMA BaseMintType == ASSUME NEW v, NEW n, Seen(v, n) PROVE BaseMint(v) \in Name
<1> DEFINE Left(accs) == IF Position(accs, "wsol") > 1 THEN accs[Position(accs, "wsol") - 1] ELSE "wsol"
           Swaps(ix) == "amm" \in ToSet(ix.accounts)
           Dead(ix) == \/ "unresolved" \in ToSet(ix.all)
                       \/ Swaps(ix) /\ Position(ix.accounts, "wsol") = 0
           Found(ix) == IF ix.prog # "axiom" THEN "go on"
                        ELSE IF Dead(ix) THEN ""
                        ELSE IF Swaps(ix) /\ Left(ix.accounts) \notin {"wsol", "sys", "tok", "axiom", "amm"}
                        THEN Left(ix.accounts) ELSE "go on"
           f == [k \in DOMAIN v.ixs |-> Found(v.ixs[k])]
<1>1. BaseMint(v) = IF First(f, "go on") = "go on" THEN "" ELSE First(f, "go on")
  BY Bound DEF BaseMint, FirstFound
<1> HIDE DEF Swaps, Dead
<1>2. ASSUME NEW k \in 1 .. n PROVE Found(v.ixs[k]) \in Name \cup {"go on"}
  <2> DEFINE ix == v.ixs[k]
             s == ix.accounts
             p == Position(s, "wsol")
  <2>1. s \in Seq(STRING) BY DEF Seen
  <2> HIDE DEF s
  <2>2. Len(s) \in Nat /\ (p = 0 \/ p \in 1 .. Len(s)) BY <2>1, PositionFacts, LenProperties
  <2>3. p > 1 => s[p - 1] \in Name
    <3> HIDE DEF p
    <3> SUFFICES ASSUME p > 1 PROVE s[p - 1] \in Name OBVIOUS
    <3>1. p - 1 \in 1 .. Len(s) BY <2>2
    <3> QED BY <2>1, <3>1, ElementOfSeq DEF Name
  <2>4. Left(s) \in Name \/ Left(s) = "wsol" BY <2>3
  <2> HIDE DEF Left
  <2>5. "" \in Name BY DEF Name
  <2> SUFFICES Found(ix) \in Name \cup {"go on"} OBVIOUS
  <2> QED BY <2>4, <2>5 DEF s
<1> HIDE DEF Found
<1>3. DOMAIN f = 1 .. n /\ n \in Nat /\ \A k \in 1 .. n : f[k] \in Name \cup {"go on"}
  BY <1>2 DEF Seen
<1> HIDE DEF f
<1>4. First(f, "go on") \in Name \cup {"go on"}
  <2> DEFINE A == Name \cup {"go on"}
             none == "go on"
  <2>1. none \in A /\ \A k \in 1 .. n : f[k] \in A BY <1>3
  <2> HIDE DEF A, none
  <2>2. First(f, none) \in A BY <1>3, <2>1, FirstType
  <2> QED BY <2>2 DEF A, none
<1>5. "" \in Name BY DEF Name
<1> QED BY <1>1, <1>4, <1>5

LEMMA AmmType == ASSUME NEW v, NEW n, Seen(v, n), Followed(v) # <<>> PROVE Amm(v) \in Answers
<1>1. BaseMint(v) \in Name /\ "amm_axiom_buy" \in Sources /\ <<>> \in Seq(STRING)
  BY BaseMintType, EmptySeq DEF Sources
<1>2. Signal(v, "amm_axiom_buy", BaseMint(v), <<>>) \in Answers BY <1>1, SignalType
<1> QED BY <1>2, NoSignalType DEF Amm

LEMMA PdaType == ASSUME NEW v, NEW n, Seen(v, n), Followed(v) # <<>> PROVE Pda(v) \in Answers
<1> DEFINE mints == {d.mint : d \in {e \in Derived : Names(v, e.curve) /\ Names(v, e.assoc)}}
           mint == FirstIn(v.keys, mints)
<1>1. v.keys \in Seq(STRING) BY DEF Seen
<1>2. mint \in Name
  <2> HIDE DEF mints
  <2> QED BY <1>1, FirstInType
<1>3. "curve_pda_buyish" \in Sources /\ <<>> \in Seq(STRING) BY EmptySeq DEF Sources
<1>4. Pda(v) \in {NoSignal, Signal(v, "curve_pda_buyish", mint, <<>>)} BY DEF Pda
<1> HIDE DEF mint
<1>5. Signal(v, "curve_pda_buyish", mint, <<>>) \in Answers BY <1>2, <1>3, SignalType
<1> QED BY <1>4, <1>5, NoSignalType

LEMMA ProbeType ==
    ASSUME NEW v, NEW n, Seen(v, n), Followed(v) # <<>>, NEW shown PROVE Probe(v, shown) \in Answers
<1> DEFINE Found(ix) == FirstIn(ix.accounts, Probed(v) \cap MintLike \cap shown)
           f == [k \in DOMAIN v.ixs |-> Found(v.ixs[k])]
           mint == First(f, "")
<1>1. Probe(v, shown) \in {NoSignal, Signal(v, "rpc_buyish", mint, <<>>)} BY Bound DEF Probe, FirstFound
<1>2. ASSUME NEW k \in 1 .. n PROVE Found(v.ixs[k]) \in Name
  <2> DEFINE T == Probed(v) \cap MintLike \cap shown
  <2>1. v.ixs[k].accounts \in Seq(STRING) BY DEF Seen
  <2> HIDE DEF T
  <2>2. FirstIn(v.ixs[k].accounts, T) \in Name BY <2>1, FirstInType
  <2> QED BY <2>2 DEF T
<1> HIDE DEF Found
<1>3. DOMAIN f = 1 .. n /\ n \in Nat /\ \A k \in 1 .. n : f[k] \in Name BY <1>2 DEF Seen
<1> HIDE DEF f
<1>4. mint \in Name
  <2> DEFINE blank == ""
  <2>1. blank \in Name BY DEF Name
  <2> HIDE DEF blank
  <2>2. First(f, blank) \in Name BY <1>3, <2>1, FirstType
  <2> QED BY <2>2 DEF blank
<1>5. "rpc_buyish" \in Sources /\ <<>> \in Seq(STRING) BY EmptySeq DEF Sources
<1> HIDE DEF mint
<1>6. Signal(v, "rpc_buyish", mint, <<>>) \in Answers BY <1>4, <1>5, SignalType
<1> QED BY <1>1, <1>6, NoSignalType

LEMMA MirrorType == ASSUME NEW v, NEW n, Seen(v, n), Followed(v) # <<>> PROVE Mirror(v) \in Answers
<1> DEFINE Suffix == FirstIn(v.keys, PumpNamed)
           OnAmm(ix) == ix.prog = "axiom" /\ Names(v, "amm")
           Mint(ix) == IF OnAmm(ix) /\ BaseMint(v) # "" THEN BaseMint(v) ELSE Suffix
           IsBuy(ix) == /\ ix.prog \in cfg.wrappers \ {"trojan"}
                        /\ OnAmm(ix) => Wraps(v)
                        /\ Mint(ix) # ""
           Found(ix) == IF IsBuy(ix)
                        THEN [Signal(v, "wrapper_mirror", Mint(ix), ix.accounts) EXCEPT !.program = ix.prog]
                        ELSE NoSignal
           f == [k \in DOMAIN v.ixs |-> Found(v.ixs[k])]
<1>1. Mirror(v) = First(f, NoSignal) BY Bound DEF Mirror, FirstFound
<1>2. ASSUME NEW k \in 1 .. n PROVE Found(v.ixs[k]) \in Answers
  <2> DEFINE ix == v.ixs[k]
  <2>1. v.keys \in Seq(STRING) /\ ix.prog \in STRING /\ ix.accounts \in Seq(STRING) BY DEF Seen
  <2>2. Suffix \in Name /\ BaseMint(v) \in Name BY <2>1, FirstInType, BaseMintType
  <2> SUFFICES Found(ix) \in Answers OBVIOUS
  <2> HIDE DEF ix, Suffix, OnAmm
  <2>3. Mint(ix) \in Name BY <2>2
  <2> HIDE DEF Mint
  <2>4. "wrapper_mirror" \in Sources BY DEF Sources
  <2>5. [Signal(v, "wrapper_mirror", Mint(ix), ix.accounts) EXCEPT !.program = ix.prog] \in Answers
    BY <2>1, <2>3, <2>4, SignalType
  <2> HIDE DEF IsBuy
  <2> QED BY <2>5, NoSignalType
<1> HIDE DEF Found
<1>3. DOMAIN f = 1 .. n /\ n \in Nat /\ \A k \in 1 .. n : f[k] \in Answers BY <1>2 DEF Seen
<1> HIDE DEF f
<1> QED BY <1>1, <1>3, NoSignalType, FirstType

LEMMA VerdictType ==
    ASSUME NEW v, NEW n, Seen(v, n), NEW shown
    PROVE  Offline(v) \in Answers /\ Late(v, shown) \in Answers /\ Verdict(v, shown) \in Answers
<1>1. Followed(v) # <<>> =>
         /\ Direct(v) \in Answers /\ Cpi(v) \in Answers /\ Amm(v) \in Answers /\ Pda(v) \in Answers
         /\ Probe(v, shown) \in Answers /\ Mirror(v) \in Answers
  BY DirectType, CpiType, AmmType, PdaType, ProbeType, MirrorType
<1> QED BY <1>1, NoSignalType DEF Offline, Late, Verdict, Else

---------------------------------------------------------------------------
(* What stage 0 filters out, and the type of what a parse says.             *)

ResFits(c) ==
    /\ job[c].res \in Result
    /\ job[c].res.source = "filtered" => job[c].tx \in Arrivals[c] /\ ~Passes(job[c].tx)

LEMMA NothingType == ASSUME NEW reason \in Reasons PROVE Nothing(reason) \in Result
<1>1. <<>> \in Seq(Name) /\ <<>> \in Seq(Nat) BY EmptySeq
<1> QED BY <1>1 DEF Nothing, Result, Name

LEMMA SamePasses == ASSUME cfg' = cfg, NEW tx PROVE Passes(tx)' = Passes(tx)
  BY SameFollowed DEF Passes

LEMMA SameRes ==
    ASSUME NEW c \in Client, ResFits(c), cfg' = cfg, job'[c].tx = job[c].tx, job'[c].res = job[c].res
    PROVE  ResFits(c)'
<1>1. PICK tx : tx = job[c].tx OBVIOUS
<1>2. Passes(tx)' = Passes(tx) BY SamePasses
<1>3. Passes(job[c].tx)' = Passes(tx)' BY <1>1 DEF Passes, Followed
<1> QED BY <1>1, <1>2, <1>3 DEF ResFits

LEMMA ResWithout ==
    ASSUME NEW c \in Client, job'[c].res \in Result, job'[c].res.source # "filtered"
    PROVE  ResFits(c)'
  BY DEF ResFits

LEMMA AbandonRes ==
    ASSUME ShapeInv, NEW c \in Client, NEW reason \in {"missed", "error"}, Abandon(c, reason)
    PROVE  ResFits(c)'
<1>1. job'[c].res = Nothing(reason) BY DEF ShapeInv, Abandon, Idle
<1>2. reason \in Reasons BY DEF Reasons
<1>3. Nothing(reason).source # "filtered" BY DEF Nothing
<1> QED BY <1>1, <1>2, <1>3, NothingType, ResWithout

LEMMA LoadRes ==
    ASSUME ShapeInv, NEW c \in Client, ResFits(c), NEW len, Load(c, len), cfg' = cfg
    PROVE  ResFits(c)'
<1>1. job'[c].tx = job[c].tx /\ job'[c].res = job[c].res BY DEF ShapeInv, JobInv, Fields, Load
<1> QED BY <1>1, SameRes

LEMMA FinishRes ==
    ASSUME ShapeInv, NEW c \in Client, NEW res \in Answers, Finish(c, res)
    PROVE  ResFits(c)'
<1>1. job'[c].res = res BY DEF ShapeInv, Finish, Idle
<1>2. res \in Result /\ res.source # "filtered" BY DEF Answers, Sources
<1> QED BY <1>1, <1>2, ResWithout

(* The keys a parse has, and what it sees with them.                        *)
LEMMA KeysSeen ==
    ASSUME ShapeInv, NEW c \in Client, KeysFit(c), job[c].at # "idle"
    PROVE  Seen(View(job[c].tx, Keys(c)), Len(job[c].tx.ixs))
<1> DEFINE tx == job[c].tx
           w == job[c].writable
           r == job[c].readonly
<1>1. tx \in Arrivals[c] BY DEF ShapeInv, JobShape
<1>2. tx.keys \in Seq(STRING) /\ w \in Seq(STRING) /\ r \in Seq(STRING)
  BY <1>1, ArrivalAssumption DEF Transaction, KeysFit
<1> HIDE DEF tx, w, r
<1>3. tx.keys \o w \in Seq(STRING) /\ Len(tx.keys \o w) = Len(tx.keys) + Len(w)
  BY <1>2, ConcatProperties
<1>4. tx.keys \o w \o r \in Seq(STRING) /\ Len(tx.keys \o w \o r) = Len(tx.keys \o w) + Len(r)
  BY <1>2, <1>3, ConcatProperties
<1>5. Len(tx.keys) \in Nat /\ Len(w) \in Nat /\ Len(r) \in Nat BY <1>2, LenProperties
<1>6. Len(tx.keys) <= Len(tx.keys \o w \o r) BY <1>3, <1>4, <1>5
<1>7. Keys(c) = tx.keys \o w \o r BY DEF Keys, tx, w, r
<1> QED BY <1>1, <1>4, <1>6, <1>7, ViewSeen DEF tx

LEMMA ParseRes ==
    ASSUME ShapeInv, NEW c \in Client, KeysFit(c), ResFits(c), ParseStep(c), cfg' = cfg
    PROVE  ResFits(c)'
<1>1. CASE Peek(c) BY <1>1, AbandonRes, LoadRes DEF Peek
<1>2. CASE Ask(c) BY <1>2, SameRes DEF Ask
<1>3. CASE Answer(c) BY <1>3, AbandonRes, LoadRes DEF Answer
<1>4. CASE Decide(c)
  <2>1. job[c].at # "idle" BY <1>4 DEF Decide
  <2>2. PICK v : /\ v = View(job[c].tx, Keys(c))
                 /\ job' = [job EXCEPT ![c].at = "probe"] \/ Finish(c, Verdict(v, {}))
    BY <1>4 DEF Decide
  <2>3. Verdict(v, {}) \in Answers BY <2>1, <2>2, KeysSeen, VerdictType
  <2>4. CASE job' = [job EXCEPT ![c].at = "probe"]
    <3>1. job'[c].tx = job[c].tx /\ job'[c].res = job[c].res BY <2>4 DEF ShapeInv, JobInv, Fields
    <3> QED BY <3>1, SameRes
  <2>5. CASE Finish(c, Verdict(v, {})) BY <2>3, <2>5, FinishRes
  <2> QED BY <2>2, <2>4, <2>5
<1>5. CASE ProbeEnds(c)
  <2>1. job[c].at # "idle" BY <1>5 DEF ProbeEnds
  <2>2. CASE Abandon(c, "error") BY <2>2, AbandonRes
  <2>3. CASE ~Abandon(c, "error")
    <3>1. PICK v \in {View(job[c].tx, Keys(c))}, shown \in SUBSET MintLike : Finish(c, Late(v, shown))
      BY <1>5, <2>3 DEF ProbeEnds
    <3>2. Late(v, shown) \in Answers BY <2>1, <3>1, KeysSeen, VerdictType
    <3> QED BY <3>1, <3>2, FinishRes
  <2> QED BY <2>2, <2>3
<1> QED BY <1>1, <1>2, <1>3, <1>4, <1>5 DEF ParseStep

LEMMA BeginRes ==
    ASSUME ShapeInv, NEW c \in Client, NEW tx \in Arrivals[c], Begin(c, tx)
    PROVE  ResFits(c)'
<1>1. CASE Passes(tx)
  <2>1. job'[c].res = NoSignal BY <1>1 DEF ShapeInv, Begin, Idle
  <2>2. NoSignal \in Result /\ NoSignal.source # "filtered"
    BY NoSignalType DEF Answers, NoSignal, Nothing
  <2> QED BY <2>1, <2>2, ResWithout
<1>2. CASE ~Passes(tx)
  <2>1. job'[c].res = Nothing("filtered") /\ job'[c].tx = tx BY <1>2 DEF ShapeInv, Begin, Idle
  <2>2. Nothing("filtered") \in Result
    <3>1. "filtered" \in Reasons BY DEF Reasons
    <3> QED BY <3>1, NothingType
  <2>3. cfg' = cfg BY DEF Begin
  <2>4. ~Passes(tx)' BY <1>2, <2>3, SamePasses
  <2>5. Passes(job[c].tx)' = Passes(tx)' BY <2>1 DEF Passes, Followed
  <2> QED BY <2>1, <2>2, <2>4, <2>5 DEF ResFits
<1> QED BY <1>1, <1>2

ResInv == \A c \in Client : ResFits(c)

LEMMA ResStep == ASSUME ShapeInv, AltTypeOK, FaithInv, ResInv, [Next]_vars PROVE ResInv'
<1>1. cfg' = cfg
  BY DEF Next, vars, ParseStep, Peek, Ask, Answer, Decide, ProbeEnds, Begin
<1>2. ASSUME NEW d \in Client PROVE ResFits(d)'
  <2>0. KeysFit(d) /\ ResFits(d) /\ DOMAIN job = Client BY DEF ShapeInv, FaithInv, ResInv
  <2>1. CASE job' = job BY <1>1, <2>0, <2>1, SameRes
  <2>2. ASSUME NEW c \in Client, ParseStep(c) \/ \E tx \in Arrivals[c] : Begin(c, tx)
        PROVE  ResFits(d)'
    <3>1. CASE c = d BY <1>1, <2>0, <2>2, <3>1, ParseRes, BeginRes
    <3>2. CASE c # d
      <4>1. LeftAlone(d) BY <2>0, <2>2, <3>2, OthersKeep
      <4> QED BY <2>0, <4>1, SameRes DEF LeftAlone
    <3> QED BY <3>1, <3>2
  <2> QED BY <2>1, <2>2 DEF Next, vars
<1> QED BY <1>2 DEF ResInv

LEMMA ResInit == Init => ResInv
<1> SUFFICES ASSUME Init, NEW c \in Client PROVE ResFits(c)
  BY DEF ResInv
<1>1. job[c].res = NoSignal BY DEF Init, Idle
<1>2. NoSignal \in Result /\ NoSignal.source # "filtered"
  BY NoSignalType DEF Answers, NoSignal, Nothing
<1> QED BY <1>1, <1>2 DEF ResFits

---------------------------------------------------------------------------
(* Why stage 0 may be so strict.                                            *)

Touched == {"pump", "amm", "global", "event"}

LEMMA NoneFollowed ==
    ASSUME NEW v, Followed(v) = <<>>, NEW shown PROVE Verdict(v, shown) = NoSignal
  BY DEF Verdict, Offline, Late, Else

(* Without a key of Pump.fun in the transaction itself there is no direct   *)
(* buy.                                                                     *)
LEMMA NoDirect ==
    ASSUME NEW v, NEW n, Seen(v, n), \A k \in 1 .. n : v.ixs[k].prog # "pump"
    PROVE  Direct(v) = NoSignal
<1> DEFINE IsBuy(ix) == /\ ix.prog = "pump" /\ ix.method = "buy"
                        /\ Len(ix.all) > 2 /\ ix.all[3] # "unresolved"
           Found(ix) == IF IsBuy(ix)
                        THEN [Signal(v, "curve_direct_buy", ix.all[3], ix.accounts) EXCEPT !.terms = ix.args]
                        ELSE NoSignal
           f == [k \in DOMAIN v.ixs |-> Found(v.ixs[k])]
<1>1. Direct(v) = First(f, NoSignal) BY Bound DEF Direct, FirstFound
<1>2. \A k \in 1 .. n : Found(v.ixs[k]) = NoSignal OBVIOUS
<1> HIDE DEF Found
<1>3. \A k \in DOMAIN f : f[k] = NoSignal BY <1>2 DEF Seen
<1> HIDE DEF f
<1> QED BY <1>1, <1>3 DEF First

LEMMA StageZero ==
    ASSUME NEW c \in Client, NEW tx \in Arrivals[c], ~Passes(tx), cfg \in Settings,
           Touched \cap ToSet(RuntimeKeys(tx)) # {}, Verdicts(tx) # {NoSignal}
    PROVE  ~cfg.strict /\ cfg.leaders \cap ToSet(tx.keys) = {}
<1> DEFINE rk == RuntimeKeys(tx)
           v == View(tx, rk)
<1>1. tx \in Transaction /\ Executable(tx) BY ArrivalAssumption
<1>2. tx.keys \in Seq(STRING) /\ tx.signers \in 1 .. Len(tx.keys) /\ Len(tx.keys) \in Nat
  BY <1>1, LenProperties DEF Transaction, Executable
<1> DEFINE rest == FlattenSeq(WritableLists(tx)) \o FlattenSeq(ReadonlyLists(tx))
<1>3. rk = tx.keys \o rest /\ rest \in Seq(STRING)
  <2>1. FlattenSeq(WritableLists(tx)) \in Seq(STRING) /\ FlattenSeq(ReadonlyLists(tx)) \in Seq(STRING)
    BY ListsType, SoFarAll DEF Behind
  <2>2. rest \in Seq(STRING) BY <2>1, ConcatProperties
  <2> DEFINE k == tx.keys
             w == FlattenSeq(WritableLists(tx))
             r == FlattenSeq(ReadonlyLists(tx))
  <2>3. k \in Seq(STRING) /\ w \in Seq(STRING) /\ r \in Seq(STRING) BY <1>2, <2>1
  <2>4. rk = k \o w \o r BY RuntimeIs
  <2>5. rest = w \o r OBVIOUS
  <2> HIDE DEF w, r, k, rest, rk
  <2>6. (k \o w) \o r = k \o (w \o r) BY <2>3, ConcatAssociative
  <2> QED BY <2>2, <2>4, <2>5, <2>6 DEF k
<1> HIDE DEF rest
<1>4. rk \in Seq(STRING) /\ Len(rk) = Len(tx.keys) + Len(rest) /\ Len(rest) \in Nat
  BY <1>2, <1>3, ConcatProperties, LenProperties
<1>5. Len(tx.keys) <= Len(rk) BY <1>2, <1>4
<1> HIDE DEF rk
<1>6. /\ Seen(v, Len(tx.ixs)) /\ v.keys = rk /\ v.signers = tx.signers
      /\ \A k \in 1 .. Len(tx.ixs) : v.ixs[k].prog \in ToSet(tx.keys)
  BY <1>4, <1>5, ViewSeen
<1>7. PICK shown \in SUBSET MintLike : Verdict(v, shown) # NoSignal
  <2>1. Verdicts(tx) = {Verdict(v, shown) : shown \in SUBSET MintLike} BY DEF Verdicts, rk
  <2>2. {} \in SUBSET MintLike OBVIOUS
  <2> HIDE DEF v
  <2> QED BY <2>1, <2>2
<1> HIDE DEF v
<1>8. Followed(v) # <<>> BY <1>7, NoneFollowed
<1>9. Followed(tx) = <<>>
  <2> SUFFICES ASSUME Followed(tx) # <<>> PROVE FALSE OBVIOUS
  <2>1. Touched \cap ToSet(tx.keys) = {} /\ (~cfg.cpi \/ tx.lookups = <<>>)
    BY DEF Passes, Touched
  <2>2. tx.lookups # <<>>
    <3> SUFFICES ASSUME tx.lookups = <<>> PROVE FALSE OBVIOUS
    <3>1. WritableLists(tx) = <<>> /\ ReadonlyLists(tx) = <<>> BY DEF WritableLists, ReadonlyLists
    <3>2. FlattenSeq(<<>>) = <<>> BY EmptySeq DEF FlattenSeq
    <3>3. rest = <<>> BY <3>1, <3>2, ConcatEmptySeq, EmptySeq DEF rest
    <3>4. rk = tx.keys BY <1>2, <1>3, <3>3, ConcatEmptySeq
    <3> QED BY <2>1, <3>4 DEF rk
  <2>3. ~cfg.cpi BY <2>1, <2>2
  <2>4. \A k \in 1 .. Len(tx.ixs) : v.ixs[k].prog # "pump" BY <1>6, <2>1 DEF Touched
  <2>5. Direct(v) = NoSignal BY <1>6, <2>4, NoDirect
  <2> QED BY <1>7, <2>3, <2>5 DEF Verdict, Offline, Late, Else
<1>10. cfg.leaders # {}
  <2>1. tx.keys # <<>> BY <1>2, EmptySeq
  <2> QED BY <1>9, <2>1 DEF Followed
<1>11. ~cfg.strict
  <2> SUFFICES ASSUME cfg.strict = TRUE PROVE FALSE
    BY SettingAssumption
  <2>1. Followed(tx) = Only(SubSeq(tx.keys, 1, tx.signers), cfg.leaders)
        /\ Followed(v) = Only(SubSeq(rk, 1, tx.signers), cfg.leaders)
    BY <1>6, <1>10 DEF Followed
  <2>2. SubSeq(rk, 1, tx.signers) = SubSeq(tx.keys, 1, tx.signers)
    <3>1. tx.signers \in 0 .. Len(tx.keys) BY <1>2
    <3> QED BY <1>2, <1>3, <3>1, SubSeqOfConcat1
  <2> QED BY <1>8, <1>9, <2>1, <2>2
<1>12. cfg.leaders \cap ToSet(tx.keys) = {}
  <2>1. Only(tx.keys, cfg.leaders) = <<>> BY <1>9, <1>10, <1>11 DEF Followed
  <2>2. \A k \in 1 .. Len(tx.keys) : tx.keys[k] \notin cfg.leaders BY <1>2, <2>1, OnlyFacts
  <2>3. DOMAIN tx.keys = 1 .. Len(tx.keys) BY <1>2, LenProperties
  <2> QED BY <2>2, <2>3 DEF ToSet, Range
<1> QED BY <1>11, <1>12

---------------------------------------------------------------------------
(* The parser's invariant: the shape of jobs and calls, the keys loaded so  *)
(* far, and what results say.                                               *)
IInv == ShapeInv /\ FaithInv /\ ResInv

LEMMA ParserIsInductive ==
    /\ Init => IInv
    /\ AltIInv /\ IInv /\ [Next]_vars => IInv'
<1>1. Init => IInv BY ShapeInit, FaithInit, ResInit DEF IInv
<1>2. AltIInv => AltTypeOK BY DEF AltIInv, AltInv
<1>3. AltIInv /\ IInv /\ [Next]_vars => IInv'
  BY <1>2, ShapeStep, FaithStep, ResStep DEF IInv
<1> QED BY <1>1, <1>3

(* For any transactions, tables and interleaving: what each parse has       *)
(* loaded is a beginning of the runtime's lists, all of them when as long,  *)
(* and a result reached with all of them is one the runtime's keys give.    *)
THEOREM ParserInvariant == SafeSpec => [](AltIInv /\ IInv)
<1>1. Init => IInv BY ParserIsInductive
<1>2. AltIInv /\ IInv /\ [Next]_vars => IInv' BY ParserIsInductive
<1>3. SafeSpec => []AltIInv BY ImplementsResolver, ResolverInvariant, PTL
<1> QED BY <1>1, <1>2, <1>3, PTL DEF SafeSpec

(* The values of the parser have their types.                               *)
THEOREM TypeCorrect == SafeSpec => []TypeOK
<1>1. AltIInv /\ IInv => TypeOK
  <2> SUFFICES ASSUME AltIInv, IInv PROVE TypeOK OBVIOUS
  <2>1. AltTypeOK /\ cfg \in Settings BY DEF AltIInv, AltInv, IInv, ShapeInv
  <2>2. ASSUME NEW c \in Client
        PROVE  /\ JobShape(c) /\ CallFits(c) /\ KeysFit(c) /\ ResFits(c)
    BY DEF IInv, ShapeInv, FaithInv, ResInv
  <2> QED BY <2>1, <2>2 DEF TypeOK, JobShape, CallFits, KeysFit, ResFits
<1> QED BY <1>1, ParserInvariant, PTL

(* However the fetches, expiries and growth of any number of tables         *)
(* interleave with any number of parses, a parse that skipped no index says *)
(* of its transaction what the transaction as executed contains.            *)
THEOREM SignalsAreFaithful == SafeSpec => []SignalFaithful
<1>1. IInv => SignalFaithful
  BY DEF IInv, FaithInv, Faithful, SignalFaithful
<1> QED BY <1>1, ParserInvariant, PTL

(* Whatever the transactions and settings, stage 0 filters out no           *)
(* transaction that touches Pump.fun and holds a signal, but of a leader    *)
(* who is among the keys of tables only, without STRICT_SIGNER.             *)
THEOREM FilterLosesNoSignal == SafeSpec => []StageZeroComplete
<1>1. IInv => StageZeroComplete
  <2> SUFFICES ASSUME IInv, NEW c \in Client, job[c].res.source = "filtered",
                      {"pump", "amm", "global", "event"} \cap ToSet(RuntimeKeys(job[c].tx)) # {},
                      Verdicts(job[c].tx) # {NoSignal}
               PROVE  ~cfg.strict /\ cfg.leaders \cap ToSet(job[c].tx.keys) = {}
    BY DEF StageZeroComplete
  <2>1. ResFits(c) /\ cfg \in Settings BY DEF IInv, ShapeInv, ResInv
  <2>2. job[c].tx \in Arrivals[c] /\ ~Passes(job[c].tx) BY <2>1 DEF ResFits
  <2> QED BY <2>1, <2>2, StageZero DEF Touched
<1> QED BY <1>1, ParserInvariant, PTL
=============================================================================
