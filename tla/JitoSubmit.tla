----------------------------- MODULE JitoSubmit -----------------------------
(***************************************************************************)
(* One execution at a time of bundle_pumpbuy in Executor::on_signal, from  *)
(* the exec_gate to its verdict: pacing, building, choosing block engines, *)
(* the failover loop with its base64 retry and cooldowns, the              *)
(* sendTransaction fallback.  (Dispatch shows that executions do not       *)
(* overlap.)                                                               *)
(*                                                                         *)
(* Time advances in ticks.  An Instant of the code is kept as its distance *)
(* from now: since and quiet look back and saturate, cool looks ahead.     *)
(*                                                                         *)
(* An operator X_Mut before X is X with a plausible bug; it is used only   *)
(* to show that a property notices the bug.                                *)
(***************************************************************************)
EXTENDS Integers, Sequences, Sublist, SequencesExt

CONSTANTS Mint, NoMint,
          N,            \* number of block-engine clients
          TicksPerMs,   \* resolution of an Instant within a millisecond
          Configs,
          RetryHints,   \* what "Retry after <ms>" may say, in ms
          CooldownFloor,\* the code's 1000 ms, in ms of the model
          MaxAge        \* bound: since and quiet saturate here (ticks)

Endpoint == 0 .. N - 1

(* minIv, cooldown in ms, failover a count: settings of the program.        *)
ConfigType == [minIv : Nat, cooldown : Nat, failover : Nat,
               fallback : BOOLEAN, oneshot : BOOLEAN]

ASSUME NamesAssumption == NoMint \notin Mint
ASSUME SizesAssumption == N \in Nat \ {0} /\ TicksPerMs \in Nat \ {0}
ASSUME TimesAssumption == RetryHints \subseteq Nat /\ CooldownFloor \in Nat
ASSUME ConfigsAssumption ==
    /\ Configs \subseteq ConfigType
    /\ MaxAge \in Nat \ {0}
    /\ \A c \in Configs : c.minIv * TicksPerMs < MaxAge

VARIABLES cfg,      \* chosen at start, then constant
          pc,       \* where the execution stands
          job,      \* the mint being bought
          sales,    \* history: submissions accepted in this execution and heard of
          unheard,  \* history: one may have been accepted whose reply was lost
          since,    \* ticks since the Instant in last_jito_submit
          quiet,    \* history: ticks since a throttled submission last began
          cool,     \* per endpoint: ticks until its cooldown is over
          rr,       \* jito_rr modulo N
          start,    \* start_idx
          chosen,   \* endpoints to try, in order
          pos,      \* position in chosen
          sawRL,    \* saw_rate_limit
          replies   \* history: what the endpoints tried so far answered

visit == <<job, sales, unheard>>
timers == <<since, quiet, cool>>
plan == <<rr, start, chosen>>
vars == <<cfg, pc, visit, timers, plan, pos, sawRL, replies>>

PCs == {"idle", "pace", "build", "throttle", "base58", "base64",
        "throttleTx", "sendtx", "settle", "exited"}

(* What an endpoint answered in the end: to the base58 bundle, or to the    *)
(* base64 one if the first could not be decoded.                            *)
Answers == {"limited", "error", "limited64", "error64"}

TypeOK ==
    /\ cfg \in Configs
    /\ pc \in PCs
    /\ job \in Mint \cup {NoMint} /\ (job = NoMint <=> pc = "idle")
    /\ sales \in 0 .. 1 /\ unheard \in BOOLEAN
    /\ since \in 0 .. MaxAge /\ quiet \in 0 .. MaxAge
    /\ cool \in [Endpoint -> Nat]
    /\ rr \in Endpoint /\ start \in Endpoint
    /\ chosen \in Seq(Endpoint)
    /\ pos \in 0 .. Len(chosen)
    /\ sawRL \in BOOLEAN
    /\ replies \in Seq(Answers) /\ Len(replies) <= Len(chosen)

AtLeast(a, b) == IF a >= b THEN a ELSE b
AtMost(a, b) == IF a <= b THEN a ELSE b

(* Executor::new puts last_jito_submit one interval into the past.          *)
Init ==
    /\ cfg \in Configs
    /\ pc = "idle" /\ job = NoMint /\ sales = 0 /\ unheard = FALSE
    /\ since = cfg.minIv * TicksPerMs
    /\ quiet = MaxAge
    /\ cool = [e \in Endpoint |-> 0]
    /\ rr = 0 /\ start = 0 /\ chosen = <<>>
    /\ pos = 0 /\ sawRL = FALSE /\ replies = <<>>

Tick ==
    /\ pc # "exited"
    /\ since' = AtMost(since + 1, MaxAge)
    /\ quiet' = AtMost(quiet + 1, MaxAge)
    /\ cool' = [e \in Endpoint |-> AtLeast(cool[e] - 1, 0)]
    /\ UNCHANGED <<cfg, pc, visit, plan, pos, sawRL, replies>>

---------------------------------------------------------------------------
(* Before the failover loop.                                                *)

Begin(m) ==
    /\ pc = "idle"
    /\ pc' = "pace" /\ job' = m
    /\ UNCHANGED <<cfg, sales, unheard, timers, plan, pos, sawRL, replies>>

(* The pacing before the build sleeps for exactly what is missing.          *)
Pace ==
    /\ pc = "pace" /\ since >= cfg.minIv * TicksPerMs
    /\ since' = 0
    /\ pc' = "build"
    /\ UNCHANGED <<cfg, visit, quiet, cool, plan, pos, sawRL, replies>>

(* The execution returns Err.                                               *)
GiveUp ==
    /\ pc' = "idle" /\ job' = NoMint /\ sales' = 0 /\ unheard' = FALSE
    /\ UNCHANGED <<cfg, since, quiet, plan, pos>>

BuildFails ==
    /\ pc = "build"
    /\ GiveUp
    /\ UNCHANGED <<cool, sawRL, replies>>

(* Rotation from s: every endpoint once, starting with s.                   *)
Order(s) == [i \in 1 .. N |-> (s + i - 1) % N]

Cap == 1 + AtMost(cfg.failover, N - 1)

(* A pass over the order that takes the endpoints of a set while they fit. *)
Take(s, taken, wanted) ==
    FoldLeft(LAMBDA acc, i : IF Len(acc) < Cap /\ i \in wanted THEN Append(acc, i) ELSE acc,
             taken, Order(s))

(* Endpoints that are not cooling first, start_idx if there is none, then   *)
(* whatever room is left is filled with the others.                         *)
Choose_Mut(s) ==
    LET first == Take(s, <<>>, {i \in Endpoint : cool[i] = 0})
        seeded == IF first = <<>> THEN <<s>> ELSE first
    IN  Take(s, seeded, Endpoint)
Choose(s) ==
    LET first == Take(s, <<>>, {i \in Endpoint : cool[i] = 0})
        seeded == IF first = <<>> THEN <<s>> ELSE first
    IN  Take(s, seeded, Endpoint \ ToSet(seeded))

BuildSucceeds ==
    /\ pc = "build"
    /\ rr' = (rr + 1) % N
    /\ start' = rr
    /\ chosen' = Choose(rr)
    /\ pos' = 1 /\ sawRL' = FALSE /\ replies' = <<>>
    /\ pc' = "throttle"
    /\ UNCHANGED <<cfg, visit, timers>>

---------------------------------------------------------------------------
(* throttle_jito.  The wait is truncated to whole milliseconds, and a wait  *)
(* of zero lets the submission go.                                          *)

WaitMs ==
    LET next == AtLeast(cfg.minIv, 1) * TicksPerMs
    IN  IF since >= next THEN 0 ELSE (next - since) \div TicksPerMs

Throttle_Mut(from, to) ==
    /\ pc = from /\ WaitMs = 0
    /\ quiet' = 0
    /\ pc' = to
    /\ UNCHANGED <<cfg, visit, since, cool, plan, pos, sawRL, replies>>
(* The Instant is replaced even when the caller has to wait.                *)
Throttle_Mut2(from, to) ==
    /\ pc = from
    /\ since' = 0
    /\ IF WaitMs = 0 THEN pc' = to /\ quiet' = 0 ELSE UNCHANGED <<pc, quiet>>
    /\ UNCHANGED <<cfg, visit, cool, plan, pos, sawRL, replies>>
Throttle(from, to) ==
    /\ pc = from /\ WaitMs = 0
    /\ since' = 0 /\ quiet' = 0
    /\ pc' = to
    /\ UNCHANGED <<cfg, visit, cool, plan, pos, sawRL, replies>>

ThrottleBundle == Throttle("throttle", "base58")
ThrottleTx == Throttle("throttleTx", "sendtx")

---------------------------------------------------------------------------
(* The failover loop.                                                       *)

Current == chosen[pos]

(* This endpoint is finished with: the next one, or the fallback, or Err.   *)
(* limited says whether a rate limit has been seen by now, doubt whether a  *)
(* reply may have been lost.  What goes out again is the same signed        *)
(* bundle, so more engines than one may accept it.                          *)
Again(station, doubt) ==
    pc' = station /\ unheard' = doubt /\ UNCHANGED <<cfg, job, sales, since, quiet, plan>>

Advance_Mut(limited, doubt) ==
    IF pos < Len(chosen) /\ ~limited
    THEN Again("throttle", doubt) /\ pos' = pos + 1
    ELSE IF cfg.fallback /\ limited
    THEN Again("throttleTx", doubt) /\ UNCHANGED pos
    ELSE GiveUp
Advance(limited, doubt) ==
    IF pos < Len(chosen)
    THEN Again("throttle", doubt) /\ pos' = pos + 1
    ELSE IF cfg.fallback /\ limited
    THEN Again("throttleTx", doubt) /\ UNCHANGED pos
    ELSE GiveUp

(* A base58 bundle is accepted, or the base64 one, or the single tx.        *)
Accepted_Mut ==
    /\ pc \in {"base58", "base64", "sendtx"}
    /\ sales' = sales + 1
    /\ pc' = IF pc = "base64" /\ sales = 0 THEN "throttle" ELSE "settle"
    /\ UNCHANGED <<cfg, job, unheard, timers, plan, pos, sawRL, replies>>
Accepted ==
    /\ pc \in {"base58", "base64", "sendtx"}
    /\ sales' = sales + 1
    /\ pc' = "settle"
    /\ UNCHANGED <<cfg, job, unheard, timers, plan, pos, sawRL, replies>>

(* "could not be decoded": the same bundle goes out at once in base64.      *)
Undecodable ==
    /\ pc = "base58"
    /\ pc' = "base64"
    /\ UNCHANGED <<cfg, visit, timers, plan, pos, sawRL, replies>>

(* Whatever the base64 attempt answers, only its text is kept: a rate limit *)
(* is not told from another error.                                          *)
Base64Fails(answer) ==
    /\ pc = "base64"
    /\ replies' = Append(replies, answer)
    /\ \E doubt \in {unheard, answer = "error64" \/ unheard} : Advance(sawRL, doubt)
    /\ UNCHANGED <<cool, sawRL>>

CooldownMs == AtLeast(cfg.cooldown, CooldownFloor)

(* Rate limited or congested: cool the endpoint down, for as long as it     *)
(* asked if it did.                                                         *)
RateLimited(ms) ==
    /\ pc = "base58"
    /\ cool' = [cool EXCEPT ![Current] = ms * TicksPerMs]
    /\ sawRL' = TRUE
    /\ replies' = Append(replies, "limited")
    /\ Advance(TRUE, unheard)

(* Any other error, among them a connection that broke after the engine had *)
(* accepted the bundle.                                                     *)
OtherError ==
    /\ pc = "base58"
    /\ replies' = Append(replies, "error")
    /\ \E doubt \in {unheard, TRUE} : Advance(sawRL, doubt)
    /\ UNCHANGED <<cool, sawRL>>

SendTxFails ==
    /\ pc = "sendtx"
    /\ GiveUp
    /\ UNCHANGED <<cool, sawRL, replies>>

(* After the sleep that follows a success: exit, or return Ok.              *)
Settle_Mut ==
    /\ pc = "settle"
    /\ IF cfg.oneshot THEN pc' = "idle" /\ UNCHANGED visit
                      ELSE pc' = "idle" /\ job' = NoMint /\ sales' = 0 /\ unheard' = FALSE
    /\ UNCHANGED <<cfg, timers, plan, pos, sawRL, replies>>
Settle ==
    /\ pc = "settle"
    /\ IF cfg.oneshot THEN pc' = "exited" /\ UNCHANGED visit
                      ELSE pc' = "idle" /\ job' = NoMint /\ sales' = 0 /\ unheard' = FALSE
    /\ UNCHANGED <<cfg, timers, plan, pos, sawRL, replies>>

Exited == pc = "exited" /\ UNCHANGED vars

---------------------------------------------------------------------------
Reply ==
    \/ Accepted
    \/ Undecodable
    \/ \E answer \in {"limited64", "error64"} : Base64Fails(answer)
    \/ \E ms \in RetryHints \cup {CooldownMs} : RateLimited(ms)
    \/ OtherError
    \/ SendTxFails

LocalStep == Pace \/ ThrottleBundle \/ ThrottleTx \/ Settle

Next ==
    \/ Tick
    \/ \E m \in Mint : Begin(m)
    \/ LocalStep
    \/ BuildFails \/ BuildSucceeds
    \/ Reply
    \/ Exited

(* Clocks run and sleeps end.  The build reads accounts over RPC and the    *)
(* engines answer over HTTP without a timeout: neither is fair.             *)
Fairness == WF_vars(Tick) /\ WF_vars(LocalStep)

SafeSpec == Init /\ [][Next]_vars
Spec == SafeSpec /\ Fairness

---------------------------------------------------------------------------
(* Properties.                                                              *)

MinTicks == AtLeast(cfg.minIv, 1) * TicksPerMs

(* "Throttle globally": two submissions that pass throttle_jito begin more  *)
(* than the minimum interval less one millisecond apart, across endpoints   *)
(* and executions; the millisecond is what as_millis truncates.             *)
ThrottledSpacing ==
    [][(ThrottleBundle \/ ThrottleTx) => quiet > MinTicks - TicksPerMs]_vars

(* The endpoints tried are a rotation's free ones in order, then its        *)
(* cooling ones in order, as many as the failover setting allows.           *)
Preferred(s) ==
    LET free == {i \in Endpoint : cool[i] = 0}
    IN  SubSeq(Only(Order(s), free) \o Only(Order(s), Endpoint \ free), 1, Cap)
ChosenByPreference == [][BuildSucceeds => chosen' = Preferred(rr)]_vars

(* Err is reported, once the bundle is built, only after every chosen       *)
(* endpoint has answered with an error, and if one of them answered the     *)
(* base58 bundle with a rate limit, only once sendTransaction, if enabled,  *)
(* has failed too.                                                          *)
GivesUpOnlyAfterAll ==
    [][(pc' = "idle" /\ pc \notin {"idle", "build", "settle"}) =>
            /\ Len(replies') = Len(chosen)
            /\ cfg.fallback /\ (\E i \in DOMAIN replies' : replies'[i] = "limited")
                 => pc = "sendtx"]_vars

(* sendTransaction is the last resort: it is tried only after at least one  *)
(* endpoint answered the base58 bundle with a rate limit, and not before    *)
(* every chosen endpoint has answered.                                      *)
FallbackIsLast ==
    pc \in {"throttleTx", "sendtx"} =>
        /\ \E i \in DOMAIN replies : replies[i] = "limited"
        /\ Len(replies) = Len(chosen)

(* Waiting for the interval always ends.                                    *)
ThrottleEnds ==
    pc \in {"pace", "throttle", "throttleTx"}
        ~> pc \in {"build", "base58", "sendtx"}

(* The execution is a visit to the buy desk: once an engine has confirmed a *)
(* sale nothing is submitted again; before that a reply may have been lost, *)
(* which leaves the client in doubt.                                        *)
deskPhase == CASE pc = "idle" -> "free"
               [] pc = "exited" -> "shut"
               [] pc \notin {"idle", "exited"} /\ sales = 0 -> IF unheard THEN "doubt" ELSE "open"
               [] pc \notin {"idle", "exited"} /\ sales = 1 -> "sold"
               [] OTHER -> "oversold"

Desk == INSTANCE BuyDesk WITH Client <- Mint, NoClient <- NoMint,
                              client <- job, phase <- deskPhase
DeskSafe == Desk!SafeSpec
DeskSpec == Desk!Spec

(* config.rs:195 "If all bundle endpoints are rate-limited, fall back to    *)
(* sendTransaction (single tx) instead of skipping.": once the endpoints    *)
(* have answered, sendTransaction is tried if all of them were rate-limited *)
(* and the fallback is enabled, and only if all of them were.               *)
AllLimited == \A i \in DOMAIN replies : replies[i] \in {"limited", "limited64"}
FallbackWhenAllLimited ==
    [][ /\ (pc # "throttleTx" /\ pc' = "throttleTx") => AllLimited'
        /\ (pc \in {"base58", "base64"} /\ pc' = "idle" /\ cfg.fallback) => ~AllLimited' ]_vars
=============================================================================
