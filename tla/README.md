# TLA+ verification of jito-shredstream-pump-bot

The bot reads pre-confirmation transactions from one or more shredstream
proxies, recognises Pump.fun / PumpSwap buys of the wallets it follows, and
submits a buy of its own through Jito block engines. This directory holds the
TLA+ specifications of its concurrent core, the TLC configurations that check
them, and TLAPS proofs of the main results for arbitrary parameters.

Run `tlc -config <run>.cfg <module>` for a run of PROJECT.json and `tlapm
<module>.tla` for a module of proofs.

## Inventory of the system

| component | source | state | operations | hard behaviour |
|---|---|---|---|---|
| signal consumer | `src/main.rs` | channel of signals, `mint_done` and `mint_inflight` TTL caches, permits | receive, two cache lookups, wait for a permit, spawn; record or warn at the end | cache lookups before a wait; recording after the gate is free |
| dispatch | `executor/dispatcher.rs` `on_signal` | `sem`, `exec_gate` | four modes; skip when busy; exit after a success with `ONESHOT` | tasks on many threads, engines that never answer |
| bundle submission | `executor/dispatcher.rs`, `jito.rs` | `last_jito_submit`, `jito_rr`, endpoint cooldowns | pace, build, choose endpoints, throttle, send, base64 retry, cool down, fall back | error classes, time, retries |
| start-up | `main.rs`, `Executor::new`, `config.rs` | client list, tip account | check inputs, build clients, fetch tip account, WSOL bootstrap, check proxies | defaults that produce empty lists, checks after something was sent |
| monitor | `monitor/shredstream_proxy.rs` `run_monitor` | stream, reader task, batch queue, `sig_dedup`, backoff | connect, subscribe, read, parse, offer, reconnect | reader and parser run concurrently, bounded queues |
| signal parser | same file, stage 0 and `parse_buy_signal_from_tx` | none | filters, account resolution, six ways to a signal | stale and growing lookup tables, keys that shift, a filter that sees less than the parse |
| ALT resolver | `alt_resolver.rs` | table cache, semaphore | single-flight fetch, cached read, batch read | stale tables, shared failures |
| blockhash cache | `blockhash_cache.rs` | latest hash | refresh loop, get or fetch | several writers of one slot, slow replies, backoff |
| WSOL bank | `wsol_bank.rs` | targets; the wallet's WSOL outlives the process | top up or wrap once at start-up | failed reads, restarts, unconfirmed wraps, lost replies |
| trade builder | `executor/pumpbuy.rs`, `pumpswap.rs` | none | route choice, quote, transaction | accounts read one after the other while the token migrates, fallback by error text, accounts used by position, narrowing arithmetic |
| the rest | `demo.rs`, `rpc_submit.rs`, `keypair.rs`, `types.rs`, proto | none | conversions, one request each | |

Interactions: every monitor offers signals to one channel with `try_send`; the
consumer loop takes them and spawns a task per signal, which calls `on_signal`;
`on_signal` builds with the builder (RPC, blockhash cache) and submits through
`JitoRpcClient`; its result decides whether the mint is recorded. Monitors use
the shared ALT resolver.

What makes the parts correct: one execution at a time; no waiting inside the
executor; a mint is not bought again while it counts as done, or at least not
without bound, and counts as done only if it was bought; the submission rate
stays under the engines' limit; endpoints are tried in the promised order and
all of them before an error; a monitor never blocks its stream, always
reconnects, and offers a transaction once; a transaction is built for where the
token is, with the right accounts and amounts; a signal says what its
transaction contains, and no transaction is filtered out that would give one;
requests at the RPC node are bounded and parses end; a blockhash that is handed
out is recent, and recent again after the RPC node was away; restarts do not
wrap more than they must, and bundle mode has what it needs when it begins.

## Modules

`BuyDesk` is the abstract contract of buying: one client is served at a time, a
sale is confirmed at most once per visit and nothing is tried after that, the
desk shuts only right after a confirmed sale, and a confirmed sale always ends
the visit. It does not promise a single sale per visit: a submission may be
accepted without the desk hearing of it (phase `doubt`), and the desk may then
sell again. Two modules implement it, each seen from another side.

`Dispatch` is the consumer loop and `on_signal` at the level of semaphores.
`chan`, `inflight` and `done` are the channel and the two caches, `loop` and
`held` the position and the signal of the loop, `stage` and `mint` the spawned
tasks (one slot per permit of the main semaphore, so the slots *are* the
permits), `gate` the holder of `exec_gate`, `execPermits` the executor's own
semaphore. `sent` and `lost` are history variables: submissions accepted since
the mint last expired from `mint_done`, and those of them whose reply was lost.
The settings are a variable `cfg` chosen at the start, so that one run covers
every mode. `cfg.lossy` allows a submission to be accepted without a reply; a
bundle is then offered to the next endpoint (stage `doubt`). Cache expiry is a
step of its own and may happen at any time, except that with `cfg.covers` an
in-flight entry outlives the handling of the signal that made it. It is not kept
for a later signal that the loop holds between its two lookups. `covers` is a
premise about timing that few settings meet: the entry lives for
`max(dedup_sig_ttl_ms, 200)` ms (`main.rs:78`), and after a success the task
sleeps `dedup_sig_ttl_ms` (`dispatcher.rs:333`), so it can hold beyond a success
only if `dedup_sig_ttl_ms` is below 200 and the wait for a permit, the build and
the submission fit in what is left. With any other setting, the defaults
included, `BoundedRebuy` is all that holds; `AtMostTwoBuys` shows what the
in-flight cache is worth when it does last. The two cache lookups of the loop
are separate steps, since tasks and expiry run between them; `get` and `insert`
of `mint_inflight` are one step, since only the loop writes that cache.

`JitoSubmit` is one execution of `bundle_pumpbuy` after the other, with time. An
`Instant` is stored as its distance from now (`since`, `quiet` backwards and
saturating, `cool` forwards), and a millisecond has `TicksPerMs` ticks so that
the truncation in `throttle_jito` is visible. A reply is a nondeterministic
choice between the classes the code tells apart: accepted, not decodable, rate
limited (with or without a retry hint), anything else. The endpoint choice is
the code's two passes, written as folds. `throttle_jito` samples the clock and
stamps in one step: the mutex is never contended because its users hold the
gate. The distance between submissions is measured from the moment one passes
the throttle; how long a request takes on the wire is not part of it. The
history `sales` counts the submissions whose acceptance was heard of, `unheard`
says that one may have been accepted whose reply was lost: any error that is not
an answer of the engine can be that. The loop then goes on with the next
endpoint. What it submits again is the same signed transactions, which the chain
takes once; still more than one engine may have accepted them, and the desk is
in doubt.

`Monitor` is `run_monitor`: the connection with its backoff, the reader with the
message it holds, the bounded queue, the parser with the transactions of the
current batch (any of the first `Parallel` may finish next), `sig_dedup` and the
channel to the consumer. Whether parsing a transaction yields a signal is left
open. `offered` is a history variable.

`AltResolver` is the cache of lookup tables. A table only grows, so the list of
its addresses is known by its length: `visible` is what the RPC node shows,
`cache` what is cached, `flight` the one fetch of a table that all who miss it
wait for, `free` the permits that fetches and batch reads share, `spawned` the
prefetch tasks on their way, `call` what each caller waits for. Expiry, eviction
and an insertion the cache does not keep are one step, `Expire`.

`SignalParser` is stage 0 and `parse_buy_signal_from_tx`, on top of
`AltResolver`: its actions take resolver actions along, and it implements
`AltSpec`. A transaction is a record of keys, lookups and instructions whose
accounts are positions; an account is a name. `job` holds for each parse slot
the transaction, the next lookup and the addresses loaded so far. Between two
lookups, and while the batch read is under way, everything else may move. The
cascade itself runs without a wait, so it is evaluated in one step: `View` is
the transaction as far as its keys are resolved, and `Direct`, `Cpi`, `Amm`,
`Pda`, `Probe` and `Mirror` are the six ways to a signal in the code's order
(`Offline` and `Late` are the parts before and after the request). The data of
an instruction is a method with arguments; "the mint's name ends with pump",
"this account is a mint" and the derived addresses of a curve are constants. The
results `filtered`, `missed` and `error` tell why there is no signal; the code
drops all three alike.

`Startup` is `main` up to the monitors, `Executor::new` and the WSOL bank,
started up to `MaxStarts` times: a start may end by an error or a crash at any
point. `wsol` and `wrap` are the ledger: the final balance and the wrap each
start sent, which lands or lapses at any time. A wrap may be accepted and its
reply lost, which ends the start. `initial` and `blind` are histories: the first
balance, and the number of wraps made without knowing the balance (the read
failed, an earlier wrap was not final, or a fixed reserve is wrapped, which does
not look). Settings keep what decides a start; `urls` is the list *after*
splitting, so an unset variable is one blank entry.

`TradeBuilder` is `build_trade_bundle_txs` with everything it calls, for one
build after the other. `chain` is the token as the RPC node shows it (not
visible, on its curve, curve complete, pool created); it moves on at any time,
also between two reads of one build. `pc` is the next request, `sig` the signal,
`quote` the reserves read, `tx` the result: a route, the accounts by role, the
least amount of tokens and the most SOL. Every request may fail, which includes
an account that does not parse. A failed read of the pool account, or of a vault
when the error text says `AccountNotFound`, leads to the curve; every other
failure ends the build. The three copying routes make no request. Amounts keep
their width: `Word` stands for 2^64, multiplication saturates at `Word * Word`,
a cast keeps the low part. `before`, `poolRead` and `reads` are history
variables. Addresses are roles, so what is checked of an instruction is which
account stands in which slot. A signal has the accounts it carries and, for
comparison only, `full`, the accounts the leader wrote: the parser leaves out
those it could not resolve, a stale table may make it name others, and a leader
may write more than the program's sixteen or in any order, since shreds come
before execution. Nothing is assumed of the two. `terms` is what the fields
`leader_in` and `leader_min_out` hold. Only instructions with the discriminator
of `global:buy` get them (`pumpfun.rs:9`), and its arguments are an amount of
tokens and the most SOL to pay, not the amounts the fields are named for. At
most `MaxReads` = 9 accounts are asked for in one build: mint, curve, global
config, pool and both vaults, then, on the detour back to the curve, mint, curve
and global.

`BlockhashCache` is the refresher and any number of `get_or_fetch` callers. A
hash is known by its age; time moves in ticks, and no request takes longer than
`Latency`, the timeout of the Solana RPC client. The node takes the hash at some
moment between request and answer, so an answer may be old when it is written
and may replace a newer one. `fails` is a history variable.

`Sublist` holds the one helper the community modules have only in a form the
prover cannot follow: `Only(s, T)`, the members of `s` that are in `T`, in their
order, as a recursive function. The parser, the builder and the statement about
the choice of endpoints use it.

`MCDispatch`, `MCJitoSubmit`, `MCMonitor`, `MCTradeBuilder`, `MCSignalParser`
and `MCStartup` hold the values TLC needs (`BlockhashCache` needs none); the
modules named `...Proofs` hold the proofs. Operators named `X_Mut` are `X` with
a plausible bug: replacing `X` by one of them must break the property
PROJECT.json pairs it with, which shows that the property depends on that line
of the code.

## Runs

* `dispatch` (safety, symmetric in mints and permits; about 850,000 states): two
  mints, two permits, a channel of one, seven settings covering all modes,
  `ONESHOT`, no client, lost replies and both timing assumptions. `MaxSent` is
  two more than the bound of `BoundedRebuy` without lost replies, so that
  breaking it would be seen with none and with one. Two permits are the least
  with which tasks overlap; with the waiting signal that is three carriers of
  one mint, enough to reach the bound of three purchases.
* `dispatch_live` (about 280,000 states): under fairness, the settings in which
  the gate may be kept (demo with lost replies, bundles with and without
  `ONESHOT`), each without `covers`, which would only take steps away. The
  histories saturate at one.
* `jito_submit` (about 125,000 states): three endpoints (so that "free",
  "cooling" and "left over" all occur in one choice), two ticks per millisecond,
  intervals of 0 and 2 ms, a failover of 0, 1 and more than there are endpoints,
  every class of reply at every attempt, each error also as an acceptance whose
  reply was lost.
* `monitor`: one region with a queue of two and two parses in flight, batches
  that repeat signatures within and across messages, a channel of one that may
  be full, and a second region whose URL is unusable.
* `trade_builder` (about 30,000 states): direct copies of a whole instruction,
  of one with a seventeenth account, of either with an account lost at the ends
  or around the replaced slots, of one in another order and of one that a stale
  table changed; terms that round, overflow the narrowed width, are zero and are
  missing; signals of the other kinds that builds (the three that carry no
  accounts are treated alike by the code and share one); a four-bit `u64`,
  amounts and reserves at both its ends, slippage up to more than everything.
* `blockhash_cache`: refreshing off, at the floor, and slower than the longest
  backoff; two callers; a history of failures up to two, with ages saturating
  above the largest bound that is claimed.
* `signal_parser`: two parse slots, so that parses share a fetch and compete for
  the one permit; nine transactions, one per way to a signal and others that
  look like buys (a sell with an ATA creation, a wrap that is too small, a
  stranger's buy); accounts spread over static keys and two tables, writable and
  readonly in both, so that every order of appending gives other keys; one table
  grows by an address, which is enough for an index to be skipped or not
  depending on the moment; lookups resolved by fetching, only from the cache,
  and not at all; leaders that must sign, that need not, and none. The number of
  prefetch tasks saturates at one: more of them meet the same cache entry or
  fetch.
* `startup`: every mode with every kind of client list (unset, one, one after a
  blank) and tip account; banks with a reserve, top-ups, a target at and below
  the minimum, and none; wallets without and with WSOL; three starts, so that
  two wraps may be open when a third is made. The run may stop: a bot that was
  not started again stays down.

Four runs look for the violation of something the repository says:

* `done_without_buy`: `main.rs:69` and `run.sh:34` say that a mint is recorded
  only after a successful execution. A signal that finds the gate busy returns
  `Ok`, and its mint is recorded with nothing bought.
* `rebuy`: `.env.example:37` says the mint dedup avoids rebuys. With one permit
  the loop waits with a signal whose lookups lie behind it; by the time the
  permit is free the mint has been bought and recorded, and is bought again. The
  in-flight entry does not prevent it: its TTL is `dedup_sig_ttl_ms`, the length
  of the sleep after a success, which alone outlasts it. With more permits the
  same happens between releasing the gate and recording the mint.
* `partial_rate_limit`: `config.rs:195` says that sendTransaction is the
  fallback if all endpoints are rate-limited. `saw_rate_limit` is set by one:
  after a rate limit of the first endpoint and another error of the second,
  sendTransaction is tried. `FallbackIsLast` and `GivesUpOnlyAfterAll` say what
  the code does instead. The other half of the sentence fails as well: the
  answer to a base64 retry is not classified (`dispatcher.rs:369`), so when
  every endpoint is rate-limited there, the execution ends with an error and the
  fallback untried.
* `leader_price`: `pumpbuy.rs:54` says that the limit of a copied buy is the
  leader's less the slippage. Of a `global:buy` of twelve tokens for at most
  three units of SOL, the copy for three units of SOL asks for one token instead
  of nine: the code scales by tokens where it should by SOL. The limit is what
  `LimitScaled` says, an exact scaling of the wrong way round.

Two more disagreements have no run. The base64 retry (`dispatcher.rs:347`) does
not pass `throttle_jito`, although `config.rs:183` speaks of the minimum
interval between submissions; `ThrottledSpacing` is about those that do pass it.
And `.env.example:35` describes the signature dedup as one for duplicates across
regions, while every monitor has a cache of its own
(`shredstream_proxy.rs:129`), so two regions may offer one signature each;
`OfferedOnce` is stated per region.

Fairness. `Dispatch` assumes it of the loop and of the tasks' own steps (Tokio
runs what can run), never of a reply: the HTTP client has no timeout, so an
engine may keep the gate for ever, and `ConsumerNeverStuck` holds nevertheless
with two permits. `JitoSubmit` assumes that the clock runs and that the
program's own steps happen, not that builds or engines answer. `Monitor` assumes
it of the reader and of the parser loop; `Reconnects` has the termination of
parses as its explicit premise because they wait for RPC. `TradeBuilder` and
`BlockhashCache` talk to Solana's `RpcClient`, which, unlike the HTTP client of
`jito.rs`, has a timeout of its own: every request ends. `Recovers` has the end
of failures as its explicit premise. `SignalParser` assumes the same of its
requests, that tasks run, and that whoever waits for a permit gets it when
permits keep coming free (strong fairness: Tokio's semaphore serves in order of
arrival). `Startup` states no liveness.

Where a property is conditional, the condition says what the code does not
promise. `AtMostTwoBuys` has the premise `covers` explained above.
`CurveBuyJustified` names the three reasons a curve buy has, and only with the
first, a curve that was read before it was complete, can the buy succeed: with a
completed curve and no pool yet the code falls back to the curve
(`pumpbuy.rs:703`), and it recognises "no pool yet" by the text of the error
(`pumpbuy.rs:705`), which any failed request of the pool account carries, so a
timeout for a migrated token ends in a buy from its completed curve too.
`SlotsFaithful` is about copies whose accounts are the beginning of what the
leader wrote, or what could be resolved of at most sixteen: of more than
sixteen, losses move the rest up into a list that is still long enough, and a
stale table names other accounts; the run contains both. `GivesUpOnlyAfterAll`
and `FallbackIsLast` mean a rate limit of a base58 bundle, the only one the code
tells from other errors. `AgeBounded` is about a refresher that is on: with
`BLOCKHASH_REFRESH_MS=0` the first hash fetched is used for ever.
`SignalFaithful` is about parses that skipped no index: the code leaves out
indexes beyond the cached list, which moves later keys up, and the model does
reach a signal with another account as its mint that way. It compares with the
verdict of the same cascade over the keys as the runtime orders them, so it is
about resolution, not about whether the heuristics recognise buys.
`StageZeroComplete` excepts a leader that is only in a table while
`STRICT_SIGNER` is off: stage 0 sees static keys, and the signal is lost
although `.env.example:13` says the leader "can appear anywhere in accounts".
`ExposureBounded` allows one target (or reserve) for each wrap in `blind`: a
top-up after a successful read with nothing under way adds none. `BundleReady`
does not promise a client: with a tip account of the operator's and
`JITO_BLOCK_ENGINE_URLS` unset there is none (`dispatcher.rs:51`), and
`Dispatch` shows what happens then.

## Proofs

For any number of mints, permits, endpoints, regions, any capacities and any set
of settings (the assumptions are the named `ASSUME`s of the modules: distinct
names, a finite non-empty set of permits, positive bounds, well-typed settings):

* `DispatchProofs`. `Basic` is the type invariant without the upper bound of
  `execPermits`; `PermitInv` says that free permits and tasks inside `on_signal`
  add up, from which the bound and `NoWaitInsideExecutor` follow by counting.
  `OneshotInv`: whoever was accepted still holds the gate. `CoverInv` is needed
  for `AtMostTwoBuys`: a mint has at most one carrier past both lookups, whose
  entry is in flight; what was accepted is recorded or about to be by its
  carrier, unless the loop was caught between its lookups, which it can be once
  (`CaughtAlone`, `NoThird`). `RebuyInv` counts: accepted plus pending signals
  of a mint never exceed the permits plus one and the lost replies, because new
  signals pass the lookup only while the accepted ones still occupy their
  permits. `ImplementsDesk` maps each step to a step of `BuyDesk`.
* `JitoSubmitProofs`. The spacing follows from `since <= quiet`: the stamp is at
  least as recent as the last throttled submission, although pacing also moves
  it; and a truncated wait of zero means less than a millisecond. `LoopInv` says
  that inside the failover loop every endpoint before the current one has
  answered and that `saw_rate_limit` tells whether one rate-limited the base58
  bundle; `FallbackIsLast` and `GivesUpOnlyAfterAll` follow. `TypeCorrect` needs
  that `Choose`, two folds over the rotation and a fallback, always yields a
  non-empty sequence of endpoints. `EndpointsByPreference` says which one:
  `TakeWalks` describes what a pass has collected after each endpoint of the
  rotation, the two passes together are the free and the cooling endpoints in
  order, and cutting the list while it is built is the same as cutting the
  result (`FitsAppend`, `FitsConcat`). `ImplementsDesk` maps every step to a
  step of `BuyDesk`: `PcInv` ties `sales` and `unheard` to the program counter,
  `Stands` says which phase of the desk each of its values is.
* `MonitorProofs`. A reader exists exactly in the parser loop and only a reading
  reader holds a message; everything offered within its window is in
  `sig_dedup`. The types need that a queue holds no empty batch: that is why the
  parser, once at work, has a transaction to wait for.
* `TradeBuilderProofs`. `RouteInv`: once there is a pool it stays, the builder
  is past the read of the pool only if there is one, and on its way to a curve
  buy only for one of the three reasons. The bounds on amounts rest on lemmas
  about division, saturation and narrowing (`Monotone` and those before it) and
  hold for every `Word`, so for the real 2^64 as well. The types need
  `MostReads`, how many requests a build can have made by each step, to bound
  the whole build. `CopiedBuysKeepTheSlots` holds for any signals: a beginning
  of sixteen has the leader's first sixteen (`FirstSixteen`), and sixteen
  resolved of at most sixteen have lost nothing (`AllCarried`), so replacing
  three slots by position hits the payer's own (`SwappedSlots`).
  `CopiedLimitIsScaled` is about the arithmetic only; whose price that is,
  `leader_price` shows.
* `BlockhashCacheProofs`. `AgeInv` follows the age through the refresher's
  cycle: what is left of its sleep is what the hash may still age before the
  next request, and each failure adds at most one longest sleep and one request.
* `SignalParserProofs`. Every step of the parser is a step of `AltSpec` or
  leaves the resolver alone (`ImplementsResolver`), so what is proved of the
  resolver for any callers holds of the parser. `AltInv` says that free permits,
  fetches and batch reads add up and that every waiting caller's table has a
  fetch; the bound on requests follows by counting. `ParserInvariant` is the
  parser's own: `ShapeInv` says that a call is about the lookup its parse is at;
  `FaithInv` that the addresses loaded so far are, list by list, a beginning of
  what the runtime would load, and all of it when they are as many (`KeysFit`),
  because tables only grow, and that the request for an account is made only
  where nothing was found without it (`ProbeFits`); `ResInv` that results have
  the types of the way that found them. `SignalFaithful` alone is not inductive:
  it speaks of finished parses only. `StageZeroComplete` needs no history beyond
  "a filtered transaction did not pass": lemma `StageZero` shows that each of
  the six ways needs a followed leader among the keys, and that the leader and
  the programs that stage 0 looks for are where it looks.
* `StartupProofs`. `BlindInv` ties the count of wraps in the dark to the starts,
  `TipInv` follows the tip account through the steps after it was chosen.
  `ExposureIsBounded` follows from `RoomInv`, which bounds the final balance and
  the wraps of all starts together and adds what a start that knows its balance
  may still send; a settled wrap moves between the two summands (`SumExcept`,
  `SettleRoom`).
* `FoldLemmas`. The library's induction theorems take a predicate as a
  parameter, which no installed prover can instantiate. These lemmas take a
  *set* instead: `SetInduction` is over a set of numbers, from the library's
  fact that a well-founded relation has minimal elements, and `PartInduction`
  over sets of finite subsets. From them follow that a fold over a finite set
  exists and can be taken apart (`FoldExists`, `SumParts`, `SumExcept`), that a
  left fold and a recursive function over a sequence walk it step by step
  (`FoldLeftWalks`, `WalkExists`), and what `Only` and flattening yield
  (`OnlyFacts`, `OnlySplit`, `FlattenWalks`).

Only model-checked: the liveness properties (`ConsumerNeverStuck`,
`PurchaseRecorded`, the fairness part of `DeskSpec`, `ThrottleEnds`,
`ReaderNeverBlocks`, `Reconnects`, `BuildEnds`, `Recovers`, `ParseEnds`), since
fairness and ENABLED are beyond the prover. Every type invariant, safety
invariant and action property of the passing runs has a theorem;
`DoneOnlyAfterBuy`, `NoRebuy`, `FallbackWhenAllLimited` and `LeaderPrice` are
violated.

## Not modelled, and the plan

Left to do:

1. The composition `Bot` of `Monitor`, `SignalParser` and `Dispatch`: each is
   closed by what the next one accepts (any transaction, any signal), so the
   composition adds no behaviour the parts do not have, only less of it.
2. `TradeBuilder` fed with the account lists that `SignalParser` produces when
   keys shift.

Left out on purpose: the HTTP client of `jito.rs` (a request, a reply and their
encoding; its outcomes are the reply actions of `JitoSubmit`), the demo
transaction and `rpc_submit.rs` (one request each; their outcomes are `Accept`,
`Fail` and `ReplyLost` of `Dispatch`), the generated protocol, the decoding of
keys in `keypair.rs`, the bound of eighty accounts in the batch read of the
parser, the channel's closing when every monitor gave up an unusable URL (it
happens before any signal), logging and statistics.
