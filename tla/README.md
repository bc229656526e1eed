# Formal models of Whales of Wall Street (WOW)

This directory holds the TLA+ models of the WOW application: the routing and
settlement engine in `src/wow-engine` (Rust: Axum, Tokio, Postgres, Redis) and
the wallet state of its React front end in `src/web-app`. Every definition is
translated from the source; `PROJECT.json` maps it to the lines it stands for
and lists the runs, the properties, the mutants that show each property can
fail, the findings, the hazards of the code and the theorems.

To check a run: `tlc -config <run>.cfg <module>`, with the module of the table
in section 3. To check the proofs: `tlapm <name>Proofs.tla`.

## 1. The system

The engine is one process with an HTTP API, and several of them may serve one
database. A request passes the timeout layer and the signature layer
(`api/auth.rs`), is validated, and quotes routes, executes one, starts an anchor
deposit, invalidates caches, or asks for an attestation to be verified. Quotes
search a graph of DEX swaps and bridge transfers (`router/`, `bridge/`) priced
with gas fees from REST services. Execution records a route in Postgres against
the user's quota (`db/`). Bridge attestations are checked against the attester
set of a contract, read over RPC, and against a log of nonces that were already
used. Background tasks purge archived routes (`db/gc.rs`), listen for cache
invalidations on Redis (`cache_sync.rs`) and scan for arbitrage. The front ends
keep a wallet (balance and list of transactions) and call the anchor endpoints
of the engine.

| Component | State it keeps | Operations | Interacts with | What is hard | What makes it correct | Module |
|---|---|---|---|---|---|---|
| Circuit breaker, `resilience.rs` | state, failure counter, trip instant, under one mutex | `call`, `state`, `is_open` | any outbound call (so far: tests only) | the mutex is released over the await: outcomes arrive after the state they were admitted in is gone | fields describe one state; no call or open period lasts for ever; recovery | `CircuitBreaker` |
| Attestation verifier, `bridge/attestation.rs` | nonces in memory and in an append-only log | `verify`, `FileNonceStore::open` and `mark_consumed` | `bridge/cctp.rs`, `api/mod.rs`, file system | check before an await, use after it; write failures; crashes; a verifier per request over one file | a granted nonce is not forgotten unless the store failed for it, and stops the requests of verifiers that can know it; a quorum signed | `AttestationVerifier` |
| Attester cache and RPC source, same file | a set and the instant of its fetch | `current_attesters`, `RpcKeySource::fetch` | verifier, RPC node, contract | several reads at "latest"; concurrent fetches; stale fallback | how old, and how mixed, a set in use may be; outages survived | `Attesters` |
| Route execution, `db/service.rs`, `operations.rs` | four tables | `execute_route_with_quota` | `api/mod.rs`, Postgres, the pool | concurrent transactions on one quota row; failure of any statement; a COMMIT that outlives its request; rounding | the limit holds; routes are entered whole; usage follows fees | `RouteExecution` |
| Gas oracle and cluster cache, `bridge/gas_oracle.rs`, `cache_sync.rs` | fee per chain with a time to live; backoff; Redis subscription | `estimate_gas_fee_usd`, `invalidate`, `publish`, `run_redis_subscriber` | bridges, REST, Redis, admin endpoint | fetch under way when evicted; lost messages; reconnection | bounded staleness; nothing but a loss or a race keeps an invalidated fee; the subscriber comes back | `ClusterCache` |
| Pool simulation and bridge quotes, `router/dex.rs`, `slippage.rs`, `bridge/cctp.rs`, `debridge.rs` | none | `get_swap_quote`, `estimate_swap`, `estimate_split_swap`, `get_quote` | route search | rounding, limits | splitting never loses; the loss is bounded | `Quotes` |
| Route search, `router/mod.rs` | a heap and the best value per node, for one call | `find_best_route`, `snapshot_arbitrage_edges` | quotes, scanner, `quote_handler` | pruning by best value seen | the first route is one that legs deliver, and no direct offer is worth more; with alternatives asked for, it is the best within three hops | `RouteSearch`, `RoutePlanner` |
| Arbitrage, `router/arbitrage.rs` | none between passes | `detect_arbitrage`, `run_arbitrage_scanner` | route search | walking predecessors that change | reports a loop iff one gains | `Arbitrage`, `RoutePlanner` |
| GC, `db/gc.rs` | one table | `run_historical_routes_gc` | Postgres, other engines | batches, failed passes, two workers | nothing expired stays for ever | `RouteArchive` |
| SEP-24 tracker and client, `anchor/tracker.rs`, `sep24.rs` | a table and a cache with an idle time | `insert_transaction`, `get_transaction`, `initiate_flow` | Postgres, deposit and withdraw handlers | a read races an insert; calls dropped halfway; a cache per process over one table | an answered deposit is on record; only races, interruptions and other engines make a stale entry | `AnchorTracker` |
| HTTP pipeline, `api/mod.rs`, `api/auth.rs`, `error.rs` | requests under way | handlers, signature and timeout layers | everything | check before an await; bodies that never come; restarts | only recent signed requests are handled; all requests end | `ApiServer` |
| Web wallet, `web-app/src/context/WalletContext.tsx` | balance, transactions, mutations under way | `deposit`, `withdraw`, `addTransaction` | screens, engine | overlapping optimistic updates and rollbacks, stale closures, timers | balance and list agree; a failed operation is undone | `WebWallet` |
| SEP-38 client, configuration, native wallet, navigation, screens, wagmi, marketing site | none, presentation, or a library's | | | | | section 5 |

`PROJECT.json` lists the hazards with their lines and the properties about them;
a note says where a property covers a hazard in part, or why none does.

### Where code and words differ

Five differences are findings, each with a run that exhibits it. Others were met
while modelling. The models follow the code in each of them.

* `breaker_probe`: `CircuitState::HalfOpen` speaks of "a single probe call"
  (`resilience.rs:35`); `call` admits every caller that finds the breaker
  half-open (`:207`), so two can probe at once.
* `attest_minted_once`: nonces are recorded "so a burn message can only be minted
  once" (`bridge/attestation.rs:353`). `verify` tests the nonce before it awaits
  the attester set and not again after it (`:502`), so two concurrent requests are
  both granted one nonce. With a verifier per request, as at the endpoint, the
  second one need not even test before the first is granted: a store reads the log
  when it is opened and not again (`:413`).
* `execute_decodes`: the tests of the engine expect an execution to succeed
  (`tests/transaction_atomicity_tests.rs:79`). `models.rs` reads NUMERIC columns
  into `f64` fields (`:17`, `:37`, `:38`), which a typed query of sqlx refuses at
  run time, so the first row that `RETURNING *` brings fails, and no execution
  ever commits. Everything else about execution is checked and proved for both
  outcomes of that decoding.
* `route_optimal`: the README promises optimal pathfinding by cost and execution
  time (`README.md:43`). The endpoint searches with `multi_path` off
  (`api/mod.rs:226`), where a hop is dropped unless it is worth more than the best
  seen at its node (`router/mod.rs:194`): then the route answered may deliver less
  and cost more than another of three legs. With the code's depths, prices and
  fees, 6,000 USDC on Ethereum are answered with 59,725 XLM on Stellar for 37.08
  dollars, where 59,753 XLM for 33.72 can be had. Time plays no part in the
  search.
* `wallet_rollback`: a rollback undoes what "never happened"
  (`WalletContext.tsx:85`), but the snapshot it puts back may hold another
  deposit that fails.

The others:

* `CircuitState::Open` is documented as rejecting until the cooldown has passed
  (`resilience.rs:33`), but a success of a call admitted before the trip closes
  the breaker at once (`:168`), and a late failure starts the cooldown anew.
  `BreakerContract` is the documented breaker; `ContractOtherwise` says that such
  outcomes, and second probes, are all that separates the code from it.
* "If the store fails we fail closed" (`bridge/attestation.rs:500`): not for
  concurrent requests of one verifier, because `mark_consumed` keeps the nonce in
  memory when the write fails (`:446`) and the second request finds it present
  and is told Ok. `OkIsDurable` says how far the comment is true: a granted nonce
  is in the log, or some request was told that the store failed for it. The
  endpoint opens a verifier per request, and there the comment is right
  (`SoundGrantsAreDurable`).
* "Daily" limits: nothing ever resets `used_today_usd`, whatever the date.
* `ARBITRAGE_REFERENCE_UNITS` is to approximate a spot rate
  (`router/arbitrage.rs:21`), but quotes are whole units: 100 USDC buy 0 ETH, and
  that edge is dropped.
* A split order is said to be "strictly better" (`router/dex.rs:88`) and to cost
  a fee that "reconciles exactly with amount_out" (`:109`). The output is
  truncated after the fee is computed, and in real arithmetic a split against the
  same curve, with the fee outside the pool, comes out equal.
* Start-up says one gas oracle is shared by every request (`main.rs:109`).
  `RoutePlanner::new` (`router/mod.rs:83`) and the attestation handler
  (`api/mod.rs:439`) build their own for each request, so invalidations reach an
  oracle that only the library's users fill.
* `"broadcast": true` in the reply of the invalidation endpoint
  (`api/mod.rs:417`) says that a publisher exists, not that the message was sent.
* "A short batch means we've caught up" (`db/gc.rs:93`) is true of one worker
  alone. With two, a batch is short when the other took some of its rows. Were
  rows archived without end, two workers could leave one row for ever; the model
  lets none arrive.
* The tracker's comment calls its idle time a "TTL" (`anchor/tracker.rs:23`): an
  entry lives as long as it is read.
* `api/mod.rs:396` answers 400 when the pool has no connection, where the
  engine's README promises 503.
* `validate_anchor_domain` is called by no handler, although `config.rs:57`
  describes the list it would enforce. `api/validated_request.rs` is not compiled:
  `api/mod.rs` does not declare it.
* Nothing in the engine uses the circuit breaker, or `get_transaction`, yet.
* `web-app/src/App.tsx` has no case for the "Send" screen that the sidebar opens.

## 2. Modules

| Module | Models | Extends or uses |
|---|---|---|
| `BreakerContract` | the documented breaker: `Threshold` failures trip it, then a whole cooldown without calls, then a single probe | |
| `CircuitBreaker` | `resilience.rs` | INSTANCE of `BreakerContract` |
| `AttestationVerifier` | `verify` and the nonce store of `bridge/attestation.rs` | |
| `Attesters` | `current_attesters` and `RpcKeySource` of the same file, and the contract they read | |
| `QuotaLedger` | what executing a route promises: one atomic step, or none | |
| `RouteExecution` | the execute handler and its transaction | INSTANCE of `QuotaLedger` |
| `ClusterCache` | `bridge/gas_oracle.rs`, `cache_sync.rs`, their wiring in `main.rs`, and Redis | |
| `Quotes` | pool simulation, DEX quotes and bridge quotes, as functions | |
| `RouteSearch` | `find_best_route` and `quote_handler` | `Quotes` |
| `Arbitrage` | `detect_arbitrage` and the scanner's pass | |
| `RoutePlanner` | both users of the quotes, and the snapshot between them | `RouteSearch`, `Arbitrage` |
| `RouteArchive` | `db/gc.rs` | |
| `AnchorTracker` | `anchor/tracker.rs` | |
| `ApiServer` | the HTTP pipeline, its deposits and its quotes | `AnchorTracker` |
| `WebWallet` | `WalletContext.tsx` with the screens that call it | |
| `CircuitBreakerProofs`, `AttestationVerifierProofs`, `AttestersProofs`, `RouteExecutionProofs`, `ClusterCacheProofs`, `ApiServerProofs`, `WebWalletProofs` | theorems | the component they are named after, TLAPS |
| `RouteProofs` | theorems about the collector, the detector, the search and the quotes | `RouteArchive`, `RoutePlanner`, TLAPS |
| `MCAttestation`, `MCRoutes` | instances for TLC of two components each, of which a behaviour is about one: the verifier or the attester cache; the planner or the archive | `AttestationVerifier` and `Attesters`; `RoutePlanner` and `RouteArchive` |
| `MCRouteExecution`, `MCWebWallet` | instances for TLC: constant values, symmetry | their component |

An operator whose comment begins with "Mutant" is a plausible bug in the
operator after it. No specification uses it; `PROJECT.json` names the property
that fails when it takes the other's place.

### CircuitBreaker

The variables are the fields of `Inner` and, per caller, its call. An instant is
kept as its age, capped at the only value the code compares it with, so the
clock needs no bound. `call` is two actions, because it takes the mutex twice:
`Admit` or `Reject`, then one of `Succeed`, `Fail`, `TimeOut` or `Abandon` (the
task is dropped at the await). `Refreshed` is `refresh_state`, part of every
entry point; `Query` is `state` and `is_open`.

`BreakerContract` is what `CircuitState` documents. Its state changes when the
time is over and not when somebody asks, an open breaker ignores the outcomes of
calls admitted before, and one call at a time passes while it is half-open. The
refinement mapping takes the mode from `Refreshed`, the counter only while the
breaker is closed, and the time from `openedFor`. The code does not implement
this contract. `ContractOtherwise` is the part it does: every step is one of the
contract, except an outcome that arrives in the cooldown (`LateOutcome`) and an
admission beside another call while half-open (`SecondProbe`). It speaks of all
steps, also those after such an exception.

### AttestationVerifier

Requests go through verifiers; `VerifierOf` says which. The endpoint opens one
verifier for each request; a client that keeps a `CctpClient` shares one. Each
verifier has the set `mem` of its store and the lines `pending` in its writer's
buffer; `log` is the file. `verify` is `Precheck` or `RejectInput`, the await
(`ResolveKeys`, `Cancel`), then `RejectSignatures` or `mark_consumed`, which
inserts in memory, writes and flushes: `Consume`, `ConsumeFails` (memory has the
nonce, the file may get it later) or `ConsumeAgain` (it was inserted meanwhile,
which the code treats as success). `Crash` loses everything but `log`.
Signatures are sequences of recovered signers, and `VerifySignatures` is the
loop over them with the order of its tests. `accepted`, `known` and `failed` are
history variables: nonces granted, those a verifier can know of, and those some
request was told `NonceStoreUnavailable` for. `KnownReplayIsStopped` is about the
second: what another verifier grants while this one is open, this one does not
learn. What is abstracted: the bytes of messages and signatures, the
attester cache (any set of `AttesterSets`, or an error), and torn log lines.

### Attesters

The contract is an enumerable set, from which an element is removed by moving
the last one into its place; its owner enables and disables attesters and sets
the threshold between any two `eth_call`s. A call of `current_attesters` is
`Request` (a hit, or a fetch begins), `ReadThreshold`, `ReadCount`, a
`ReadMember` per attester and `Store`, or one of the ways to fail, which all end
in the cached set. The lock is free during a fetch, so calls overlap. `gone` is a
history variable: for how many ticks each attester, and each threshold, has not
been in force.

### RouteExecution

One call per task. `step` is the statement about to run; `draft` what the open
transaction has written; `rows` and `quota` what is committed. `lock` is the row
lock that the upsert of `get_or_create` takes and the end of the transaction
releases; it is what Postgres does at READ COMMITTED, the default the code relies
on. `Abandon` is any statement that fails, as well as a request that the timeout
layer answers and drops at an await; `Refuse` is the early return. Both answer
first and leave something on the connection (`wire`): a ROLLBACK, or, at the last
await, the COMMIT that is already out. `Settle` is Postgres reading it later: such
a COMMIT takes effect after the caller was told of a failure, or is lost with the
connection, and until then the transaction keeps its lock and its place in the
pool. Fees have eight decimals and usage two, as in the schema; `ToCents` is the
rounding of the column. `QuotaLedger` says the same in one step: a job is entered
with its charge if it fits, or refused, or fails; "failed" promises neither
outcome, and the job may still be entered after it.

`NumericDecodes` says whether sqlx reads NUMERIC into `f64`. It does not, so FALSE
is the code as it stands, where the first statement fails on its own result. TRUE
takes the column types as mended, and brings the rest of the transaction into
play. The theorems are about both.

### ClusterCache

A fee is not a number here but its age and its fate: whether anything was
invalidated since it was read, and if so whether the message is under way to it,
was lost, or came while the fee was still being fetched. `Meet` keeps this
history. The node of an admin request evicts and publishes; Redis hands the
message to those of its subscribers it can reach; each applies its stream in
order. The subscriber's loop is `Connect` or `ConnectFails`, `Apply`, `Drop`,
sleep, `Wake`. Redis is up or down for all nodes, and what is sent down a broken
connection is lost. `Restart` connects the publisher only if Redis is up, as
`main` does.

### Quotes, RouteSearch, Arbitrage, RoutePlanner

`Quotes` computes in fixed point, rounded down, what the code computes in `f64`,
and truncates to whole units where the code casts to `u64`. The pool fee is in
basis points, as `LP_FEE_BPS` is. A behaviour of `RouteSearch` is one request:
each action takes one of the states of highest value off the heap and does what
the loop does with it. The heap is a set: equal states would be expanded alike.
Legs to the same node are offered in the order of the code. `Arbitrage` runs the
detector on weights in whole steps, so that sums are exact and EPSILON has no
part; a behaviour is one pass. `RoutePlanner` has either a request or a pass as
its behaviour, because the two share no state, and builds the snapshot from the
legs of the search. In the snapshot only the sign of what an edge loses, measured
in USD, is kept: at oracle prices the sum of `-ln(rate)` round a loop is the sum
of what its edges lose, so a loop can gain only if some edge does.

### RouteArchive

Workers of several processes on one table. A DELETE is two actions: `Pick`, its
subquery, and `Delete`, which removes those rows of the pick that are still
there. A failed statement or a crash ends the pass. `alone` is a history
variable: no other worker removed a row of this pass.

### AnchorTracker and ApiServer

A call of the tracker yields at its statement and before it changes the cache.
`Stops` is an error or a drop with the statement sent: the row may have been
written. `UpsertElsewhere` is the write of another engine on the same database, of
which nothing tells this cache. `disturbed` and `overtaken` are history variables:
ids whose calls overlapped or stopped halfway, and ids another engine wrote after
the entry of this one was made. `ApiServer` drives it: a request arrives with a
signature and the age of its timestamp, waits for its body, is verified or not,
and calls a handler. The timeout layer (`Timed`) lies around all of it.
`Disconnect` is a client that leaves. `hasDb` is decided at start and kept, as in
`main`. Other callers and other engines insert and read with ids they were given.

### WebWallet

`balance` and `txs` are the React states with all updates applied; `shown` is what
was last rendered, which closures and button guards read, so an event that comes
before `Render` sees old values. `Mutate` is `onMutate` of a deposit or a
withdrawal with the snapshot it keeps, `Succeed` and `Fail` are `onSuccess` and
`onError`. `Continue` is the button of `SendScreen` that tests the balance; after
it come `Back` or `StartSend`, which starts a timer and tests nothing, and
`FinishSend`, the timer's end. Nothing cancels it.

## 3. Runs

| Run | Module | Expect | What it shows |
|---|---|---|---|
| `breaker` | `CircuitBreaker` | pass | four callers: the fields agree, a half-open breaker has rested for a whole cooldown after the last outcome, late outcomes and second probes are all that tells the machine from the documented one; open periods end, calls return, a healthy dependency closes the breaker |
| `breaker_probe` | `CircuitBreaker` | violation | two callers probe at once, with no call left from before the trip |
| `attestation` | `MCAttestation` | pass | two requests on a shared verifier whose writes may fail, beside one with its own, with cancellations and crashes: which grants are durable, remembered, and stop replays; acceptance means a quorum of distinct attesters. Or two callers of the attester cache: every part of a fetched set was in force during its fetch, a hit holds nothing revoked longer ago than the time to live and a fetch, an outage never loses a set once served |
| `attest_minted_once` | `MCAttestation` | violation | two concurrent requests of one verifier are both granted one nonce |
| `execute` | `MCRouteExecution` | pass | with the NUMERIC types taken as mended: the limit, atomicity, usage against fees, refinement of the ledger with COMMITs that come after the answer; every accepted request is answered, with more requests than connections |
| `execute_decodes` | `MCRouteExecution` | violation | the code as it stands: with a healthy database the call fails |
| `cluster_cache` | `ClusterCache` | pass | no fee outlives the time to live and a fetch; an invalidated fee stays only by a loss or a race; the backoff counts failures; every node ends up subscribed when Redis stays up |
| `routes` | `MCRoutes` | pass | the search in both modes, against all paths of three legs and against the direct offers; splits against lump swaps; bounded losses; the detector against all loops; silence on the engine's own quotes. Or two collectors: a pass without interference deletes all it set out to, and every expired row goes in the end |
| `route_optimal` | `MCRoutes` | violation | in the endpoint's mode, the route answered delivers less and costs more than one whose first hop was pruned |
| `api_server` | `ApiServer` | pass | how old a handled signature can be; answered deposits are on record; the cache strays from the table only by races, interruptions and other engines; every request ends |
| `wallet_interleaved` | `MCWebWallet` | pass | balance and list agree at all times, one entry per operation, a lone failure is undone exactly |
| `wallet_rollback` | `MCWebWallet` | violation | two overlapping deposits fail and one of them stays |

### Bounds

* Breaker: with four callers one outcome can trip, one arrive late and two probe
  at once. Threshold, cooldown and timeout of two distinguish "first", "last" and
  "between"; `MaxCount` of four lets the counter saturate beyond the threshold.
* Attestation: two requests suffice for a race on one nonce, a third one has a
  verifier and a writer of its own. It is the shared verifier whose writes may
  fail: only there does a failure reach a second request. Slots are reused, so each
  verifier can see any number of calls, retries, crashes and restarts. Two nonces
  show that one is not mistaken for the other. The signatures are a quorum, one
  member twice, and a stranger beside a high-s form; one attester set is enough
  here, since rotations are the cache's subject.
* Attesters: the verifier takes any set the cache may return, so the two share
  nothing, and a behaviour of `MCAttestation` is about one of them. Two
  overlapping fetches, three attesters of which all enabled exceed
  `MAX_SIGNATURES`, three changes, so that one can come before, in and after a
  fetch. A time to live of three ticks is longer than a fetch of two.
* Execution: one user, because requests of different users share nothing but the
  pool; the theorems cover any number. Three requests over two connections make
  one wait for a connection while another waits for the row. Fees of 0.4, 1 and
  1.6 cents against a limit of 3 cents reach the limit exactly, pass it, and round
  both ways. A task makes one call: a retry is another task. `execute_decodes`
  needs no more than one task.
* Cluster: one node serves fees, and the other invalidates, or both do: caches of
  two nodes influence each other only through messages, and the serving node sees
  every message sequence that a second serving node could cause. Two messages can
  be one evicting and one lost; two outages separate "once" from "again".
* Planner: two chains and three assets give six nodes; with small pools the
  amounts of 15, 40 and 60 are swapped whole, split and refused. Four edges over
  three nodes are the fewest for a loop with a tail, or two loops that share a
  node; the weights are those that gain, lose, keep, or are dropped. Fees and
  prices are chosen so that legs differ; `Scale` keeps two decimals. The fee of
  `routes` is 1000 basis points: the code's 30 would be lost in the rounding of
  such small pools, and with it the difference between trading before and after
  the fee; the theorems cover every fee below the whole. `route_optimal` has the
  code's fee, pools of similar depth and gas cheaper than a swap, which is what
  makes a leg through a third asset pay.
* Archive: four rows make a full batch, a short one, and one for the other
  worker; ages are any up to the day after the retention; two failures.
* API: one request suffices, since requests share only the tracker, and three
  library callers race with it there and with each other. Two crashes lose and
  regain the database. Timestamps are up to one tick beyond the window. Another
  engine writes ids that were answered before, at any time.
* Wallet: three mutations and a transfer, two amounts. A rollback needs two
  operations to go wrong and a third to be affected by it.

Symmetry is used in `attestation` (requests of the shared verifier, nonces, callers
of the cache) and `wallet_interleaved`, which have no liveness. Runs with
`CHECK_DEADLOCK FALSE` are those in which all calls or operations may be over.

### Fairness

* Breaker: the clock advances and Tokio polls expired timers (`TimerFairness`).
  Nothing is assumed of the wrapped call. `KeepTrying` is a premise of
  `HealthyRecovers` only: callers exist, and calls that have been admitted end.
* Execution: Postgres answers statements and grants free locks, and the pool hands
  out free connections. No timeout is assumed to fire, so the answer does not come
  from the escape of a timeout. Failures may happen but are not needed. In
  `execute_decodes` they do not happen (`HealthySpec`), so that the failure it
  shows is the decoding's.
* Cluster: the clock advances, the subscriber's task runs, and clients time out.
  Nothing is assumed of Redis: that it stays up is the premise of `Resubscribes`.
* Archive: days pass and workers take their steps; statements fail finitely
  often.
* API: the clock advances and due timers fire. Nothing is assumed of clients,
  Postgres, or callers of the library.
* The attestation verifier, the attesters and the wallet state no liveness: a
  request that waits for an RPC node ends by the timeout of `ApiServer`.

## 4. Proofs

A theorem holds for every value of the constants that satisfies the named
assumptions of the model, which TLC evaluates in each instance. They are about the
safety specifications (`Spec`, `AttestersSpec`, `ArchiveSpec`, `PlannerSpec`);
those with fairness imply these. The assumptions say what the code takes for
granted: thresholds, timeouts and batches of at least one, a fee below 100 %, a
limit in whole cents, an impact limit below 100 %, at least one route per answer,
finite tables and finite sets of chains, assets and attesters, and that `None`,
`Absent`, `NoRate` and `NoNode` are none of the values they stand beside.

### Inductive invariants

* `CircuitBreakerProofs`: `TypeOK`, `FieldsAgree` and `HalfOpenIsRested`. The last
  two are inductive together, as `RecordFailure` decides by the state and the
  counter. `TwoDeviationsOnly` needs both to see that the capped counter is at its
  cap exactly when the breaker is not closed; every other action maps to one of
  the contract, or stutters (`Query`, and `Tick` of a closed or rested breaker).
  `OrderlyCallsObeyContract` says what follows for callers to whom neither
  exception happens: `OrderlySpec` implements the documented breaker.
* `AttestationVerifierProofs`: `GrantsAreDurable`, `GrantsAreKnown` and
  `KnownReplaysAreStopped` hold in every setting, with the nonces of `failed` as
  their exception. The invariant adds that memory is backed by the file or the
  buffer (`MemoryIsBacked`), that what a buffer holds is a nonce of a failed write
  (`BuffersHaveFailed`), and that a call past its precheck has an open verifier.
  `SoundGrantsAreDurable` drops the exception where a verifier whose writes may
  fail serves one request (`SoundSetting`, the endpoint): a request alone with its
  verifier still finds its nonce unmarked after the await, so no grant rests on a
  write that failed. `AcceptancesAreQuorate` rests on something else: a call that
  ended in Ok still holds the set its signatures passed against
  (`GrantIsSigned`), and what passes is signed by as many different attesters as
  the threshold asks for, in a list of any length.
* `AttestersProofs`: `RevocationsTakeEffect`, `FetchesAreSound`,
  `OutagesAreSurvived`, `AttestersAreTyped`. What is in force now has not been gone
  at all; what a call has read has not been gone for longer than the call lasts;
  what is cached, not longer than its age and the longest fetch together. A set
  that was served is still cached, so the fallback has something to fall back on.
* `ClusterCacheProofs`: `ServedFeesAreRecent`, `InvalidationsArrive`,
  `PausesDouble`. A fee under way is as old as its fetch, a cached one was read at
  most one fetch before it was stored, and a fee whose fate is "Due" has its
  message with an admin request or in the stream of its own node.
* `RouteExecutionProofs`: `LimitHolds`, `RoutesAreAtomic`,
  `ExecutionImplementsLedger`. Who holds which lock at which step (`LockInv`),
  that the value a transaction has seen is the committed one until it charges and
  the rounded sum after (`SeenInv`), and what each transaction has written
  (`DraftInv`, `RowsInv`). `RoundingWithinLimit` uses that the limit is a whole
  number of cents: rounding does not carry a sum that fits past it. A COMMIT that
  outlives its request is the step that needs most: `WireInv`, `LockInv` and
  `DraftInv` say that a call answered with its COMMIT out was told of a failure,
  still holds its lock and has a finished draft, so that when the COMMIT takes
  effect the ledger may enter the job, with the charge that fits
  (`EnteringExecutes`, `EnteringFollows`). `UsageFollowsFees` adds the sum: a
  commit adds one fee to the sum of the fees and at most half a cent to the
  distance from it.
* `ApiServerProofs`: `HandledRequestsAreRecent`, `AnsweredDepositsAreRecorded`,
  `StaleEntriesAreRaced`. An undisturbed transaction has one call at a time, and
  what that call brings to the cache is what the table holds; the write of another
  engine either disturbs a call, or overtakes an entry, or finds neither
  (`ElsewhereStep`); a deposit waits for the call of its own id; the age of a
  protected request and the time it has spent differ by what they differed by when
  it arrived, in the window. The tracker is proved first, so that the steps of the
  server cite it.
* `WebWalletProofs`: `NothingIsListedTwice`, `LoneRollbacksAreExact`,
  `BalancesFollowLists`. The list alone is not inductive, as a rollback puts an
  older one back: every list that may still be put back is sound, and adds up to
  the balance kept beside it. `alone` names the mutations that sit directly on top
  of their snapshot.
* `RouteProofs`, the collector: `YoungRowsStay` and `ShortBatchesCatchUp`. What a
  worker is about to delete was past the retention when its pass started, and rows
  do not become younger; a batch not disturbed by others is still there when it is
  deleted, and a short one is all there is. `YoungRowsStay` has no run of its own.

### The detector

`FoundLoopsGain` and `NoLoopIsMissed` hold for every finite graph with integer
weights. The proof numbers the passes and gives each node the number `when` of
the pass that relaxed it last; the code keeps no such number. `Known` says what
holds after some edges of pass p: the distance of a node is no smaller than that
of its predecessor plus the edge between them; its predecessor was relaxed at
most one pass before it; an edge improves nothing if the node it comes from was
not relaxed since the edge's last turn; and a loop of predecessors gains, because
the distances cancel out round it and the relaxation that closed it was an
improvement. So if the last pass, one more than there are nodes, still relaxes a
node, the walk back from it takes as many steps as there are nodes without
running out of predecessors (`WalkIsLong`), by the pigeonhole principle meets a
node twice, and the trace returns to where it began (`WalkReturns`): it ends, and
it ends in a loop that gains. If the last pass relaxes nothing, every edge is
settled, and round any loop settled edges add up to zero or more.

`NoQuotesAreArbitrage` joins this with the quotes. The reserves of a pool are
worth the same at oracle prices but for a part, so a swap pays no more than it
takes (`SwapBound`); a leg of a split leaves a pool of which this is still true
of what was spent so far; bridges keep a fee. Hence no edge of a snapshot has a
negative weight, and neither has a loop of them.

### The search

`BestRouteComesFirst` is about both modes. What the states in the heap can still
deliver together with what was found (`Promised`) never exceeds what legs can
deliver: expanding a state replaces it by its successors, reaching the destination
moves an amount from one side to the other, giving up drops a state that can
deliver nothing more. With alternatives asked for, nothing is pruned, and
`Promised` stays all of it. When the heap is empty all was found, and the ranking
puts a largest amount first (`FirstRanksHighest`): the order among routes is total
because routes found earlier win, and the first of it is the one with none before
it.

Without alternatives less is true, and the statement says how much. Once the start
was expanded, no direct offer is worth more than the best value seen at the
destination; that value is always the value of a state in the heap or found; so
when the heap is empty the first route is worth it.

### Splitting

`SplittingPays` holds for every pool and amount, not only those of a run. The
product of the reserves grows by at most one part of output for each leg
(`ProductGrowsByAPart`, `SplitsKeepTheProduct`): what the floor of the output
leaves behind. The division into legs and the fee round away less than two parts
of input for each leg (`LegsRoundAway`), and a part of input buys at most the ratio of the
reserves, rounded up. Together that is `RoundedAway(pool, n)`.
`LossesAreBounded` adds that an impact that rounds to M basis points is less than
M and a half (`ImpactBounds`), for the lump swap the limit is tested on; a split
loses no more, by the theorem before. Every leg of a state in the heap is one the
quotes offer (`Offer`), which makes both statements invariants of the search.

### Recursion

The library's induction theorems take an operator as a parameter, which the
provers cannot instantiate. What the proofs do instead: a recursive function of
the models is one function among those that satisfy its equation, and such a
function exists (`IterationExists`, for an iteration of any step function on any
set), so `CHOOSE` finds it and it unfolds. What holds at 0 and is kept by every
step holds everywhere because the set of counterexamples has no least element
(`UpFromZero`, from the well-foundedness of the natural numbers). For this the
models write sums and iterations as recursive functions.

### Model-checked only

* Liveness, as the prover does not do ENABLED: `OpenPeriodEnds`, `CallsReturn`,
  `HealthyRecovers`, `CallsEnd`, `Resubscribes`, `ExpiredAreDeleted`,
  `RequestsEnd`. Their fairness is in section 3.
* The five findings, which TLC shows by their counterexamples.

Every invariant and every action property of a passing run, and the refinement
among them, have a theorem. What could be proved next: bounds that no run
checks, such as the number of states a search expands, or that the estimate of a
split is monotone in the amount.

## 5. Not modelled

* The bytes of things: messages, signatures, hashes, log lines (a line is written
  whole or not at all), URLs, payloads, texts of errors.
* Floating point itself. Fixed point stands for it, and the properties of the
  planner allow for the last unit and for what rounding to parts takes.
* The recommended slippage tolerance and the durations of routes: they are sums
  that no decision reads.
* `health`, `config` with its ETag, and the SEP-38 quote: handlers without state.
  `validated_request.rs` is not compiled.
* Reading the configuration, CORS, tracing, graceful shutdown, and the retries of
  the HTTP client, which are a library's: a call there answers, fails, or hangs
  until its timeout.
* Arrival of rows in `historical_routes`, which nothing in the engine writes, and
  `bridge_quotas`, which nothing reads.
* The native wallet applies each operation once, when its answer arrives, so it
  has none of the web wallet's hazards; navigation, screens, wagmi and the
  marketing site are presentation or libraries.
