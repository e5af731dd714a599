# TLA+ models of mainline's DHT node

This directory holds TLA+ models of the mainline DHT crate
(`src/src/dht.rs`, `src/src/messages/internal.rs`), the TLC configurations that
check them, and `PROJECT.json`. `PROJECT.json` lists the components, the runs,
the mutants, the definition-to-source map, the findings and the hazards.

## The system

A `Dht` is a cloneable handle. Its only state is a `flume::Sender<ActorMessage>`.

`Dht::new` does the following:
- spawns an actor thread running `run(config, receiver)`;
- sends it `ActorMessage::Check(tx)`;
- blocks on `rx.recv()` until the actor says whether `Rpc::new` managed to bind its socket.

The actor thread owns the `Rpc`, which holds the routing table, the transactions and the query engines. It also owns two maps of reply channels, both keyed by target:
- `put_senders`: target → the `Sender<Result<Id, PutError>>` of a put;
- `get_senders`: target → a `ResponseSender`.

Each pass of the loop does three things in order:
1. It takes at most one message with `try_recv` and handles it:
   - `Shutdown`: drop the receiver, reply, and break.
   - `Info`: reply with a snapshot.
   - `Put`: call `rpc.put` and reply with the error, or register the sender.
   - `Get`: call `rpc.get`, reply with the cached responses, and register the sender.
   - `Check`: reply `Ok(())`.
2. It calls `rpc.tick()`.
3. It dispatches the report:
   - at most one streamed response goes to `get_senders[target]`;
   - done FindNode queries answer and remove their sender;
   - every other done GET query removes its sender;
   - done PUT queries answer and remove their put sender.

Each public method of `Dht` creates a fresh reply channel and sends its message. If the send fails (the actor is gone), the method reports `DhtWasShutdown` or returns nothing. Otherwise it blocks on `recv()` or returns an iterator over the channel. `find_node`, `announce_peer` and `put_*` unwrap the reply with `.expect("Query was dropped before sending a response, please open an issue.")`.

Callers are the application's threads, on any number of clones. They interact only through the actor's queue, and through the reply channels held in the actor's maps.

The Rpc and everything under it are not in this repository. They are described in `spec.md` §4–§6, and the models use only the part of that behaviour the actor can observe.

## Modules

| module | models | source |
|---|---|---|
| `DhtActor` | the handle methods, the actor queue, `run()`'s handlers, the tick-report dispatch, shutdown and exit | dht.rs 179–498 |
| `MCDhtActor` | model values and per-caller method/target sets for TLC | — |
| `DhtService` | the abstract promise of the handle: calls accepted while running, answers of the method's type, shutdown final | spec §4.7, §7, §8.6 |
| `WireCodec` | the message structs and enums, `to_bytes`/`from_bytes` with serde's flatten, internal tags, untagged order and defaults | internal.rs 5–238 |
| `DhtBuild` | `Dht::new` racing the actor thread's `Rpc::new` / failure branch, several nodes on one port, and `Testnet::new` building its nodes in turn | dht.rs 157–175, 380–402, 462–470, 543–573 |
| `MCDhtBuild` | node model values and the Testnet build order for TLC | — |

### DhtActor

**Callers.** `Callers` are threads. Each has:
- `pc`: `idle`, `wait` (blocked on its reply channel) or `panicked` (an `.expect` failed);
- the call it is in;
- its own counter `calls` of reply channels created, bounded by `MaxCalls`;
- whether it still holds its clone of the handle (`handles`). Threads in `CanDrop` may drop it (`DropHandle`) when idle. `Dht` has no `Drop` impl, so a drop only removes a `Sender` of the actor's channel.

A reply channel is the pair ⟨caller, counter⟩. `chan[ch]` is the first item received on it. That is all a caller reads: `recv()` for single-reply methods, and the first `next()` for GET iterators.

**Actor state:**
- `queue`: the flume queue;
- `receiverOpen`;
- `actor`: `recv` → `tick` → `recv`…, or `exiting`/`exited`;
- `put_senders` and `get_senders`: target → channel. For `get_senders` the map also records the sink kind (ClosestNodes, Peers, Mutable, Immutable).

**Rpc abstraction (spec-modelled).** `getQueries[t]` holds the kind of the live GET query and the responses it will stream. `putQueries[t]` holds the payload of the live PUT query, and whether a PUT of another payload arrived while it ran. `rpc.put` works as follows:
- it fails synchronously only with the preflight error, for an invalid payload (`InvalidPayloads`, e.g. an oversized value). That is the one synchronous failure spec §4.7 allows;
- it joins an identical in-flight PUT;
- for a different payload it returns Ok and records the conflict, so the query's result may be `Concurrency`. Spec §7 says `PutConcurrency` is "surfaced as PUT result";
- otherwise it starts a query.

In each of the last three cases the actor then does `put_senders.insert`.

`rpc.get` works as follows:
- it reuses the live query on the target and returns its cached responses;
- otherwise it starts a query of the request's kind.

`tick` may stream one response of a live query. It may finish any live queries. Each finished PUT may carry a `Query` error, or `Concurrency` if a conflicting PUT was recorded against it.

**Channels (flume's semantics):**
- A send fails once the Receiver is dropped.
- `recv()` returns the first queued item, or fails once no Sender remains.
- A Sender stays alive while it sits in a queued message or in one of the maps (`SenderHeld`). Queued messages are not freed when the actor drops its Receiver, because callers still hold the channel.

**Actions.** There is one action per handle method: `Info`, `Shutdown`, `FindNode`, `GetPeers`, `AnnouncePeer`, `GetImmutable`, `PutImmutable`, `GetMutable`, `PutMutable`. Each one does the send, or the refusal when the send fails.

`Return` is the caller's `recv()`/`next()`. It either returns the first item or, when every Sender is gone, follows the method's disconnection path: `.expect` panics, `DhtWasShutdown`, or an empty iterator.

The actor side has three actions:
- `RunRecv`: an empty `try_recv`, or one handler. Its disjuncts are `HandleShutdown`, `HandleInfo`, `HandlePut` and `HandleGet`.
- `RunTick`: `rpc.tick()` followed by the whole dispatch of its report.
- `RunExit`: run() returns, dropping the Rpc and both maps.

**Properties:**
- `TypeOK`.
- `NoQueryDropped`: no caller panics on `Query was dropped…`.
- `NoOrphanSender`: a registered reply sender always has a live query behind it, so some report will answer or remove it.
- `SendersKeptWhileAwaited` (action property): a step of `run()` takes a reply sender out of `put_senders` or `get_senders` while its caller still waits on it with nothing received only if that step answers it or ends the target's query. Otherwise the caller sees a disconnection while its query still runs: a PUT or `find_node` panics, and a GET stream ends early (`get_immutable` returns `None`).
- `ShutdownIsFinal`: once `shutdown()` has returned to any thread, every later call on any clone is refused at its send, never left waiting.
- `CallsReturn` (liveness): every blocked call returns.
- `ImplementsService`: the handle refines `DhtService` under the mapping `Service` (see below).
- `StopsWhenUnreferenced` (liveness): once no thread holds a handle, `run()` returns (spec §4.8).

### DhtService and the refinement

`DhtService` states what a caller of the handle may observe, with no actor, queue or channels. Its state is:
- `running`;
- for each caller, the call it is blocked in (`pending`);
- for each caller, the last result.

Its actions are:
- `Call`: accepted only while running;
- `Refuse`: only once stopped; `DhtWasShutdown`, or unit for `shutdown()`;
- `Stop`: only while a `shutdown()` call is pending;
- `Answer`: an answer of the pending method's type. That is the info snapshot, closest nodes, a response of the requested GET kind or the end of the stream, or `Ok(target of the call)` or a `PutError`. `DhtWasShutdown` is allowed only once stopped. `shutdown()` returns only once stopped, and no answer is a panic.

`DhtActor` maps `running` to `receiverOpen`, and `pending[c]` to the method and target of `c`'s call while `pc[c] = "wait"`. `Issue` is `Call` or `Refuse`, `HandleShutdown` is `Stop`, and `Return` is `Answer`. Every other step is a stutter. `ImplementsService == Service!Spec` is checked as a PROPERTY.

The refinement is checked in two runs:
- `actor_independent`: puts and find_node, no shutdown.
- `actor_service`: reads on shared targets, with puts and shutdown from one thread and handle drops.

It does not hold for every mix of methods. Findings 1–3 end in panics, and `DhtService` has no panic answer. Its liveness is not stated, because of finding 4; `CallsReturn` covers it where it holds.

### WireCodec

A bencode dictionary is a TLA+ function from keys to values. Byte strings are abstracted to `Blob` (some bytes) and `Empty`.

Each argument struct is a schema, field → serde kind:
- required (`bytes`, `int`, `list`);
- `Option` with `#[serde(default)]`: `None` when absent; serde_bencode writes nothing for `None`;
- `Vec<u8>` with `#[serde(default)]`: empty when absent, always written.

`ToBytesOf` writes the envelope and the flattened `y`-tagged variant. `FromBytesOf` reads them back, in this order:
1. `t` is required.
2. Requests dispatch on `q` and decode `a`.
3. Responses try the untagged variants in declaration order (`ResponseOrder`), and the first whose struct decodes wins.
4. Errors decode `e`.

Unknown keys are ignored. The state machine is one datagram:
- `ToBytes` picks any message of the bounded domain (360 messages) and encodes it;
- `FromBytes` decodes it.

Properties:
- `TypeOK`.
- `RoundTrip` (spec §8.3).
- `RequestRoundTrip`: requests and errors come back equal.
- `RoutingFieldsKept`: a response, whatever variant it decodes as, keeps the `id`, `token` and `nodes` that iterative lookups proceed on.

These serde behaviours are assumed, since the crates' sources are not in this repository:
- serde_bencode omits `None` fields;
- `untagged` tries the variants in order;
- unknown keys are ignored.

### DhtBuild

`Nodes` are concurrent `Dht::new` calls. The nodes in `SamePort` are configured with one explicit port; a second bind of that port fails, as in the `bind_twice` test. The model covers:
- the builder's spawn → send Check → recv;
- the actor's `Rpc::new`, then either the loop answering Check, or the failure branch's single `try_recv` followed by returning and dropping the Receiver.

`Testnet::new` runs beside these builds on its own thread, since cargo runs tests in parallel. Its state is `testnet` (building, or returned ok/err) and `built`, the number of nodes pushed. Its nodes start `queued`. It has three actions:
- `TestnetBuild`: start `Dht::new` for the next node;
- `TestnetPush`: that build returned Ok. The first node's `info()` is answered by its running loop. The node is pushed, and the call returns Ok after the last node;
- `TestnetFail`: that build returned the error, and `?` returns it. The nodes built so far are dropped without `shutdown()`, and their actors keep running (finding 7).

The Testnet nodes have no explicit port, so they never contend for the shared one. They can fail only at spawn, so no property is stated about `Testnet::new`'s result: one would follow from `TestnetPush`'s guard and `OkOnlyIfBound`. The Testnet's real hazard is the leak on its early return, which `actor_unreferenced` shows (finding 7).

**Properties:**
- `TypeOK`.
- `OkOnlyIfBound`: a node gets `Ok` only if its loop runs and it holds the port.
- `NewReturnsResult` (liveness): each `Dht::new` returns Ok or the error, and never panics or hangs.

## Runs

| run | cfg | expect | what it shows |
|---|---|---|---|
| actor_independent | DhtActor_independent.cfg | pass | With callers on disjoint targets and no shutdown, every method but get_peers and shutdown used (≈51k states):<br>• no call panics;<br>• the maps stay in step with the Rpc's queries;<br>• no awaited reply sender is dropped under a live query;<br>• every call returns under fairness;<br>• the handle implements `DhtService`. |
| actor_put_join | DhtActor_put_join.cfg | violation | A joined identical PUT makes the first caller panic (finding 1). |
| actor_get_join | DhtActor_get_join.cfg | violation | get_peers followed by find_node on one hash, by a single thread, makes find_node panic (finding 2). |
| actor_get_race | DhtActor_get_race.cfg | violation | Two threads call get_immutable for one target at once: the first one's sender is dropped under the live query and it reads "not found" (finding 8). |
| actor_put_shutdown | DhtActor_put_shutdown.cfg | violation | A put in flight across shutdown panics instead of returning DhtWasShutdown (finding 3). |
| actor_get_shutdown | DhtActor_get_shutdown.cfg | violation | A call queued behind Shutdown blocks forever (finding 4). |
| actor_service | DhtActor_service.cfg | pass | Two threads read on shared targets; one of them also calls the three PUT methods and shutdown; either may drop its handle (≈660k states, about 2 minutes):<br>• `ShutdownIsFinal` holds;<br>• `NoOrphanSender` holds;<br>• the handle implements `DhtService`. |
| actor_unreferenced | DhtActor_unreferenced.cfg | violation | Every thread drops its handle without `shutdown()`. The actor thread never stops (finding 7). |
| wire | WireCodec.cfg | pass | All 360 messages of the domain: requests and errors round-trip, and responses keep id, token and nodes. |
| wire_roundtrip | WireCodec_roundtrip.cfg | violation | A get_peers response decodes as GetValue (finding 6). |
| build | DhtBuild.cfg | pass | Three nodes, two on one port, and spawn may fail, beside a two-node `Testnet::new` (≈23k states): Ok is returned only to the node that bound. Every Testnet action fires, but the run states no Testnet property. |
| build_bind_failure | DhtBuild_bind_failure.cfg | violation | bind_twice: the losing Dht::new can panic at its send, or hang on its recv (finding 5). |

**Bounds.** `MaxCalls` = 2 reply channels per caller is enough to make each caller's second call meet the state its first one left behind: a joined query, a registered sender, a shutdown. A single call (`MaxCalls` = 1) is used where one call per thread already reaches the case.

`WireCodec` gives a required field one value, and an optional or defaulted field two: absent or empty, and present. Every decision serde makes here depends only on which keys are present, so this domain reaches every path of the decoder.

There are three targets:
- t1, the hash of both immutable values, so GetValue queries on t1 stream Immutable items;
- t2 and t3, which hold mutable items, so `get_mutable` can receive one.

t1 and t2 are the shared targets of the contention runs. In `actor_independent`, c1 uses t1 and t3, and c2 uses t2.

There are two payloads, one valid and one failing preflight.

The contention runs restrict which methods each caller uses (`CallerMethods`, `CallerTargets` in `MCDhtActor`) so that each scenario stays small. `actor_service` gives one caller every method but `find_node`, including the three PUTs and `shutdown`, and the other caller the reads, on both shared targets. The PUTs and the shutdown are on one thread, because a PUT in flight at shutdown or joined by another thread panics (findings 1 and 3), and the refinement has no panic answer. `find_node` is left out for the same reason (finding 2). The shutdown invariants are checked with PUTs present.

`CHECK_DEADLOCK FALSE` is used only where the system really stops:
- after shutdown and exit, nothing is enabled;
- after every Dht::new has returned.

**Fairness.** The actor thread loops without blocking (`try_recv` + `tick`), so `RunRecv`, `RunTick` and `RunExit` are weakly fair. A caller blocked in `recv()` wakes as soon as an item or the disconnection is there, so `Return` is weakly fair. The Rpc finishes every query by its request timeout (spec §4.6, §6), but `tick` is also allowed to report nothing. For that reason, for each target, a tick finishing the live GET or PUT query is strongly fair (`FinishesGet`, `FinishesPut`). Callers are not required to issue calls.

**Mutants.** Each property of a passing run is shown to be falsifiable by a plausible bug in the code it is about. The mutants are:
- `RpcPutErrorNoPreflight`: the preflight check is dropped;
- `PutRepliesUnsent`: a done PUT's sender is removed without answering it;
- `KeptGetSendersFindOnly`: only FindNode senders are removed when their query finishes;
- `KeptGetSendersDrained`: every GET sender is removed after each tick, finished query or not;
- `HandleShutdownReplyFirst`: the Shutdown reply is sent while the Receiver is still held;
- `RpcNewReusePort`: a second bind of the port succeeds;
- `FailedTryRecvOk`: the failure branch answers Check with Ok;
- `DecodeStructOptionEmpty`: an absent `Option` field decodes as empty bytes;
- `DecodeVariantReversed`: the untagged variants are ordered from least to most detailed.

## Findings

1. `put_senders.insert` at dht.rs:416 overwrites the sender of a joined PUT. Spec §4.6.2 says both callers see one outcome.
2. `get_senders.insert` at dht.rs:426 is keyed by target only. A second GET of a different kind on a live target loses its answer, and `find_node` panics.
3. A put pending at shutdown panics at dht.rs:328 instead of returning `DhtWasShutdown` (spec §7).
4. Calls queued behind `Shutdown` (dht.rs:396) block forever, because flume keeps the queued reply Sender alive.
5. dht.rs:465: when the bind fails, the actor's one `try_recv` can precede the builder's send. `Dht::new` then panics (170) or hangs (172) instead of returning the bind error (scenario S7).
6. internal.rs:88: `DHTResponseSpecific` is untagged with `GetValue` first, and `GetValue` needs only `id` and `token`. So every get_peers response decodes as `GetValue` and loses its peers (`values`). The `GetPeers` variant is unreachable. This contradicts spec §8.3.
7. dht.rs:393: `run()` treats `try_recv`'s `Disconnected` like an empty queue. When every handle is dropped without `shutdown()`, the actor thread, the Rpc and its bound socket live until the process exits. Spec §4.8 says the thread stops when the queue closes. `Testnet::new` (dht.rs:566) leaks the nodes already built this way when a later build fails.
8. dht.rs:308 with dht.rs:426: two threads calling `get_immutable(T)` at once share one query, and the second registration drops the first thread's sender. The first thread's `recv()` fails, and `.map(Some).unwrap_or(None)` reports "not found" while the value is still on its way. `get_peers` and `get_mutable` streams end early in the same way. Spec §7 allows an empty stream only when the query ends without values. No panic results and the answer has the right type, so the refinement alone does not catch this; `SendersKeptWhileAwaited` does.

## Not modelled, and why

- **`DHTErrorValue`** (internal.rs 115–120). No other type uses it.
- **Decoding dictionaries that other implementations send.** This includes BEP-44 `put` requests, which have no variant here, and `get_value` with `seq`, which is dropped. The inbound request handling that would receive them is not in this repository. It is listed as a hazard.
- **`DhtBuilder` / `Config`, `Info`.** These are plain data: setters and getters with no control flow. The builder enters the model only through what `Dht::new` does with `Config.port` (`SamePort`); the `Info` snapshot is the `info` answer.
- **Streaming of many responses.** Only the first item on each reply channel is tracked. Every property here is about whether a caller gets an answer at all. Iterator consumers that stop early affect nothing, because the code ignores the send error (dht.rs:475).
- **Rpc internals: routing table, transactions, tokens, iterative query engine, socket.** These are not in this repository. The actor sees them only through `put`, `get` and `tick`, which the `DhtActor` abstraction covers.

## Further work

Done: `WireCodec`, the `DhtService` refinement, the `SendersKeptWhileAwaited` action property, `actor_independent` widened to `get_mutable`/`put_mutable`, and `Testnet::new` in `DhtBuild`. The former `actor_shutdown` run is folded into `actor_service`. The project uses 12 runs, the most it keeps, so further work adds properties to existing runs, or replaces a run, rather than adding one.

- **Spec-modelled `IterativeQuery` / `PutQuery` and `RoutingTable`** (spec §4–§5). Check closest-node selection as a RECURSIVE operator against a reference definition. Check PUT completion and Concurrency against the `RpcPut*` abstraction of `DhtActor`. This code is not in this repository, so such a model would be written from the spec alone.
