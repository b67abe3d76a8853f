# A TLA+ model of the NTL runtime

The NTL runtime (`src/runtime/`) is a node that accepts signals from its peers,
holds them back until it is sufficiently excited, forwards them along weighted
synapses and learns from the receipts which synapses to prefer.  This project
models the parts of it that keep state and run concurrently and checks them
with TLC.  Every safety property the runs check of the gate, the runtime,
learning, connections, the stores and the network is also proved with TLAPS, for
any number of signals, peers and records; liveness and the hosts are left to
TLC.

## 1. The system

| Component | State | Operations | Hard because |
|---|---|---|---|
| Activation gate (`ntl-core/src/activation.rs`) | potential, threshold, refractory deadline, bounded queue | `admit`, `drain_if_starving`, `drain_batch`, `adjust_for_load`, `snapshot`/`restore`, `reset` | overflow policies on a queue that firing reorders; refractory period, latency guard and threshold compete; only a snapshot survives a crash |
| Receiving and releasing (`ntl-core/src/node.rs`, `ntl-net/src/runtime.rs`) | dedup cache, body cache, session table, one gate | `Node::receive`, `poll_activation`, `checkpoint`, `read_loop`, `release_signal`, `remember_body`, `spawn_maintenance` | one read loop per peer and a maintenance task share all of it and hold no lock across two of these |
| Learning (`node.rs`, `learning.rs`, `synapse.rs`) | synapse records, decision journal, influence ledger | `plan_forwarding`, `apply_receipt`, `fail_forward`, `sweep_timeouts`, `penalize_signature_failure`, `upsert_synapse`, `normalize_outbound_weights` | every handler is a sequence of separate store calls; receipts race the sweep; errors and crashes cut handlers short |
| Connections (`runtime.rs`, `frame.rs`) | per-connection handshake, session table, writer pumps | `dial`, `listen`, `handshake`, `run_session` | two nodes may dial each other at once, connections break half-way, a task may end long after its successor has started |
| Stores (`store/memory.rs`, `ntl-store-sqlite`) | the tables | the `NodeStore` trait | two implementations of one contract; callers bring a stale clock, maintenance purges and trims under them, a failure may take back what was committed |
| Identity (`ntl-net/src/identity.rs`) | seed and node identifier in the store | `load_or_create` | three store calls that a failure may separate |
| Hosts (`ntl-cli/src/main.rs`, `ntl-net/src/bin_support.rs`) | the event channel, their place in the program | `cmd_start`, `cmd_listen`, `cmd_emit`, `run_node` | every task reports to a channel that only the host empties |
| Propagation (`propagation.rs`, `signal.rs`) | none of its own | `select_synapses`, `check_propagable`, `clamp_inbound_headers` | loops and ttl only show over several nodes |
| Delivery (`delivery.rs`) | none of its own | delivery classes, receipts | receipts are lost, late or for a signal handled twice; nothing retries (`RetryPolicy` is only read by the validation of the configuration) |

They interact as follows.  A read loop verifies a frame with the key in the
session table, calls `Node::receive`, which claims the identifier in the dedup
cache and offers the signal to the gate under one mutex.  The gate answers with
a batch to release (possibly without the arrival), a displaced signal, or
nothing.  The read loop then answers the displaced signal's sender, answers for
a refused arrival, releases the batch (event, forward over other sessions,
receipt) and caches the body of an arrival that was queued.  Forwarding writes
a pending decision into the journal; a receipt from the next hop, a failure to
transmit or the timeout sweep resolves it and moves a synapse weight.
Maintenance polls the gate for starving signals, sweeps the journal and
checkpoints the gate.  The binaries use tokio's multi-threaded executor, so all
of these tasks run in parallel.

What makes each correct: no signal is lost, doubled or shed against the policy,
and none waits for ever (gate); one answer per acknowledged signal and no
contradiction (runtime); one lesson per decision, capped gains, a prune that
lasts (learning); mutual authentication, a table without ghosts, a dial that
connects (connections); a contract both backends keep through failures (stores);
no task that waits for ever on a slow peer or a full channel (hosts);
no signal that circles or outlives its limits, and
receipts that teach the truth (network).

## 2. The modules

| Module | Models | Kind |
|---|---|---|
| `Gate` | every operation of `ActivationState`, as operators from a gate to its possible outcomes | shared definitions |
| `Activation` | one gate over time: arrivals, polls, checkpoints, crashes, the rest of its interface (`ApiSpec`) | component |
| `HandOver` | what a node promises about a signal: one claim, then handed over or refused, answered in the same step | abstract specification of `NodeRuntime` |
| `NodeRuntime` | a running node around `Gate`: read loops, maintenance, body cache, dedup, sessions coming and going | composition of the gate with the runtime |
| `Totals` | sums over finite sets | shared definitions |
| `Learning` | journal, receipts, sweep, influence cap, normalisation, pruning and re-forming, one action per store call | component |
| `Sessions` | several nodes and connections: handshake, synapse creation, session table, pumps, timeouts, failures | component |
| `Network` | several nodes exchanging signals: propagation rules, scopes, ttl, trace, attenuation, dedup expiry, receipts, breaking sessions | composition of nodes |
| `StoreTables` | the tables, records and orders of a store | shared definitions |
| `MemoryStore`, `SqliteStore` | the methods of the two backends, as operators from a database to what they leave and answer | shared definitions |
| `NodeStore` | what the trait promises, whatever the backend | abstract specification of `Stores` |
| `Stores` | a store in use: opening and migrating it, establishing the identity, calls, maintenance, process death, power loss | composition of the backends with their callers |
| `Host` | the tasks of a process, its event channel, outbound queues and writer pumps, and the commands that run it | composition of the runtime with the command line |
| `TotalsProofs`, `GateProofs` | lemmas about sums, least numbers and the gate's operators | proofs |
| `ActivationProofs`, `NodeRuntimeProofs`, `LearningProofs`, `SessionsProofs`, `NetworkProofs`, `StoresProofs` | the theorems about the component of that name | proofs |
| `MC*` | finite instances | TLC |

Definitions keep the names of the code where they can.  A definition named
`Mut...` is a wrong variant of the one below it, there to show that a property
notices such a mistake.

**Gate, Activation.**  Time is relative: an entry carries its age and the gate
its remaining refractory time, instead of instants compared with a clock.  Ages
are exact up to `AgeCap`; above it only their order can matter (to
`drop_oldest`), so they are replaced by ranks.  Weights are naturals, potential
is in weight-times-weight, and the comparison with the load-dependent threshold
is multiplied out.  Sigmoid and leaky activation draw random numbers and are
free choices where they do.  `Recycled` identifiers stand for an endless supply
of signals.  Counters that only feed metrics are left out.

**NodeRuntime.**  `task[t]` is the `Disposition` a task still has to work off;
each lock acquisition after `Node::receive` is an action.  `Node::receive`
itself is one action: the dedup claim and the gate's mutex are its only two
accesses to shared state that other tasks could see in between, and a claimed
identifier that has not reached the gate is invisible to everybody but a
duplicate, which is dropped either way.  Routing is a free choice of peers.
`Parallel = FALSE` lets a handler finish before another starts.  Dedup entries
do not expire, so the purge in `checkpoint` changes nothing.

**Learning.**  A task is in the middle of at most one handler and `phase` says
before which store call it stands.  Weights are integers in units of a quarter
of a unit reward; the clock is absolute and bounded.  A peer has one synapse
and a decision stands for one (signal, peer) pair.  Affinity and decay only
rank synapses and are left out.  `CoarseClock` says whether two handlers may
read the same instant: `apply_receipt` recognises a resolution as its own by
its timestamp.

**Sessions.**  An end of a connection is a task of its node.  `pump[e]` says
that the end's writer pump runs and that the table still holds the queue it
reads from: the code asks `is_closed()` of that queue to decide whether a
session is live.  Peers follow the protocol and signatures are perfect; the
network breaks connections and processes die.  The cooldown of pruned synapses
is left to `Learning`, signals on open sessions to `NodeRuntime`.

**Stores.**  A method is one step, except the two that are not: the memory
store's `append_decision` takes two locks, and `load_or_create` makes three
calls.  No method touches two tables, so a behaviour exercises one `area`.
`disk` is what stable storage holds: with `synchronous=FULL` a commit is there
at once, with `NORMAL` when SQLite writes back or at `flush`; process death
keeps what was committed, power loss does not.  `Lag` is how old the time a
caller passes may be.  Influence comes in units, filters by state, region and
type, row encoding, `synchronous=OFF` on disk and errors other than the unique
index on the peer are left out.  The mapping to `NodeStore` forgets how the
dedup table is purged: `claimed`, a history variable, remembers the last claim,
and an entry with an id that is not yet pushed does not count as spent.

**Host.**  A handler is the sequence of points where it can be made to wait
(`After`): for room in the event channel, or nowhere when it uses the session
table, whose guards are never held over an `await`.  `MaxBatch` bounds the
signals one firing releases.  A node that is interrupted while it handles an
event does not notice; that is a step that changes nothing.  Two connections of
one peer at once are left to `Sessions`.

**Refinements.**  `NodeRuntime` implements `HandOver` (`KeepsPromise`): the
stage of a signal is read off dedup cache, queue and tasks, the answers are
the receipts produced, so that a second one, like a second handling, is no step
of the contract.  `Stores` implements `NodeStore` (`ConformsToTrait`),
once for each backend.

**Network.**  `link[<<n, m>>]` is the session's outbound queue together with
the socket.  Handlers are atomic here, because `NodeRuntime` interleaves their
parts; the gate is reduced to a bounded set that releases a signal at some
time (`Activation` bounds it), and a batch is a series of releases.  Scores and
samples are free choices of peers, which also covers gradient scope: it selects
as weighted scope does.  `seen[n][s]` counts down to the expiry of a dedup
entry.  A signal's type, payload and signature do not matter; a relayed signal
is dropped where the origin's key is unknown, as in `read_loop`.  A decision
that nobody answers stays open (`Learning` sweeps it).  `TraceCap` stands for
the 64 entries after which a trace stops growing; it is taken to exceed
`max_accepted_ttl`, as it does by default (32): `validate` does not ask for it.

## 3. What the runs check

| Run | Instance | Shows |
|---|---|---|
| `ActivationApi` | 3 signals, queue and batch of 2, refractory 2, latency 3, poll every 2, sigmoid (free), dynamic threshold | `TypeOK`, `NoSignalLost`, `LatencyBounded`, `OverflowHonoursPolicy` for `drop_lowest_weight` under the whole interface |
| `ActivationLive` | 5 signals, queue of 3, batch of 1, `drop_oldest`, dynamic threshold beyond the largest potential when two signals wait | `FireSpacing`, `HeaviestFirst`, `OverflowHonoursPolicy`, `EventuallyLeaves` |
| `RuntimeSerial` | 2 peers, 4 signals (one unpropagable, one best-effort), queue of 2 | `TypeOK`, `CacheMirrorsQueue`, `EventuallyAnswered` when handlers run to completion, and `KeepsPromise` without any loss: answered exactly once |
| `RuntimeParallel` | 2 peers, 3 signals twice each, queue of 1, one crash, failing store | `RejectedNotForwarded` and `KeepsPromise` under every interleaving: nothing is handled or answered twice, what is lost was not acknowledged |
| `RuntimeBodyRace` | 2 peers, 3 signals, parallel | refutes `BodyAtRelease` (finding) |
| `LearningSerial` | 2 peers, 2 decisions, clock 0..2, failing store, crashes | `TypeOK`, `GainCapped`, `PruneHolds`, `BudgetRestored` |
| `LearningParallel` | 1 peer and maintenance, 2 decisions, sweep of 1, clock 0..2 | `TaughtOnce`, `GainCapped`, `EventuallyResolved` |
| `LearningPruneRace` | 2 peers, parallel | refutes `PruneHolds` (finding) |
| `SessionsOverlap` | 2 nodes, two crossing connections or one and a self-dial, SQLite, failures, crashes | `TypeOK`, `Agreement`, `DialConnects`, `NoGhost`, `OneSynapse`, `NoLingering` |
| `Stores` | memory, SQLite in memory, SQLite on disk with `FULL` and `NORMAL`; 1 signal, 2 peers, 2 synapses, 2 journal ids, clock 0..2, lag 1, limits 1 and 2 | `TypeOK`, `ConformsToTrait`, `QueriesConform`, `DurabilityHonest`, `IdentityPersists` |
| `Host` | a node and an `ntl emit`, 2 peers, channels of 1, batches of up to 2 | `TasksReturn`, `EmitReturns` |
| `Network` | a clique of 4 nodes and a leaf; one of 4 signals (flood, weighted, targeted, too faint) emitted, ttl up to 7 clamped to 5, queues of 1, one session breaking once | `TypeOK`, `TraceIsPath`, `TravelBounded`, `AckedKeepsWeight`, `CreditIsTrue`, `EventuallyQuiet` |

Why these bounds are enough.  Gate: three to five signals overflow the queue,
tie in weight, and leave a reordered remainder behind a partial drain, which is
all that the policies can go wrong on; refractory and latency differ, so each
guard wins sometimes.  Runtime: two peers and maintenance are the three kinds
of actor; a queue of one or two makes every signal displace, fire with or
outlive another.  Learning: weights 1..8 with thresholds 2 and 4, a cap of 6
for rewards of 4 and a budget of 9 for two synapses make one failure weaken a
synapse, two successes meet the cap and two strong synapses exceed the budget;
a window of one instant expires within the clock.  Sessions: two overlapping
connections are what the duplicate check is about; a timeout of one unit per
frame lets each frame be late.  Network: a clique of four has cycles of every
length up to four and several paths between any two nodes, a dedup entry that
lasts one tick may run out anywhere on them, and the leaf has a single way in;
one emission (`MaxEmits`) is enough as signals meet only in queues, which the
copies of one signal already fill (`QueueDepth`, `PeerQueueDepth` 1); one break
(`MaxBreaks`) of one session (`Fragile`) separates an origin from a relay and
heals.  Stores: one trimmed decision and one more show whether an identifier
comes back, three instants and a lag of one let a claim, a purge and a claim
arrive in any order, two records are enough for an order and a limit, and a
schema of version 0 or 3 is migrated twice or refused.  Host: channels of one
are full whenever two tasks report or two signals are queued, and one of two
peers may be slow while the other is served.  The bounds on the clock, the
journal and the number of dials end behaviours, so the Learning, Sessions and Network runs do
not look for deadlock, nor does Host, whose process may stop; the others do.
Peers are interchangeable in `Learning`, and `LearningSerial` and
`LearningPruneRace` use that symmetry.

Fairness.  The clock advances, and a task that can go on is scheduled: tokio
polls every woken task, the timer of the maintenance loop fires, and the locks
are held briefly.  Tasks also await room in the event channel; `NodeRuntime`
takes the application to drain it, and `Host` shows that the hosts do.  There a
sender that waits for room gets it in turn (strong fairness: tokio's channel
queues its senders), timers fire, and a `select!` that keeps coming round takes
a ready deadline at some time, as it picks among ready branches at random.
Nothing is assumed of arrivals, sessions, receipts or the network: they get no
fairness.  `Network` assumes
the least: while something has arrived or is held, some node reads or releases.

## 4. What is proved

Every theorem is about the specification the runs check, for every value of the
constants that the named assumptions of its module allow: any set of signals
(finite where the gate needs it), peers, nodes, connections and records, every
configuration that `validate` accepts, every interleaving, store error and
crash the model has.  Where a theorem has a further hypothesis it is given
below, with the reason the code gives for it.

| Theorem | Property | Holds for |
|---|---|---|
| `ActivationProofs!TypeCorrect`, `Conservation`, `DrainsInOrder`, `PolicyHonoured` | `TypeOK`, `NoSignalLost`, `HeaviestFirst`, `OverflowHonoursPolicy` | every use of the gate's interface (`ApiSpec`) |
| `Spacing` | `FireSpacing` | the runtime's use of it (`Spec`): `drain_batch` and `reset` do not respect the refractory period |
| `LatencyBound` | `LatencyBounded` | `ApiSpec`, with the guard on and a batch as large as the queue (both needed, see section 5) |
| `NodeRuntimeProofs!TypeCorrect` | `TypeOK` | all |
| `RefusalsAreTrue`, `ImplementsHandOver` | `RejectedNotForwarded`, `KeepsPromise` | a store whose dedup table survives a crash (`DurableStore`): without it an identifier may be claimed, and answered, again |
| `CacheFollowsQueue` | `CacheMirrorsQueue` | handlers that run to completion and a store that does not fail (in parallel there is the race of `RuntimeBodyRace`) |
| `LearningProofs!TypeCorrect`, `CapHolds` | `TypeOK`, `GainCapped` | all |
| `TeachesOnce` | `TaughtOnce` | no two handlers read the same instant (`~CoarseClock`) |
| `PrunesHold`, `BudgetHolds` | `PruneHolds`, `BudgetRestored` | one handler at a time (`~Parallel`; `LearningPruneRace` refutes the first otherwise) |
| `SessionsProofs!TypeCorrect`, `MutualAuthentication`, `SessionsAreReal`, `DialsConnect` | `TypeOK`, `Agreement`, `NoGhost`, `DialConnects` | all |
| `OneSynapsePerPeer` | `OneSynapse` | SQLite, whose index makes the peer unique |
| `NetworkProofs!TypeCorrect`, `TracesArePaths`, `TravelIsBounded`, `AckedWeightHolds`, `ReceiptsTellTheTruth` | `TypeOK`, `TraceIsPath`, `TravelBounded`, `AckedKeepsWeight`, `CreditIsTrue` | all |
| `StoresProofs!TypeCorrect`, `IdentityIsKept`, `DurabilityIsHonest`, `ImplementsTrait`, `QueriesHold` | `TypeOK`, `IdentityPersists`, `DurabilityHonest`, `ConformsToTrait`, `QueriesConform` | both backends |

How the arguments go:

**Activation.**  The invariant of the interface is `Kept`: types and
`NoSignalLost`.  That a drain returns each entry once needs distinct
identifiers, and that the queue stays within its depth needs the accounting of
`Enqueue`; `Sortings` is shown to preserve length, entries and distinctness.
That overflow sheds what the policy names needs a weakest and an oldest entry to
exist and the rest to be spared (`WeakestExists`, `EnqueueSpares`); the order
of a drain is read off the sorted queue (`DrainBatchFacts`).  `Spacing` adds
`Pacing`, which relates the remaining refractory time, in the gate and in the
snapshot, to the time since the last fire.  `LatencyBound` adds `Prompt`: while
the gate is refractory everything queued is younger than the fire that started
the period, and nothing had been starving at the last poll;
`Latency >= Refractory` turns the first into the second.

**NodeRuntime.**  `Custody` says where a claimed signal can be: in the gate or
with one task, never in two places, and always in the dedup cache.  From it
follows `Faithful`: what is unclaimed or still held has been answered and
forwarded nowhere, and nothing is handed over twice.  The refinement reads a
signal's stage off these places, and each step is a claim, a hand-over, a
refusal, a loss or nothing to the contract.  `Mirror`, for serial handlers, says
which bodies are cached in the middle of the one handler that runs.

**Learning.**  `TaughtOnce` is not inductive; `LInv` adds ownership: a decision
between its resolution and its `put_synapse` is owned by exactly one task, has
been resolved and has not taught, and a resolved decision nobody owns has taught
unless some handler was cut short.  `Sound` gives what a handler holds between
two store calls its type.  For the cap, `Paid`: a gain is charged to the ledger
before it is written, and the influence it was measured against was read before
that, so that in every window the gains written and still to be written are
within what was charged.  For prunes and the budget, `Orderly`: while one
handler runs, the records it carries are still the store's, and the weights a
renormalisation has written or will write are within the budget and the floor.

**Sessions.**  `HInv` ties the frames under way to the end they come from: a
proof on the wire answers the receiver's own challenge, and who awaits or has
checked a proof has given its own.  `NoGhost` is inductive with the types, and
`Single` is the form of `OneSynapse` the index maintains.  `DInv` adds, for a
connection nothing has upset, where its two ends can be at a time and that every
other connection of the pair is stale.

**Network.**  `NInv` says of each frame on a link, and each signal held, that
its trace is a path of synapses up to its last sender, that hops and remaining
ttl add up to no more than is accepted, so that the trace is never cut short,
that an acknowledged signal that may go on has its weight floored, and that a
receipt is true of its sender.

**Stores.**  `InStep` relates memory, disk and pending appends, `Anchored` the
seed in the database, on disk and of the process.  `Orderly` says, of the
database and of what a failure would leave: a purged claim has run out, ids are
distinct and at most the counter, an entry under way has an id nobody else has.
With it each step of either backend is a step of `NodeStore`, table by table.
Counting, as in the influence of a window, is done by one-to-one correspondence;
`Retained` is justified by listing a set of positions in increasing order
(`Enumeration`).  For queries: a finite set can be listed in any strict order
(`SomeListing`), such a listing cut at a limit leads it (`CutLeads`), and the
orders of the queries are strict (`StrictOrders`); `Tidy` keeps the tables
finite.

**Induction.**  The provers cannot instantiate an induction theorem, so what is
needed for all sizes (sums over finite sets in `TotalsProofs`, a weakest entry, a
listing) is proved by taking a smallest counterexample (`LeastNumber`).

Only model-checked: liveness under fairness and `ENABLED`, which are out of the
prover's reach (`EventuallyLeaves`, `EventuallyAnswered`, `EventuallyResolved`,
`NoLingering`, `EventuallyQuiet`, `TasksReturn`, `EmitReturns`), and with them
all of `Host`.

## 5. Findings and known divergences

Backed by a run: the body race (`RuntimeBodyRace`) and the revived prune
(`LearningPruneRace`).  PROJECT.json quotes the lines.

Seen while modelling.  Those with a named statement are refuted by TLC on a
variant of the instances above; the statements are at the end of the modules
where they are not properties of a run.

* `activation.rs:449`: the guard drains by weight, so with `FireBatchSize = 1`
  and `Recycled` heavier signals `EventuallyLeaves` fails: "The guard bounds
  queue latency" (line 139) is true only of batches as large as the queue.
* `activation.rs:190`: `ThresholdReachable` fails with `Dynamic` and
  `MaxPotential = BaseThreshold`; validation ignores the dynamic part.
* `runtime.rs:1140`: `DeliveredMeansForwarded` fails: a signal released from
  the queue without a route is answered as delivered, one without a route on
  arrival is refused (`node.rs:337`).
* `node.rs:262`: `DuplicateAnswered` fails for `MaxCopies = 2`; docs
  (`delivery-semantics.mdx:155`) want the receipt re-emitted.
* `node.rs:330`: with `StoreMayFail`, `AnsweredOnce` fails: an error after the
  gate has fired discards the batch (`activation-model.mdx:72`).
* `node.rs:536`: with `CoarseClock`, `TaughtOnce` fails.
* `node.rs:629`: `CooldownFromPrune` fails: a late outcome restarts a cooldown.
* `node.rs:645`, `:657`: `PrunedOutsideBudget` and `StateFollowsWeight` fail:
  normalisation counts pruned synapses and does not update states.
* `node.rs:508`: `LateReceiptDiscarded` fails (`threat-model.mdx:96`).
* `node.rs:695`: with `Sqlite = FALSE`, `OneSynapse` fails: `MemoryStore` keys
  synapses by id only.
* `runtime.rs:558`: `LiveSessionKept` fails with `SessionsOverlap.cfg`: a task
  whose read loop ends late removes the session of the peer's newer connection
  and stops its pump, although "a reconnect that races a half-closed socket
  should not cost the traffic in flight" (line 514).
* `runtime.rs:519`: two nodes that dial each other at once may each list the
  connection the other refuses, and end up with none ("Dial a peer and form a
  synapse", line 322); `DialConnects` excludes such pairs and fails otherwise.
* `runtime.rs:392`: `Wedged` is reachable: `ntl emit` empties its channel only
  after its own `Forwarded` event is in it, so 1024 events that arrive while it
  waits for handshakes leave it hanging beyond `--wait`.
* `main.rs:301`, `bin_support.rs:74`: each round of the `select!` makes a new
  `ctrl_c()` future, so an interrupt that arrives while an event is printed, or
  together with one, is dropped; a busy node may need several ("until ctrl-c",
  `bin_support.rs:16`).
* `runtime.rs:559`: signals queued for a session that ends are dropped after
  they were counted as forwarded; their decisions wait for the timeout, which
  blames the path, as the comment at line 1151 says it should not.
* `runtime.rs:534`, `:560`: `PeerConnected` and `PeerDisconnected` are sent
  outside the table's lock, so a reconnection may be reported before the
  disconnection it follows.
* `identity.rs:39`: a seed whose process died before the flush is loaded
  without one; a power loss before the next checkpoint then changes the node's
  identity ("Identity must persist").  `IdentityPersists` without its first
  condition fails.
* `store/mod.rs:529`: `recent_decisions` returns pending decisions too, and
  the backends order ties differently; `pending_decision_for` returns the first
  in insertion order in one and the oldest in the other.
* `node.rs:344`: with `Network.cfg`, `Acked = {"all"}` and `MaxBreaks = 0`,
  `OuterRingHandles` fails: an acknowledged flood that fires on arrival at its
  last hop has an empty plan and is refused for lack of a route, although it
  "is still handled locally; it simply goes no further" (lines 425-429).
* `node.rs:258`: with `MaxAcceptedTtl = 1` in addition, `ExpiredCopyHarmless`
  fails: the identifier is claimed before the ttl is looked at, so a copy that
  arrives exhausted by another path keeps out a live one; the order is
  described as "size and TTL, then deduplication" (lines 236-237).
* `runtime.rs:1235`: receipts go to the origin, so the decisions of a relay are
  not resolved by one; they time out and weaken synapses that worked.
* `runtime.rs:595`: `HANDSHAKE_TIMEOUT` bounds each of two frames, not "the
  whole exchange" (line 578).

## 6. Not modelled

Scores, path sampling and random numbers (statistical, free choices of the
models); `RetryPolicy` (used by no handler); cryptography (taken as perfect);
byte encoding of frames and rows; several processes on one database; topology
and configuration types; `ntl init` and the inspection commands (they read or
write files and print); the Postgres store (a stub), the adapters (empty), the
TypeScript MCP server and the npm wrapper (separate tools without protocol
state).

## 7. Plan

1. Gate and Activation: done, proved.
2. NodeRuntime: done, proved.  Left: what the runtime keeps without a durable
   dedup table, up to the first crash.
3. Learning: done, proved.  Left: a bound on the budget under parallel handlers.
4. Sessions, Network: done, proved.
5. Stores: done, proved.
6. Host: done; its properties are liveness and stay with TLC.  Left: a safety
   property of its channels worth proving.
7. Pure functions: the samplers against reference definitions over bounded
   inputs.
