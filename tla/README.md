# TLA+ models of OpenCBDC's transaction processor

This directory holds TLA+ models of the transaction processor, TLC
configurations that check them on small instances, and proofs that TLAPS checks
for every instance. Definitions keep the names of the C++ code where TLA+ allows
it; `PROJECT.json` maps each of them to its source lines, and lists the
components, the runs, the hazards at their lines, and the theorems.

## The system

The repository implements three architectures on shared utilities.

- **Two-phase commit (2PC).** A sentinel validates a transaction, gathers
  attestations of other sentinels and calls a coordinator. The coordinator's
  raft leader collects transactions into a batch (a distributed transaction,
  dtx) and sends lock, apply and discard RPCs to the locking shards that own the
  inputs, outputs or ID of its transactions. It records each phase in its
  cluster's replicated state machine (RSM) first.
- **Atomizer.** Shards attest that an input is unspent at a block height. The
  leader of the atomizer cluster collects attestations, and the replicated
  atomizer puts complete transactions into blocks. Archiver, shards and
  watchtower follow the blocks.
- **PArSEC.** Agents run contracts. A broker locks the keys a contract touches
  on runtime locking shards (wound-wait), then prepares, commits and finishes.
  The ticket machine numbers the executions; the order of the numbers decides
  who wounds whom.
- **Below all of them:** network peers, RPC, the files of a raft node,
  serialization, bounded caches. **Beside them:** the client and its wallet.

Correctness means: no UHS ID (hash of an unspent output) is spent twice; a
transaction settles everywhere or nowhere; the program does not reach its own
fatal errors; what begins also ends; and what is reported is true. What is hard:
leader failure between any two steps, RPCs that are repeated or late, stale
attestations, wounded tickets whose requests are on their way, kills between two
writes, and threads that wait for each other.

## Modules

| Module | Models | Proved in |
|---|---|---|
| `Transactions` | compact transactions and UHS IDs | |
| `UHS` | what both UHS architectures promise: one set, in which transactions settle atomically | |
| `LockingShard` | a 2PC shard: lock, apply, discard, under requests in any order | `LockingShard_proofs` |
| `TwoPhase` | coordinator RSM, leader, recovery, RPCs, composed with `LockingShard` | `TwoPhase_proofs`, `TwoPhaseUHS_proofs` |
| `CoordinatorThreads` | the threads and flags of one coordinator node | `Components_proofs` |
| `CacheSet` | `cache_set.hpp` | `Components_proofs` |
| `Validation` | `check_tx`, hashes, attestations | |
| `Sentinel` | both sentinels, on `Validation` | `Components_proofs` |
| `Atomizer` | `atomizer.cpp`, under any true attestations | `AtomizerSystem_proofs` |
| `AtomizerSystem` | atomizer cluster, leaders, shards and their notifications | `AtomizerSystem_proofs` |
| `BlockFeed` | how blocks reach archiver, shards and watchtower; pruning | `Components_proofs` |
| `Watchtower` | block cache, error cache, statuses | `Watchtower_proofs` |
| `Wallet`, `Client` | the wallet; a client, its files, kills between and inside their writes | |
| `RuntimeLockingShard` | a PArSEC shard, its replicated copy, recovery | `RuntimeLockingShard_proofs` |
| `Agent`, `Parsec` | agent, Lua runner and broker; composed with the shards and faults | |
| `SerializableStore` | what PArSEC promises | |
| `TicketMachine` | ticket machine and its clients | `TicketMachine_proofs` |
| `EvmHost`, `EvmRunner` | the EVM host's caches and updates; one run of a transaction or query | |
| `Peer`, `Rpc` | the threads of a connection; remote calls over connections | |
| `RaftStore` | log store, state manager, the atomizer's snapshots | |
| `Serialization`, `Formats`, `Rlp`, `Codec` | the serializers, the messages, Ethereum's encoding, and writing and reading back | |
| `MCTwoPhase`, `MCAtomizerSystem`, `MCParsec`, `MCComponents`, `MCEvm`, `MCProcesses` | instances for TLC | |

Operators marked "(Faulty: ...)" are plausible bugs. No specification uses them;
each shows that a property can fail if the definition it stands for were wrong.

**State and actions.** Variables are the members of the C++ classes, as functions
on shards, nodes, tickets or batches; a variable whose comment says "history" is
not in the code. An action is a whole handler, or, where other threads can come
in between, what a thread does between two such points. Optional values are
`<<>>` or `<<v>>`.

- *Raft* (NuRaft) is external: a command takes effect on one replicated state in
  one step, or its leader fails. `RaftStore` models what a node keeps on disk for
  it, and assumes of NuRaft that a log behind a snapshot is replaced, not
  continued (`Behind`).
- *Hashes* are opaque and injective, *signatures* are ideal.
- *LockingShard*: a batch's part on a shard keeps the batch's own indexes, so the
  index lists of `distributed_tx` need no translation. A fatal error sets
  `m_halted` for the whole cluster, since every replica replays the entry.
- *TwoPhase*: `m_exec[d]` is the `distributed_tx` the leader executes.
  `AnswerLost` is a call the shard executed and the client repeats;
  `LeaderFails` is a crash or stop at any point; `recovery_func` rebuilds
  `m_exec` from the RSM. With `LateRequests`, unanswered requests of a failed
  leader are executed at any later time. With `ConflictFree`, no transaction is
  submitted while one with a common input is in flight.
- *AtomizerSystem*: notifications are lost, repeated and reordered; every node
  keeps what it collected as a leader, and has it when it leads again.
- *Parsec*: agent, runner and broker call each other synchronously, so a shard's
  response runs one chain of calls, which is one step. The faults to allow are a
  constant: failovers of shards, crashes of a broker's process, calls that cannot
  be sent, and "overtake", a process that restarts and recovers while requests of
  the one that died are still being replicated. The code does not wait for them
  (`broker::recover`); without "overtake" the restart takes longer than they do.
- *Sentinel*: a connection that breaks may take along the answer to a call that is
  out. *Rpc*: closing a client may miss the handler, which then hangs.
- *Client*: a file is truncated when it is opened, so a kill during a write
  leaves a part of it.
- *EvmRunner*: the virtual machine may call any operation of the host; each lock
  it asks for may be refused. Gas metering is left out.
- *Rlp*: as with bytes of 8 bits, the five ranges of the first byte fill a byte
  exactly, scaled down: a byte is a digit below 14.

## Runs

| Run | Result | Shows |
|---|---|---|
| `two_phase` | pass | repeated RPCs and a leader failure at any step: no fatal error, no double spend, decisions backed by locks, refinement of `UHS`; every recorded batch finishes and releases its locks |
| `late_requests` | pass | with late requests of a failed leader: one decision per batch, no orphaned lock |
| `conflicting_batches` | violation | two transactions spend one input: locks carry no owner, and the apply of an aborted transaction frees an input another batch holds |
| `atomizer` | pass | lagging shards, old attestations, leader changes: no double spend, no input falsely reported as spent; the system meets the contract of `Atomizer` and refines `UHS` |
| `parsec` | pass | three contracts on two keys, without faults: exclusive locks, waiting only for older tickets, refinement of `SerializableStore` |
| `parsec_faults` | pass | two contracts that write the keys in opposite order, with shard failovers and broker crashes: serializability, clean shards at rest, decisions that stand. No "overtake" |
| `parsec_recovery` | pass | contracts end, and so does a broker's recovery. No "overtake" |
| `prompt_restart` | violation | with "overtake", recovery rolls back a ticket that a shard has committed |
| `components` | pass | safety of cache set, watchtower, wallet, client, validation, raft files, tickets, serializers and the EVM host, each on its own |
| `client_sync` | violation | `sync` confirms a transaction the shards aborted, since they remember its ID too |
| `processes` | pass | coordinator threads, block feed, sentinels, peers and RPC, each on its own: safety, no lost wake-up, consumers catch up, executions and calls end |
| `sentinel_routing` | violation | the atomizer's sentinel can leave an input without a shard: the range test reads `m_inputs[i]` with the index of the shard |

Each violation run checks a statement of the repository's documentation or of a
comment in its code; `findings` in `PROJECT.json` quotes it. `MCComponents` and
`MCProcesses` hold several components: the initial state chooses one, the others
do not move.

**Bounds.** They are named in the modules and set in the .cfg files.

- `MCTwoPhase`: two shards, and three transactions that each span both. Two
  compete for an input; the third spends an output of the first. Batches of up
  to two transactions meet an earlier or a later one; one failure reaches
  recovery from every phase. `two_phase` has two batches (the proofs cover any
  number), `conflicting_batches` the three that its violation needs.
- `MCAtomizerSystem`: two shards, two nodes, three blocks, a spent cache of depth
  one, a conflict, a transaction on both shards and a mint. Attestations reach
  beyond both ends of the cache.
- `MCParsec`: two shards, two keys, contracts in opposite orders (and one that
  reads, one that throws); two faults at any points. The recovery run adds a key
  that holds the contract's code.
- `MCComponents`: caches that evict after two or three entries, three
  transactions of a client and one kill, values modulo 3, three log entries and
  two kills; two ticket clients, five requests, ranges of two, two lost requests;
  every message, varied in one place, cut at every length; contracts that make up
  to three host operations in two frames, and numbers modulo 16 for 256 bits, so
  that the cost of one transaction wraps.
- `MCProcesses`: three elections, four requests and batches of two; three blocks,
  one lost message at a time and one restart; three sentinels and every
  threshold; three packets and two breaks; two callers of different kinds and one
  break.

Names of batches and nodes are symmetric where only safety is checked. Deadlock
is not checked where inputs are bounded: those systems stop when the bound is
used up. It is checked in `parsec` and `parsec_recovery`.

**Fairness.** Threads that can run are run. 2PC: `send_request` repeats a call
until one is answered, and a cluster without a leader elects one. `BlockFeed`,
`Sentinel`: the network delivers what was sent and not lost, and a sentinel that
draws at random draws everyone it is connected to. A lost connection need not be
made again, nor a lost answer come. PArSEC: servers, RPC and raft go on. Clients,
elections, failures and spurious wake-ups need never come, and failures are
bounded.

## Proofs

The theorems hold for all values of the constants that satisfy the `ASSUME`s.
Those give constants their types, and one fact: a UHS ID is created by one
transaction (`OutputsAreFresh`; it hashes the output and its transaction's ID).
Bounds such as `MaxFailovers` are arbitrary natural numbers in the proofs.

**Two-phase commit.** `LockingShard_proofs` is about a shard under any requests:
`ShardTypeCorrect`, `NoOrphanedLock` (`LockHasHolder`) and, without conflicts,
`LocksKept` (`HolderHasLock`, with `PreparedDisjoint`: two prepared transactions
share no input). `TwoPhase_proofs` is about the whole system. Its inductive
invariant has three layers:

- `PhaseInv`: what the RSM recorded of a batch, what the leader executes of it
  and the requests under way agree. It holds with conflicts and late requests,
  and gives `DecisionsAgree` (`OneDecision`) and `NoLockOrphaned`
  (`LockHasHolder`).
- `ShardInv`: what a shard knows of a batch fits the batch's phase, so no call
  is fatal. It needs that no request is late.
- `FlightInv`: batches that are not decided share no input. It needs
  `ConflictFree`.

From all three follow `LocksAreKept` (`HolderHasLock`) and `PhasesAreSound`
(`PhasesSound`). `TwoPhaseUHS_proofs` adds `StoreInv`: a shard stores exactly the
IDs that a batch it applied created and no batch it applied spent. It is needed
because shards apply a batch one after the other. From it follow
`NoInputSpentTwice` (`NoDoubleSpend`) and the refinement `SettlesAtomically`
(`ImplementsUHS`): the RSM's commit command is the step at which a batch settles.

These last theorems name their hypotheses. `ConflictFree` and no late requests
are needed: `conflicting_batches` refutes `NoDoubleSpend` without the first, and
TLC finds fatal applies without the second. `SpendsSomething` (an attested
transaction has an input, as `check_input_count` demands) excludes the mints a
client submits past the sentinels (`twophase_client.cpp:76`): a mint submitted
twice settles twice, as no lock keeps the second one out. TLC checks the same
properties on `MCTwoPhase`, where every transaction spends.

**Atomizer.** `AtomizerSystem_proofs` first proves `BlocksNeverDoubleSpend`,
`PendingCanSettle` and `RefusalsAreTrue` (`ReportedIsSpent`) of the replicated
atomizer, under any attestations that are true at their height, and any depth of
the cache. `IInv` says what the caches stand for: the spent cache holds the inputs
of the last blocks, waiting attestations are true, an ID leaves the UHS only when
a block spends it and never returns. The module then shows that real shards,
notifications and leaders keep that contract: `SystemInv` follows an attestation
from shard to notification to collection (`SystemIsSound`), and each step is a
step of `AtomizerSpec` (`SystemKeepsContract`). The absence of double spends
carries over (`SystemNeverDoubleSpends`), and the system refines the UHS
(`SystemSettlesAtomically`): the making of a block is the step that settles.

**PArSEC shards.** `OlderFirst` (`WaitsForOlder`: a ticket waits only for older or
prepared ones, so waiting has no cycle) holds under any requests.
`ExclusiveLocks` (`LockExclusion`) holds as long as prepared tickets of a replica
update different keys, from which a new leader takes its locks; that is
`ReplicasDisjoint`, a property of the brokers that `parsec_faults` checks.

**Components.** `StartMeetsNoThreads` (`ThreadsSound`; invariant: which threads are
joined at each point of `stop()`), `CacheEvictsOldest` (`EvictsOldest`; the eviction
queue is the end of the history of insertions), `SentinelIsSound`
(`SentinelSound`; what is collected is valid and of different sentinels),
`ArchiveSafe` (`FeedSafe`; a prune request names a stored block).

**Watchtower.** `StatusesAreTrue` (`WatchtowerSound`) and the action property
`RepeatsAreFiltered` (`SettledIsNotRejected`). The caches are bounded while the
statuses speak of the whole chain: `WatchtowerInv` says that the maps are those
of the last blocks, and rests on the chain spending each ID once, after the block
that creates it.

**Ticket machine.** `TicketsAreUnique` (`TicketsSound`), for any number of clients and
losses. `TicketsInv` says that every number below the machine's counter is in at
most one place: with a callback, with a client, or in a range on its way.

**Only model-checked.**

- Liveness and fairness: `BatchesEnd`, `EverythingEnds`, `ThreadsLive`,
  `FeedLive`, `ExecutionEnds`, `NetworkLive`. They are out of the prover's reach.
- The composed PArSEC system (`ProtocolSound`, `Implements`, `Serializable`,
  `ShardsClean`, `DecisionsKept`): `Agent` runs its chain of calls with a
  recursive operator, which the prover does not support.
- `WalletSound`, `ClientSound`, `ValidationSound`, `NoValueCreated`: sums over
  sequences and sets, which need induction over data. `RoundTrip`: recursion over
  data.
- `NetworkSound`, `StoreSound`, `UpdatesAreLocked`: no proof yet.

## What the models do not promise

These are facts of the code that TLC showed while properties were stated; the
properties are about what remains.

- Recovery in the discard phase sends no discard RPC (`recover_discard` leaves
  `m_tx_idxs` empty), so shards keep the batch in `m_applied_dtxs`. `PhasesSound`
  promises that a batch is forgotten only without failovers.
- A late lock RPC prepares a finished batch again, and a late apply RPC after the
  discard is fatal to the shard cluster. `late_requests` checks what remains.
- `check_tx_id` also holds for an aborted transaction (completed IDs are recorded
  whatever the flags). `client_sync` shows it; `ClientSound` allows a wallet the
  outputs of refused transactions.
- `cache_set` is documented to hold `max_size` values and to evict when it is full
  (`cache_set.hpp:17,26,33`), and holds one less. `EvictsOldest` is about the order
  of eviction and leaves the number open.
- Incomplete transactions: `docs/uhs-architectures.md:171` has the watchtower told
  of those that are evicted. Only `atomizer::insert` fills the cache that is
  evicted, and no process calls it; attestations are collected by `atomizer_raft`,
  which never evicts them (a TODO in `atomizer_raft.cpp:91`) and loses them with
  the leader. So no property is about it, and `SettledIsNotRejected` leaves the
  "incomplete" error out.
- `stop()` joins the handler thread before it notifies it, and waits for ever if
  the handler waits for space in the batch; `quit()` during `start()` leaves
  threads running. `ThreadsLive` allows for the first.
- `gather_attestations` loops for ever with too few reachable sentinels, and an
  answer that is lost with its connection leaves an execution waiting: the call has
  no timeout and is not repeated. `ExecutionEnds` exempts both.
- The archiver asks once for a missing block. When the answer is lost, that block
  and those after it stay deferred until a restart, and `FeedLive` exempts them.
  With several archivers, one can prune what another still misses.
- The watchtower's catch-up loop never ends for a block at or below its last one.
  `FeedLive` exempts that handler's return, and checks that the watchtower follows
  the archive all the same.
- A client killed inside `save()` can forget coins that the command confirmed or
  gave back, lose a part of its file, or find it unreadable; `NoCoinForgotten` is
  about kills at other points. Importing an input again after its coin was spent
  credits the coin again.
- A PArSEC broker that restarts while its old requests are under way can roll a
  committed ticket back on a shard (`prompt_restart`), and can end because a
  rollback it repeats is answered with an unknown ticket. `Serializable`,
  `DecisionsKept` and `EverythingEnds` are about restarts without "overtake". An
  agent whose finish or rollback failed is not retried.
- `peer::shutdown` and `connection_manager::close` notify without the mutex, and the
  notification can be lost between a thread's test and its wait. `PeerLive` and
  `RpcLive` allow for it: the thread is then never joined.
- Asynchronous RPCs have no timeout; their callback waits for an answer or the
  client's destruction. A ticket machine's client asserts that every answer has
  a payload, which a leader that loses its leadership does not send.
- The EVM runner adds a transaction's value and the price of its gas in 256 bits
  and does not notice a sum that wraps. `NoValueCreated` is about sums that fit.
- `evm_host::revert` restores accounts, not storage or code.
- A refused lock on the index of logs is ignored, and a precompile's account is
  never locked. `UpdatesAreLocked` exempts both.

## Not modelled

- The raft protocol (NuRaft), the Lua interpreter, evmone, LevelDB: external.
- The HTTP server and the Lua server's translation of requests; configuration,
  logging, keys and hashing primitives.
- The thread pool: the models let any thread go first.
- A coordinator that goes on after a failed replication, and several coordinator
  clusters (a shard sees them as more dtx IDs).
- The client's command that confirms a transaction by hand (`confirmtx`).
- Data races on `m_rand` in the sentinels and on the wallet's queue under a
  shared lock.
