# A verification of pod's node: chain, database, synchronisation, memory pool and mining

pod is a full node, wallet and miner for Parallelcoin: a descendant of btcd and
btcwallet with its own difficulty rules and with kopach, a miner whose controller
and workers talk over a UDP multicast. This directory holds TLA+ models of the
parts that carry the node's own state, the TLC configurations that check them on
small instances, and TLAPS proofs of the properties that matter most, for every
instance. `PROJECT.json` maps each definition to the lines it models and lists
the components, the runs, the findings, the hazards and the theorems.

## 1. Inventory

| component | state | operations | interacts with | what makes it correct |
|---|---|---|---|---|
| block processing (`pkg/chain`: process, accept, chain, blockindex, chainview) | block index with a status byte per node, dirty set, work sums, best chain, orphan pool | `ProcessBlock`, `maybeAcceptBlock`, `connectBestChain`, `reorganizeChain`, `connectBlock`, `disconnectBlock`, `processOrphans`, `flushToDB` | called by the sync manager; writes the database; notifies synchronously | one chain is stored at any time; marks of nodes are right; a crash at any point leaves a database that loads |
| chain storage (`chainio`, `utxoviewpoint`) | best state, height index, block index rows, utxo set, spend journal | `createChainState`, `initChainState`, the `dbPut…` functions | inside the transactions of block processing | the same, after a restart |
| ffldb (`pkg/db/ffldb`) | flat files with a write cursor, cache over leveldb | transactions, flush, rollback, reconcile | block processing | a transaction is atomic; a crash goes back to the last flush; every block in the metadata can be read |
| sync manager (`pkg/chain/sync`) | peer states, requested blocks and transactions, sync peer, header list | one handler per message in one goroutine | peers, chain, mempool | every block is requested from someone; a lost sync peer is replaced; the download reaches the peer's tip |
| mempool (`cmd/node/mempool`) | pool, outpoints, orphans | accept, remove, remove double spends, process orphans | sync manager, chain notifications, RPCs, templates | no two transactions spend one output; the indexes are exact; the pool can be mined |
| kopach controller (`cmd/kopach/control`) | template, coinbases, job shards, readiness | `UpdateAndSendTemplate`, rebroadcaster, notifier, solution handler | chain, transport | jobs are for the height of the tip in the end; between updates there is a coinbase for every algorithm |
| kopach miner and worker (`cmd/kopach`) | chosen controller, time of the last job; in a worker its job in four places and two channels | handlers for jobs, solutions, pauses; watcher; `NewJob`, `Pause`, mining loop | transport, RPC over pipes | calls return; a worker mines its last job; workers of a controller that is gone stop |
| transport (`pkg/comm/transport`, `pkg/coding/fec`) | buffers of shards per nonce | `SendMany`, `Handle` | controller, miner, worker | each message is handled once, losses of six of nine packets included |
| validation (`validate`, `scriptval`, `checkpoints`, `difficulty`, `fork`), deployments | none, or a cache | `checkBlockSanity`, `checkBlockContext`, `checkConnectBlock`, `thresholdState` | block processing | consensus rules; arithmetic and byte formats |
| peers, connection manager, address manager (`pkg/comm/peer`) | queues, timers, retries, buckets | goroutines per peer | sync manager | messages of a peer stay in order |
| RPC, wallet, SPV client, indexes, GUI | their own | | | outside the node's core |

What is hard to test here: a crash or a failing write between two of the several
steps that accept or store one block; a reorganize that stops half way; statuses
and work sums that depend on the order of arrival; peers that come and go between
a request and its answer; request maps, orphan pools and inventories at their
limits; RPCs between two calls of the notification handler; three goroutines that
share fields without a lock; two callers and a loop on two unbuffered channels;
shards of interleaved messages in one map. These are the hazards of
`PROJECT.json`, each at its line with the properties about it.

How the models fit together. All calls of `ProcessBlock` come from the sync
manager's one goroutine (the controller and the RPC server hand their blocks to
it), so calls do not overlap and `SyncManager` may take a block as one step, with
every outcome `BlockChain` has for it: the tip moves to the block or stays, or the call
fails half way and leaves the tip somewhere on the way. `BlockChain` takes a database update as
atomic; `Ffldb` shows that it is, by implementing `DurableStore`. A crash of
`Ffldb` goes back to the last flush, which is an earlier committed state of the
database; `BlockChain` crashes after every update, so each such state is one its
crash leaves. `Mempool` has the calls of the sync manager's notification handler,
which the chain calls inside `connectBlock` and `disconnectBlock`.
`KopachController` has a chain that extends and reorganizes as `BlockChain` does, a
miner reduced to what `KopachMiner` shows of it, and messages as `Transport` delivers
them, once or not at all.

## 2. Modules

* `BlockTree` – the universe of blocks, constants only: hash links (`Path`), work,
  the outputs each block spends and creates, which blocks pass which rules, and the
  reference definitions of a valid chain (`ChainOK`, `StrictOK`) and of its unspent
  outputs (`UtxoOf`).
* `BestChain` – the abstract specification of the chain: a best block that moves
  along the tree by one valid block at a time, and the utxo set of exactly its chain.
* `BlockChain` – `pkg/chain`. The database variables survive a crash, the others do
  not. One action per stretch between two database transactions of `ProcessBlock`;
  `pc` says where the call is. An action that writes takes the outcome `ok` from
  `DbResults`. `CrashAndRestart` can happen at any point and is `initChainState`.
* `DurableStore` – the abstract specification of the database: transactions that
  apply as a whole, a durable state that lags behind, and crashes back to it.
* `Ffldb` – `pkg/db/ffldb`, with files that are read, files that are on the disk for
  sure, leveldb, the cache and the write cursor.
* `SyncManager` – `pkg/chain/sync/manager.go` and what `server.go` and `peer.go` do
  at both ends of a connection.
* `Mempool` – `cmd/node/mempool/mempool.go` and `handleBlockchainNotification`.
* `KopachMiner` – `cmd/kopach/main.go` and `worker/implementation.go`.
* `KopachController` – `cmd/kopach/control/controller.go` and `job/job.go`.
* `Transport` – the kopach channel.
* `MC…` – instances for TLC; `…_proofs` – the proofs.

Definitions named "…Kept", "…RowByRow", "…ByOne" and the like, each directly before
the definition they distort and announced as "the fault" in its comment, are
plausible mistakes in that piece of code. They are used by no specification; each
property is known to fail when the fault replaces the definition it precedes.

### How BlockChain corresponds to the code

| code | model |
|---|---|
| `ProcessBlock` up to `maybeAcceptBlock` | `ProcessBlock`, `ProcessOrphanBlock` (duplicates and insane blocks change nothing) |
| `addOrphanBlock`, `removeOrphanBlock`, `oldestOrphan` | the same names; the pool is a sequence in the order of expiration, and any number of its oldest members may have expired |
| `maybeAcceptBlock` | `RejectBlock`, `StoreBlock`, `AddNode` |
| `connectBestChain`, extending | `CheckExtend` or `FastExtend`, `FlushBeforeUpdate`, `ExtendChain`, `MarkExtended` |
| `connectBestChain`, forking | `SideChain`, `ReorgInvalidBranch`, `ReorgChecked`, `ReorgRefused` |
| `reorganizeChain`, doing | `FlushBeforeUpdate`, `ReorgDetach`, `ReorgAttach`, `ReorgDone` |
| `connectBlock`, `disconnectBlock` | `ConnectTx`, `DisconnectTx` |
| `processOrphans` | `BlockAccepted`, `AcceptOrphan`, `NextHash` |
| `CheckConnectBlockTemplate` | the same name: called by the miner's goroutines whenever `ProcessBlock` gives up `chainLock` for a notification |
| `initChainState` | `CrashAndRestart`, with `Loadable` for its assertions |

Abstractions. A block is an opaque value. Its rules are sets: `Sane`
(`checkBlockSanity` and the checkpoint tests), `ContextOK` (`checkBlockContext`),
`Blacklisted`, `ScriptOK` (what `checkConnectBlock` tests besides inputs). Whether a
block is sane does depend on the height and the clock in the code; a member of
`Sane` is a block that passes whenever it arrives, and the others never enter the
state. `Version` and `HardForked` keep what `maybeAcceptBlock` and `GetLastWithAlgo`
read of the header. Outputs are what remains of transactions; a block's own
transactions spending each other cancel out. Failing reads (`db.View`), the warnings
about unknown rules that `connectBlock` may return, the optional indexes (updated in
the same transaction) and the contents of notifications are left out. `workSum` is
kept with its assignments in `initBlockNode` and `connectBestChain`, with the reset of
the tip's sum that a template causes (`NewBlockNode` assigns to its parent,
blockindex.go:99), and with its value after a restart. Of a template only this reset is
kept. Nothing else bounds the model: the block tree is finite and each
block is accepted once per life of the process.

### How Ffldb corresponds to the code

| code | model |
|---|---|
| `begin`, `Put`, `Delete`, `StoreBlock`, `Rollback`, `Commit` | the same names; one write transaction at a time, as the write lock has it |
| `writePendingAndCommit` | `WriteBlock` once per pending block, then `CommitToCache` or `NeedsFlush` |
| `writeBlock` | `WriteBlock`: the move to the next file, the opening, the write of all or of a part of the record |
| `handleRollback` | the same name, with every point at which it may give up; used by `RollbackFiles` and by `Open` |
| `commitTx`, `flush` | `SyncBlocks`, `FlushCache`, `ClearCache`, `CommitDirect`; a failure of each ends the commit, and nothing is undone |
| `dbCache.Close` | `Close` and the same three steps of `flush` |
| `openDB`, `scanBlockFiles`, `reconcileDB` | `Open` |

A record counts in units instead of bytes, and a unit remembers the block and the
part of it, so that an overwritten or cut record is seen. `needsFlush` depends on
time and size and may go either way. leveldb's transactions are atomic and durable
(external). `Crash` ends the process; with `PowerLoss` every unit of a file that is
not synced is on the disk or not. `CloseSyncs` says whether the system writes a file
out when it is closed. Read-only transactions, cursors, buckets (a partition of the
keys), the LRU of files opened for reading and the creation of the database are left
out; a crash between the creation of leveldb's files and `initDB` leaves a directory
that `openDB` refuses to create and to open.

### How SyncManager corresponds to the code

`blockHandler(p)` takes the next message of peer `p`: `handleNewPeerMsg`,
`handleDonePeerMsg`, `handleHeadersMsg`, the block handler (`UnrequestedBlock`,
`RejectedBlock`, `ProcessedBlock`), `handleInvMsg`, `handleInvTx`, `handleTxMsg`. Each
is the whole handler, `startSync`, `fetchHeaderBlocks`, `limitMap` and the messages it
sends included. `SubmitBlock` is a block of the miner or of an RPC. The remote peers
run the same program and are honest: a request puts its answer into the inbox of the
link (`SendGetData`, `PushGetBlocksMsg`, `PushGetHeadersMsg` with their duplicate
filters), in order; inboxes of different peers are drained in any order; a connection
may be lost at any time. With `SlowHandshake` a connection may end while `OnVersion`
waits for `IsCurrent`, so that `DonePeer` is queued before `NewPeer`. Of the chain the
model keeps the known blocks, the orphans and the tip, and not the work: a block that
does not extend the tip may become it or not, whatever its height (`connectBestChain`,
chain.go:982), the rules about checkpoints are applied to it or not
(`BreaksCheckpoint`, accept.go:67), and a call that fails may have accepted some of the
waiting orphans and left the tip anywhere on the way of a reorganization
(`MaybeAcceptFails`). `MaxFailures` bounds the calls in which the database fails.
Inventories of transactions are of the type `InvTypeTx`, as full nodes announce them,
or `InvTypeWitnessTx`, as the light client of `cmd/spv` does (query.go:823); `invTxs`
remembers which. Every inventory fits into one getdata message, as the
constants of the wire protocol have it. Relaying, logging, pausing and the fee
estimator are left out.

### How Mempool corresponds to the code

`PeerTx` and `SendRawTransaction` are the two callers of `ProcessTransaction`;
`PeerLeaves` evicts the peer's orphans. `processOrphans` is a loop over outputs
(`ProcessOutput`, `ProcessedOrphans`) under the lock. `ConnectBlock` and
`DisconnectBlock` change the chain and leave in `note` what
`handleBlockchainNotification` has to do: `RemoveTransaction`, `RemoveDoubleSpends`,
`RemoveOrphan`, `ProcessOrphans` for each transaction of a connected block,
`MaybeAcceptTransaction` and `DropTransaction` for each of a disconnected one, with
RPCs between any two of them. The chain does not wait for the pool's lock: a block may
be connected or disconnected while an RPC's `ProcessOrphans` holds it, and the handler's
first call waits. `reorg` says whether a reorganization detaches or attaches blocks; it
may attach fewer than it detached, and give up after any. Standardness, fees, priority
and scripts are the sets `NonStd` and `Free`: the latter may be refused or not, also
when a disconnected block gives them back.

### How the kopach modules correspond to the code

`KopachMiner`: the listener runs the handlers (`HandleJob`, `HandlePause`,
`HandleSolution`) and makes blocking calls to the workers one after the other; the
watcher does so when no job has come for three seconds. Each access to `FirstSender` and
`lastSent` is a step: the job handler checks, stores the sender (`StoreFirstSender`) and
then the time (`StoreLastSent`), the watcher looks at the time (`WatcherTick`), then at
the sender (`WatcherChecks`), and empties it (`WatcherForgets`); the watcher may tick
while the listener is in its calls (`Silence`). `dropped` is a history variable:
`FirstSender` was emptied by a solution, or under the hands of the job handler. `NewJob` has
the steps `NewJobBitses`, `NewJobHashes`, the stop signal, `NewJobPrepares`,
`NewJobStarts`, between which the mining loop (`Hash`, `Hashed`) and the other caller
may run; a signal is taken when the loop looks at its channel. Left out: the hash
reports, the roller's choice of an algorithm, and starting and stopping worker
processes.

`KopachController`: `UpdateAndSendTemplate(g)` for the rebroadcaster and for the
notifier, on the same fields: `Clear`, `GetTemplate` or `NoTemplate` (its error, after
which there are no coinbases), `GetHeight` (`BestSnapshot` in `job.Get`), one
`FillCoinbase` per algorithm, `StoreJob`, `SendJob`, `Updated`. The solution handler has
the steps `HandleSolution`, `FindCoinbase`, `ProcessBlock`, `Accepted`. The chain is a
tree of blocks: `AcceptBlock` puts a block on any known one, which must become the tip
only if it extends it, and then `DisconnectBlock` and `ConnectBlock` move the tip, block
by block with a notification after each connected one, until it is there or the chain
gives up. What the runtime or the code answers with a panic ends in `Crash`: two
goroutines in the map of coinbases at a time, a template with transactions, a tick
without a first template. What the code does and does not say: `c.pauseShards` is never
assigned, so pauses carry nothing; the comparison of `lastTxUpdate` with a `time.Time`
is always true; the extra nonce is always 0, so that equal inputs give equal merkle
roots. Left out: the targets, for which `job.Get` reads `BestChain.Tip` (job.go:58)
beside the snapshot (they decide only whether `ProcessBlock` takes the block, which it
may refuse here anyway), the error return at job.go:76-77, as the
calculation of the targets never returns an error, the log lines of the handler (controller.go:257-271), advertisements and
the hash-rate report.

### How Transport corresponds to the code

`SendMany(m)` puts the next shard of `m` on the wire. It either arrives (`Arrive`,
one turn of `Handle`'s loop, in one of its three branches `NewBuffer`, `Collect`,
`Supersede`) or is lost (`Lose`, which also stands for a packet without handler).
Packets of one goroutine stay in order: `Before[m]` are the messages sent completely
before `m`. Packets of different senders interleave freely. The Reed-Solomon code is
external: three distinct shards decode. Networks that duplicate packets are not
modelled: two copies of one shard would count as two of the three, and what
`infectious` returns for them is not pod's code.

## 3. Runs

| run | instance | shows |
|---|---|---|
| `fork` | branches g–a1–a2–a3 and g–b1–b2 with one transaction in both; crashes and failing writes everywhere; orphan limit 2 | `CrashLoadable`, `StoreDescribesOneChain`, `UnsavedIsDirty`, `AcceptedIsTip`, and that `BlockChain` implements `BestChain` |
| `bad` | a branch with an invalid block under three others, two ways to outweigh the main chain, a fast-added block with a missing input; orphan limit 1 | `TypeOK`, `StatusSound`, `OrphanPoolBounded` |
| `live` | the blocks of `fork`, no crashes, no failing writes, weak fairness | `ProcessBlockReturns`, `ReorgCompletes` |
| `store` | two blocks of two units, files of three units, two files, one other key, two pending blocks, two failing writes or crashes with power loss | `TypeOK`, `RowsReadable`, `AlwaysOpens`, and that `Ffldb` implements `DurableStore` |
| `sync` | a chain of four blocks with checkpoints at 1 and 3, messages of one item, two peers of which one is a block behind, two connections each | `RequestsCovered`, `OwedIsListed`, `HeadersFetched`, `SyncProgress` |
| `peers` | two peers on competing branches, one in conflict with a checkpoint, a tip that may go down, request maps of two entries, one failing call, submitted blocks, one transaction announced with either type of inventory, slow handshakes | `TypeOK`, `HeadersFirstSafe`, `RequestsCovered`, `RejectedNotRequested` |
| `mempool` | six transactions with double spends and a chain of three, two of which the rules may reject, blocks of up to two of them, six blocks connected, orphan limit 2, expiry, one peer | `TypeOK`, `SpendsIndexed`, `OrphansIndexed`, `OrphansLimited`, `PoolMinable`, `NoOrphanLeft`, `OrphansNoConflict` |
| `miner` | two workers, two controllers with three jobs, one of them incomplete, one solution, one silence, both controllers may crash | `TypeOK`, `LastJobMined`, `PausedWhenSilent`, `CallsReturn` |
| `controller` | one address, two algorithms, two blocks in a chain or as siblings, by the miner or others, lost messages, failing templates, transactions in the pool | `TypeOK`, `CoinbasesComplete`, `JobsConverge` |
| `transport` | one message before two interleaved ones and one without handler, 9 shards of which 3 restore, every loss | `TypeOK`, `DeliveryNeedsShards`, `AloneExactlyOnce` |

The bounds. `fork` has the smallest tree in which the chain reorganizes and
reorganizes back, with both lists longer than one, so that a crash can fall between
two disconnects and between two connects; a shared transaction makes an output exist
on both branches. `bad` has an invalid block with an already known child and an
unknown one, which is what `getReorganizeNodes` distinguishes, and a pool that is
full with one orphan. `store` has a file that the second block does not fit in, so
that writes, rollbacks and reconciling cross from one file to the next, and two
faults, so that one can hit the handling of the other; the proofs cover any number.
`sync` cuts every message at one item, so that each limit is met at each step, has a
checkpoint in the middle and one before the end, and blocks after it that come by
inventory. `peers` has request maps that overflow, a branch that the checkpoint
forbids and that may become the main chain, and one database error, which may fall
between two blocks of a reorganization. `mempool` has a double spend of a coin, another by
two orphans, and one of an output in the pool; orphans of orphans; and a full orphan
pool. `miner` has two workers, so that the calls of listener and watcher overlap at
different workers. `controller` has two blocks: as a chain they are two notifications
for the updaters to interleave at, as siblings a reorganization to the same height, and
two algorithms are enough to interleave two updaters in the map of coinbases; the proof
of `CoinbasesComplete` is for any chain. `transport`
uses the code's own 9 and 3. Deadlock is checked in `fork` and `bad` (a node can
always take a block or restart); in the others the instance may simply be exhausted:
all blocks stored, all shards sent, all connections used up.

With these bounds TLC finds 28924 states for `sync`, 820251 for `peers`, 334563 for
`mempool`, 212379 for `miner` and 383460 for `controller`.

`mempool` keeps away from what breaks `PoolMinable` or `NoOrphanLeft` and is described
below. For `PoolMinable` that is one thing, which `ChainedUnspent` excludes (an `ASSUME`
of `MCMempool`): a transaction that spends an output of one that was mined in one block
with its parent. For `NoOrphanLeft` it is two orphans that wait for the same output and
of which the first is refused, and a confirmed transaction with no unspent output that
is sent again and becomes an orphan, whose inputs a disconnected block gives back. A
third, orphans kept out by a transaction that does not come back from a disconnected
block, is in the instance and excepted by the property (`KeptOut`).

Fairness. `live`: `WF_vars(Step)`, that a call in progress takes its next step; the
goroutine runs under the chain lock, waits for nobody but the database, and its
notifications are plain function calls. `sync`: the handler's goroutine takes a
message that is waiting; nothing makes a peer connect, leave or announce anything.
`miner`: the goroutines run, the watcher ticks, a hash is finished, and time passes
when no controller is left (weak); a sender that waits on a channel which the loop
looks at again and again is served (strong, as Go's select chooses among ready cases
at random). `controller`: the goroutines and tickers run, a miner that mines finds a
solution, and the node is current again and again (weak); as the rebroadcaster ticks for
ever, a minute passes between two templates, not every repeated job is lost and not every
template fails (strong: each may fail to happen at a given tick, and is assumed not to
fail at all of them). No other run assumes any.

### Where the code and its comments disagree

Two runs end in a counterexample, which `PROJECT.json` describes with the quoted
comment.

| run | statement that fails |
|---|---|
| `mostwork` | the chain with the most cumulative work is the main chain |
| `unsynced` | the metadata names no block that is not written: a full file is closed without a sync, and on a system that does not write it out then, a power loss takes blocks the flushed metadata refers to (`CloseSyncs = FALSE`, else as `store`) |

Other disagreements met while modelling. The models behave as the code does, and the
properties are stated so as not to hide them.

* `connectBestChain` returns true for a block whose branch was just found invalid
  (chain.go:1015; the comment at 898 says it returns whether the block ended up on the
  main chain). `AcceptedIsTip` allows exactly this case.
* The orphan pool may hold `maxOrphanBlocks` + 1 blocks (chain.go:240): `oldestOrphan`
  may point to an orphan that was accepted. `OrphanPoolBounded` shows it is no more.
* `processOrphans` stops at the first refused orphan and leaves its siblings behind
  (process.go:246), and gives orphans the flags of the block they waited for, `BFFastAdd`
  included (process.go:245).
* `maybeAcceptBlock` calls `checkBlockContext` only for a block whose algorithm differs
  from its parent's and occurs among its ancestors (accept.go:67). With the comparison of
  `mostwork`, the chain may leave a checkpoint it has passed, and headers-first mode then
  begins again while blocks that inventories announced are still owed: where branches
  leave out checkpoints `OwedIsListed` and `HeadersFetched` do not hold.
* A template sets the work sum of the tip back to its own work (validate.go:379,
  blockindex.go:99), as a new block on it does.
* `handleInvMsg` tests `rejectedTxns` only for the type `InvTypeTx` (manager.go:905-909),
  and asks for a rejected transaction that is announced as `InvTypeWitnessTx`
  (manager.go:888, 979-986). `handleTxMsg` drops the answer before it cleans the request
  maps (manager.go:1049-1055), where the transaction stays until its peer goes, so that
  nobody else is asked for it. `RejectedNotRequested` shows that this happens after such
  an inventory only.
* A shard of a decoded message deletes the buffers of all others (channels.go:319-324):
  interleaved messages are lost or handled twice. `AloneExactlyOnce` is about messages
  that share the channel with no other.
* Synchronisation stops on a side chain that needs more than one inventory, as the
  request for more equals the one before and is dropped as a duplicate
  (manager.go:945); a block the database failed to store is not asked for again
  (manager.go:518); `startSync` empties the manager's request map and not the peers',
  so that a block may be asked for twice and the honest peer is disconnected for the
  second copy (manager.go:1235); in inventory mode a block owed by a peer that leaves is
  asked for only when the next inventory comes (the TODO at manager.go:721).
* A peer whose handshake times out while `OnVersion` waits is reported gone before it is
  reported there and stays in `peerStates` (server.go:864).
* A transaction of a disconnected block whose parent is not reinserted is an orphan to
  `MaybeAcceptTransaction`, which returns no error, so it is neither accepted nor removed
  with what depends on it (manager.go:686, against the comment at 688). For example the
  block <t1, t3>, t3 spending t1, is disconnected, and an RPC puts a double spend of t1
  into the pool before the handler runs: t1 is dropped, t3 is an "orphan", and what
  spends t3 stays. `processOrphans` of the pool tries no other
  orphan of an output after a refused one (mempool.go:879); a late transaction of a
  peer that left becomes an orphan of it again (server.go:867). An orphan that conflicts
  with a transaction of a disconnected block which does not return to the pool, because a
  rule rejects it now, could be accepted, and nothing looks for it (manager.go:680-690).
* A solution makes the miner forget its controller, and the watcher then takes the
  workers for paused (main.go:343); a repeated job does not restart a paused worker
  (implementation.go:283). The watcher may find the last job too old, or tick during
  calls of `NewJob` that take more than three seconds, and empty `FirstSender` after the
  job handler has stored it (main.go:176-181, 276-283): the workers then mine with no
  sender, and if no other job comes nobody pauses them. `PausedWhenSilent` excepts these
  two cases, until the next job, and no other.
* Nothing locks `UpdateAndSendTemplate`, whose comment says "First to arrive locks out
  any others" (controller.go:487-497): job, coinbases and parent may be of different
  templates for a while, the coinbases of different algorithms too, and two goroutines in
  the map of coinbases are a fatal error of the runtime (job.go:103-116).
  `CoinbasesComplete` and `JobsConverge` show that short of that error this does not last.
* A block that replaces the tip by one of the same height gives the job the merkle root
  of the one before it, and the worker goes on with the old parent
  (implementation.go:283) until the chain grows; its solutions are dropped as stale.
  `JobsConverge` therefore speaks of the height of the job's parent only.
* If the first template fails (controller.go:332-336), the rebroadcaster panics at its
  first tick (controller.go:426). A later one that fails leaves no coinbases, and
  solutions of the job that is still rebroadcast are dropped, until a minute has passed or
  the tip has changed (controller.go:505, 526-528). After a crash nothing is claimed.
* `job.Get` assigns to the elements of an empty slice and panics on a template with
  transactions beside the coinbase (job.go:94).

## 4. Proofs

The theorems hold for every value of the constants: any block tree, orphan limit,
messages and shards, peers, transactions, workers, file sizes, any mixture of crashes
and failing writes. They assume what the modules' `ASSUME`s say and nothing else, but
for those of `Ffldb_proofs` and four others, whose hypotheses are in their statement
and explained below:

* `PathAssumption` (of `BlockTree` and of `SyncManager`) – hash links form a tree
  rooted in the genesis block;
* `WorkAssumption` – the work of a block is a positive integer (`CalcWork`);
* `OutputAssumption` – no chain creates an output twice or creates one it spent
  before (BIP0030 and BIP0034 checks), and the genesis block has no effect;
* `ChainAssumption` – the limit is positive, and the genesis block is not delivered
  as a new block (it is always in the index);
* `TransportAssumption` – 2 ≤ Required ≤ Total;
* `SyncAssumption`, `MempoolAssumption`, `MinerAssumption`, `ControllerAssumption` –
  the types of the constants, and that nil is none of the values;
* `OutputsAssumption` – an output belongs to one transaction, and none that
  `CheckTransactionSanity` lets pass is without inputs;
* `FfldbAssumption` – types, and that a record fits into a file; the theorems add
  `PowerLoss => CloseSyncs`, without which `unsynced` refutes them.

`BlockChain_proofs`. The inductive invariant `IInv` is

    TypeOK /\ IndexInv /\ StoreInv /\ StatusSound /\ CallInv /\ AcceptedIsTip

* `IndexInv`: the index and the rows are closed under ancestors, every node has its
  bytes, unsaved nodes are dirty. Needed for `CrashLoadable`: a flush writes all
  dirty nodes in one transaction, so a row never precedes its parent's.
* `StoreInv`: the stored chain is one valid chain whose tip has a row. Validity is
  needed to undo a block: taking back a block restores the utxo set only if the
  block's inputs were there (`UtxoDisconnect` in `BlockTree_proofs`).
* `CallInv`: what is known at each `pc`. While a reorganize runs, the two lists
  lead from the current tip to the block at hand over their fork point
  (`ReorgLists`) and the whole new chain is valid; each detach and attach moves
  along it. This is why a crash or an error half way is harmless.
* `StatusSound` carries itself: the check phase runs against a scratch view, and
  that view is shown to be the utxo set at the end of each attached block's parent.

Steps are sorted by what they touch: `NodeStep` (index, statuses and rows),
`StoreStep` (best state, utxo set, journal, tip), the call variables, the pool. One
lemma per kind says what such a step preserves, one says that every action is such
a step. From `IInv`: `TypeCorrect`, `OneChainStored`, `AlwaysLoadable`,
`MarksAreSound`, `NoStatusLost`, `MainChainReported`; `PoolBounded` has a small
invariant of its own; `Refinement` uses that a store step is a `BestChain` step.

`Ffldb_proofs`. `Inv` is `TypeOK` with `TxInv` (what the transaction holds at each
step), `CursorInv` (leveldb's cursor is at most the cached one, which is at most the
one in memory, and the files reach to it), `FilesInv` (leveldb, the view and the
transaction are each backed: the records their rows name are in the files, below
their own cursor) and, if there is power loss, `SyncedInv`: what leveldb names is
synced, what the cache and the transaction name is synced but for the open file, and
between the sync and the write of a flush all of it is. It is needed because a rollback may stop anywhere:
not the absence of garbage is invariant, only that it lies above the cursor, where
later blocks overwrite it and `Open` cuts it off. From it follow `RowsStayReadable`
and `DatabaseAlwaysOpens`; `ImplementsDurableStore` maps each step to one of
`DurableStore`, with the contents of the readable blocks.

`SyncManager_proofs`. `TypeOK`, `HeadersFirstSafe` and `RequestsCovered` are inductive
together with `NewPeersNew`: a peer whose `NewPeer` is queued has no state yet. Nothing is assumed about the messages but the Go
types of their contents, so the theorems hold for dishonest peers too. One lemma each
says what `startSync`, `limitMap` and the handlers preserve.

`SyncOwedIsListed` and `SyncHeadersFetched` are about a headers-first download and rest
on `HeaderInv`, that is

    ChainInv /\ ListInv /\ Waiting /\ Fetching

* `ChainInv`: the known blocks are closed under ancestors and contain the tip.
* `ListInv`: each header of the list follows the one before it (`Linked`), so that no
  header is in it twice and startHeader has one place.
* `Waiting`: out of headers-first mode, as long as a checkpoint is ahead of the tip,
  there is no sync peer, nobody owes a block and the list is as `New` or
  `resetHeaderState` left it. It is needed because `startSync` turns the mode on
  without looking at any of this; it holds because `handleInvMsg` takes no inventory
  from a peer that is not the sync peer before the chain is current.
* `Fetching`: in the mode nobody but the sync peer owes a block, and the list is at a
  place `k` (`Downloads`): startHeader is its k-th entry or nil at the end, what is owed
  lies before it, everything before it is there or owed unless a block was refused,
  and until the headers reach the checkpoint the first entry, which `handleHeadersMsg`
  is going to drop, is neither startHeader nor owed.

One lemma each says that starting a download, a block that arrives, the pop of the
first header, headers that are appended, the drop of the first one, a getdata cut after
`MaxInvPerMsg` blocks (`FetchCovers`) and the change to the next checkpoint keep
`Downloads`. Both theorems have the hypothesis `CheckpointsPassed`, that no branch leaves
a checkpoint out. The code keeps a chain from doing so for some blocks only
(accept.go:67), and a lower block may become the tip (chain.go:982): then `Waiting` fails,
as a chain that had passed the last checkpoint, and asked peers for blocks, is behind it
again; and a block of such a branch is downloaded, refused, and gone from the list without
being there. Under the hypothesis every block above a checkpoint has it below, and no tip
a failed or finished reorganization leaves is under a checkpoint the tip before had
passed (`KeepsCheckpoints`). `MCSyncManager` has the hypothesis as an `ASSUME` for the
instance of `sync`.

`Mempool_proofs`. `SpendsIndexed`, `OrphansIndexed` and `OrphansLimited` with
`NoteInv` on what the notification handler has left. Lemmas say what removing sets of
transactions closed under redeemers, adding one, and adding an orphan do to the two
indexes. On top of this invariant:

* `MempoolNoConflict` and `MempoolPoolMinable` rest on `ChainValid` (the chain spends
  nothing twice), `NoteBlock` (what the handler has left is the end of the block that
  was connected last or disconnected) and `PoolInv`: what is wrong with the pool in the
  middle of a notification is wrong with transactions the handler has still to look at.
  `MempoolPoolMinable` has the hypothesis `ChainedUnspent`; the example above refutes
  the statement without it.
* `MempoolOrphansNoConflict` rests on `ConflictInv`: while `ProcessOrphans` runs, an
  orphan conflicts only with what the call has accepted, and the call ends by removing
  those orphans. No hypothesis.
* `MempoolNoOrphanLeft` rests on `LookedInv`: an orphan whose inputs are all there
  spends an output that is still to be looked at, by the running `ProcessOrphans` or by
  the ones to come for the rest of the connected block. It is proved for behaviours
  that disconnect no block, as `MaybeAcceptTransaction` looks at no orphan, and under
  `OneRedeemer`, that no two transactions spend the same output of a third, as
  `processOrphans` leaves an output after the first refusal (mempool.go:879). Coins may
  be spent twice, orphans refused, evicted or expired. The exception `KeptOut` is not
  needed there. The run shows the property, with the exception, for an instance with
  disconnected blocks and with two redeemers too.

`KopachMiner_proofs`. `Inv` adds to the types that calls are well formed, and for each
worker where `NewJob` is and which of the four places already hold the new job
(`WorkerInv`); the loop is stopped in between, so nothing stores an old header over it.

The steps of the watcher and the job handler between their atomic accesses change no
worker.

`KopachController_proofs`. `Inv` follows a job from the template through the updater's
local variables, the shared fields, the network and the miner back to the solution
handler: its parent is a block of the index (`TypeOK`, `LocalTypes`), which is closed
under parents (`Closed`). `FillInv` is what makes `CoinbasesComplete` inductive: unless
an update has failed, an algorithm without a coinbase is one that a running update has
still to fill in. It holds because an updater throws the coinbases away before it begins
to fill them in, and so before it has filled in any. `ControllerTypeCorrect` and
`CoinbasesAreComplete` follow, for any tree of blocks, addresses and algorithms.

`Transport_proofs`. `Inv` adds to the type invariant that no more shards are held
than received nor received than sent, and `AloneEntry`: while a message that shares
the channel with no other is being sent, its entry holds all its shards or is
decoded. An entry is dropped only by a shard of a different message, which is not in
flight at the time. `DeliveriesPaid` and `AloneDelivered` follow.

Every invariant and every refinement of a passing run but `RejectedNotRequested` is
stated by a theorem. Only model-checked are that one, the liveness properties (`ProcessBlockReturns`, `ReorgCompletes`,
`SyncProgress`, `CallsReturn`, `PausedWhenSilent`, `JobsConverge`), as fairness and
`ENABLED` are outside the prover, and the two statements that fail.

## 5. Not modelled

* Read-only transactions of ffldb. `Snapshot` (dbcache.go:364) reads leveldb and then
  the cache; a flush in between would hide rows from a reader.
* Queues, pings and stall detection of peers, the connection manager's retries and
  the address manager: to the sync manager they are peers that may connect, send and be
  lost at any time, which is what its model allows.
* Starting and stopping the miner's worker processes, hash reports, advertisements.
* The deployment state machine, the fee estimator, the optional indexes and block
  templates: sequential computations over state that is modelled, with no actors of
  their own.
* Script execution, wire formats and encodings (no state between calls), difficulty
  arithmetic (floating point and big numbers), the wallet and the SPV client (separate
  programs in the same repository), GUI, explorer, configuration and start-up code, and
  the `legacy` directory, which is the former C++ client. By lines these are most of the
  repository: fonts, GUI, generated tables, the wallet, the clients of the RPC
  interface, and forks of libraries.
