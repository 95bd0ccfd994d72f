# A TLA+ verification of the Unitus node

Unitus is a Bitcoin Core 0.14.2 derivative with several proof-of-work algorithms
and merged mining. This directory holds TLA+ models of parts of its node
(`src/src`), TLC configurations that check them on small instances, and proofs
checked by TLAPS that hold for every instance. `PROJECT.json` lists components,
runs, hazards, findings and theorems, and maps every definition to the lines it
models.

## 1. The system

A node keeps a tree of block headers, stores the blocks it received, keeps one
branch *active*, and keeps the set of unspent coins at the end of that branch.

| part | state | operations | who calls it |
|---|---|---|---|
| block index, chain activation (`validation.cpp`, `chain.*`) | `mapBlockIndex`, `nStatus`, `nChainTx`, `nSequenceId`, `setBlockIndexCandidates`, `mapBlocksUnlinked`, `chainActive` | `ProcessNewBlockHeaders`, `ProcessNewBlock`, `ActivateBestChain`, `InvalidateBlock`, `ResetBlockFailureFlags`, `PreciousBlock`, pruning | message handler, RPC workers, import thread; all under `cs_main`, which `ActivateBestChain` releases between two steps |
| script checks (`checkqueue.h`) | queue, `nTodo`, `nIdle`, `nTotal`, `fAllOk` | `Add`, `Wait`, `Loop` | `ConnectBlock` as master, `-par` worker threads |
| coins (`coins.*`, `txdb.*`) | chainstate database, `pcoinsTip`, one view per block | `FetchCoins`, `ModifyCoins`, `ModifyNewCoins`, `BatchWrite`, `Flush`, `Uncache` | `ConnectTip`, `DisconnectTip`, mempool acceptance, `FlushStateToDisk` |
| undo data, `ConnectBlock`, `DisconnectBlock` | block and undo files | `UpdateCoins`, `ApplyTxInUndo` | chain activation |
| flushing and start-up | dirty index entries, file infos, block files | `FlushStateToDisk`, `FindFilesToPrune`, `LoadBlockIndexDB` | everything above, restart after a crash |
| header rules (`pow.cpp`, `chain.cpp`, `bignum.h`, `versionbits.*`) | the branch below a header; the version-bits cache | retarget per algorithm, same-algorithm limit, median time, work of a block, deployments | `AcceptBlockHeader`, `AddToBlockIndex`, `CreateNewBlock` |
| memory pool (`txmempool.*`) | entries, links, totals, `mapNextTx` | add, remove, trim, reorganisation | message handler, RPC, chain activation |
| message processing (`net_processing.cpp`) | blocks in flight, orphans, per-peer state | one handler per message, timeouts | message handler thread |
| connections, address manager (`net.*`, `addrman.*`) | queues per peer, address tables | socket loop, `PushMessage` | network threads |
| scheduler, HTTP server, shutdown (`scheduler.*`, `httpserver.cpp`, `init.cpp`) | task queue, work queue, worker counts | `serviceQueue`, `stop`; `Enqueue`, `Run`, `Interrupt`, `WaitExit`; `Interrupt`, `Shutdown` | main thread, event thread, workers, scheduler thread |
| wallet | keys, key pool, transactions | reserve, keep, return; `AddToWallet` | RPC, validation signals |

How they interact: a block arrives (`ProcessNewBlock`), enters the index and the
candidate set; `ActivateBestChain` picks the best candidate and disconnects and
connects blocks one at a time. Connecting applies the block's transactions to a
fresh view over `pcoinsTip`, with the script checks handed to the queue; when all
is good the view is flushed into `pcoinsTip`, otherwise dropped and the block
marked invalid. `FlushStateToDisk` writes `pcoinsTip` out now and then.

What is hard here: threads that resume with a target chosen before `cs_main` was
released; blocks whose data arrives before that of their ancestors; manual
invalidation crossing both; flags in a cache that are decided from one layer and
believed several blocks later; wake-ups that may be lost; a crash at any point.
`PROJECT.json` ("hazards") lists them at their source lines, including those of
the parts that are not modelled.

## 2. Modules

| module | models |
|---|---|
| `CheckQueue` | `checkqueue.h` and the way `ConnectBlock` drives it |
| `CheckQueueProofs` | its inductive invariant and theorems |
| `BlockTree` | the block index and chain activation of `validation.cpp` |
| `MCBlockTree` | four small block trees for TLC |
| `BlockTreeProofs` | its inductive invariant, linking, failures, sort keys and the work of the tip; candidates, waiting blocks and the best chain |
| `CoinsCache` | the coin database with `pcoinsTip` and a block's view |
| `CoinsMap` | what that stack promises: one map with atomic blocks and recovery |
| `CoinsCacheProofs` | invariant, theorems, refinement of `CoinsMap` |
| `BlockUndo` | `UpdateCoins`, the undo records and `DisconnectBlock` on the contents of coins |
| `BlockUndoProofs` | disconnecting is the inverse of connecting: its inductive invariant and theorems |
| `FlushState` | block files, block index and chainstate: writing, pruning, crash and start |
| `FlushStateProofs` | the invariant of index, files and chainstate, and the theorems on start-up, block data, undo data and pruning |
| `Mempool` | the memory pool with acceptance, blocks coming and going, and a restart |
| `BlockDownload` | block download in `net_processing.cpp` |
| `ChainWork` | the work of a block: decay, geometric mean, integer root (operators) |
| `HeaderRules` | what a header must obey, and block templates |
| `VersionBits` | the state of a deployment on a branch, with its cache |
| `HeaderRulesProofs` | median times, sliding majorities and deployments: invariant and theorems |
| `Scheduler` | `CScheduler` |
| `WorkQueue` | the HTTP event thread, work queue and workers |
| `Shutdown` | the main thread of the daemon, composing `Scheduler` and `WorkQueue` |
| `ShutdownProofs` | the invariant of the three, and theorems |
| `MCCoinsCache`, `MCBlockUndo`, `MCFlushState`, `MCMempool`, `MCBlockDownload`, `MCHeaderRules`, `MCShutdown` | TLC instances |

Mutants ("slips" in some comments) are variants of the operator that follows them, with a plausible mistake
in it. No specification uses them; they serve to show that each property would
notice the mistake ("mutants" in `PROJECT.json` pairs them).

### CheckQueue

An action is the code between two points where a thread does not hold
`CCheckQueue::mutex`. A worker runs `Loop`: enter, sleep on `condWorker`, take a
batch from the back, run its checks outside the mutex, come back with `nTodo` and
`fAllOk` updated. The master constructs a control object (with its assertion that
the queue is idle), calls `Add`, and `Wait`s by joining the pool. Spurious
wake-ups, interruption of workers at their wait (`thread_interrupted` at
shutdown) and `ConnectBlock`'s early returns, in which the destructor of the
control object waits, are all actions. Checks are numbered in push order; each
may succeed or fail. An interruption of the master inside the destructor
(which would terminate the process) is out of the model.

### BlockTree

The tree of blocks that exist is a constant, with the work of each and the sets
of blocks that fail `ContextualCheckBlock` or `ConnectBlock`; what the node knows
of it is state. `nStatus` is a set of flags, `nChainTx != 0` is membership in
`linked`, `mapBlocksUnlinked` is a set of pairs, `chainActive` is its tip. For each
thread in `ActivateBestChain` the local `pindexMostWork` is a variable, since it
survives the release of `cs_main`. `csMain` is held between `ChooseTarget` and
`ActivateBestChainStep`. A step has three outcomes: a block cannot be undone
(`StepCannotDisconnect`), the target is below the tip (`StepBack`), or blocks are
connected until the tip improved, a block fails or cannot be read
(`StepForward`). `health` separates the ordinary run from one where a chain could
not be undone and from `AbortNode`; most properties are about the ordinary run.
The RPCs `invalidateblock`, `reconsiderblock` and `preciousblock` are one action each.

Abstractions: pruning works on files of one block and not in the middle of a step;
duplicates in the multimap `mapBlocksUnlinked` and the order of siblings in it are
left open; headers that `AcceptBlockHeader` refuses are not in the tree; genesis is
never invalidated; `nBlockReverseSequenceId` does not reach its minimum.

### CoinsCache

A cache is its set of keys, their coins and the sets of keys that are DIRTY and
FRESH, with `hashBlock`. A modifier leaves an arbitrary coin value behind, so
spending, restoring and clearing outputs are all `ModifyCoins(t, c)`; creating
outputs is `ModifyNewCoins`, guarded by the BIP30 test that `ConnectBlock` always
makes in Unitus. A read through the view fills both caches, as `FetchCoins` does.
`FlushView` is `SetBestBlock` and `Flush`, the last things done with a good block.
`FlushTip` writes one leveldb batch, which is assumed atomic. `Crash` loses both
caches. Memory accounting (`cachedCoinsUsage`) and the `hasModifier` assertion are
left out: modifiers live for one statement each.

`CoinsMap` knows no caches: `main`, `work` and `durable` are maps with a best block;
a block is committed or abandoned as a whole and a restart goes back to `durable`.

### BlockUndo

A coin is its flag, height, version and unspent outputs. Connecting applies the
transactions of a block in order and writes undo records; the metadata of a
transaction is only in the record that spends its last output, so disconnecting
must go through the records in the exact reverse order. A block connected a second
time keeps its first undo data. Encoding a negative version loses its sign, which
the model keeps (`Encoded`), and a reload of the chainstate may come at any point.
The loops are recursive functions over the positions of a sequence, so that they
can be reasoned about.

### FlushState

Files are sequences of blocks with a committed prefix; the index, the file infos and
the chainstate each have a durable copy. `FlushStateToDisk` is one action per write,
so a crash falls between any two. `AcceptBlock`, `ConnectTip` and `DisconnectTip`
change memory, `FindFilesToPrune` and `PruneOneBlockFile` remove files, a start runs
`LoadBlockIndexDB`. A crash may lose the uncommitted part of a block file, and may
bring back an earlier chainstate, since its batches are not synchronous. Which
files may lose data is the constant `LostKinds`; the run has block files only (see
Observations).

### Mempool

Entries have links and running totals as in `CTxMemPool`; the actions are
acceptance (limits, conflicts, replacement, trimming), fee deltas, expiry, connecting
and disconnecting a block, the end of a reorganisation (`removeForReorg`,
`LimitMempoolSize`) and a save and load of the pool. Heights stand for height and
time locks. The rolling minimum fee is left out since it has no effect (see
Observations); scripts and standardness are constants of the transactions.

### BlockDownload

One thread handles the peers in turn; what a handler does between two holds of
`cs_main` is an action, as are the removal of a peer by the socket thread and a
submitted block. `asked` holds the requests a peer has not answered and that are
still of interest, so a block nobody is going to send can be told from one on its
way. Time is counted in ticks; a tick passes only when the responsive peers have
answered what they were asked for. The loops of `FindNextBlocksToDownload`, of the
direct fetch and of marking blocks are recursive functions over the positions of a
sequence. Simplifications: blocks are valid but a
body sent for one may fail, which costs the sender its connection (no ban scores,
whitelisting or `mapBlockSource`); every block is one unit of work;
`nBlocksInFlight` equals `nBlocksInFlightValidHeaders`; no witness conditions; no
orphan transactions.

### HeaderRules, ChainWork, VersionBits

The rules look only at the ancestors of a header and at the clock, so the state is
one branch. Headers arrive with any algorithm, version, time step and target of
small sets, and those that `AcceptBlockHeader` accepts are added with their work.
`ChainWork` and `VersionBits` are operators on the branch, read off the loops in
`chain.cpp`, `bignum.h` and `versionbits.cpp`; the heights at which a rule changes
are constants, placed inside the reach of the instance. `Compact` is what a target
is after `GetCompact` and `SetCompact`; the median time is the value that the sort in
`GetMedianTimePast` puts in the middle, described by the numbers of times below and not
above it. Hashes meet their targets, checkpoints and
duplicates are in `BlockTree`, the auxiliary proof of work is not modelled, and the
legacy-block rule is left out because neither the main nor the test network has such
blocks.

### Scheduler, WorkQueue, Shutdown

A thread in `serviceQueue` is ready, asleep (with or without a time), back from its
wait, or in a task; `notify_one` may wake any sleeper. An interrupted thread leaves
by the exception at its next wait. Notifying after the mutex is released is joined
with the region before it, which the wake-ups for no reason make up for. A worker
has not counted itself yet, waits, handles a request, or leaves; commands that wait
for a block first look and then sleep. `Shutdown` adds the main thread, one stage
per call of `Interrupt` and `Shutdown`. What a thread does to the work queue after
it was freed is undefined; it is recorded in `misuse` and the thread is followed no
further. Only a start that succeeded is modelled: a failed one omits `join_all` on
purpose.

## 3. Runs

TLC checks every run for deadlock but those of `BlockTree`, `BlockUndo`, `FlushState`
and `Shutdown`: there the bounds are used up, or the program has ended, and
nothing is left to do.

| run | instance | shows |
|---|---|---|
| `check_queue` | 2 workers, batches of 2, up to 4 checks, one of them failing | `Wait`'s result, idle at the next block, data outlives the checks, `Wait` returns |
| `coins_cache` | 2 transactions, 2 unspent values, 2 hashes | refinement of `CoinsMap` |
| `block_tree_network` | 9 blocks, a branch of four, a branch of three whose heavy last block fails to connect, one block bad in context, 2 prunings | waiting blocks, failures explained, best chain active at rest, work lost only to invalid blocks |
| `block_tree_manual` | branches that part above genesis, one block failing to connect, 3 RPC calls | candidate set exact at rest, invalidations undone |
| `block_tree_threads` | 2 threads, two branches of three, one with a block that fails to connect in its middle | linking exact, stable sort keys, every activation returns |
| `block_undo` | chains of up to 5 blocks, 2 disconnections, 7 transactions that share coins, two unspendable outputs, negative versions | disconnecting is the inverse of connecting; unspent is created minus spent |
| `flush_state` | a chain of three, two files of 4 units, one crash, one disconnection | the node starts again, index entries find their data, recent blocks are kept |
| `mempool` | 7 transactions, 13 blocks, pool of 5 units, 2 disconnections | links and totals exact, inputs available, pool minable, restart |
| `block_download` | 2 peers (one answers, one may do anything), a window of 2, a fork | in-flight lists and counters agree within the limit per peer, a block in flight was asked for, disconnections deserved, the node catches up |
| `header_rules` | up to 6 headers, 2 algorithms, 3 versions, times that go back, all rule changes inside the branch | retarget per algorithm, versions, work, root, templates, deployments |
| `shutdown` | the daemon with one scheduler thread, 2 workers, a queue of one, a waiting and a stop command; two scheduler threads with 2 tasks stopped in three ways | nothing runs on freed state, no request lost or answered twice, drain complete, shutdown ends |

The type invariant of a module is part of its first structural property
(`LinkedIffAncestorsProcessed`, `CoinsAreThoseOfTheChain`, `EntryFindsItsBlock`,
`CheckHolds`, `FlightMatchesQueues`, `WorkGrows`, `NothingRunsOnFreedState`); those of
`CheckQueue` and `CoinsCache` are proved, with the lemmas on counters and flags that the
runs do not repeat, and that of `BlockTree` is proved too.

One run is expected to be violated, a disagreement between the code and its
comment that "findings" in `PROJECT.json` quotes:

| run | what happens |
|---|---|
| `stale_target` | of two threads in `ActivateBestChain`, one goes on to its old target after the other activated a better chain, and returns success below the best chain |

Where a property is checked matters; four behaviours of the code limit it.

- `reconsiderblock` on a block above the invalidated one also leaves other
  children of the cleared blocks marked `BLOCK_FAILED_CHILD` with nothing failed
  below them. The history variable `fReconsiderAbove` records that this happened;
  `QuietCandidatesExact` and `ManualOpsUndone` speak of the runs where it did not.
- `ReceivedBlockTransactions` does not queue a block whose parent is failed
  (line 2845). If the parent itself waits for an ancestor and is reconsidered
  later, the block is never linked. `ManualOpsUndone` is therefore about linked
  blocks, and `LinkedIffAncestorsProcessed` is checked without RPC calls.
- `PruneOneBlockFile` forgets a pruned block that waits (line 3497), so with
  pruning a block can have all its ancestors processed and not be linked.
  `LinkedIffAncestorsProcessed` is therefore checked without pruning.
- While a failed reorganisation deeper than `MIN_BLOCKS_TO_KEEP` is between two
  steps, pruning can take the data of the branch the node must return to. With
  the real constant (288) that is out of reach; the instance keeps two blocks, as
  deep as its forks.

Bounds. A batch of two needs four checks in the queue. Reorganisations need two
branches, in one run a fork above genesis, and a branch that overtakes the other
after having been behind; the trees have five to nine blocks for that. Two threads
suffice for the races, since what one thread sees of the others is only that the
index changed. Three RPC calls allow to invalidate, reconsider elsewhere, and
interfere once more. Two transactions in the coin cache show that an operation on
one leaves the other alone, and two unspent values tell a stale coin from a current
one. In `block_undo` five blocks allow a coin to be created, half spent, spent up
and taken back twice. In `flush_state` a file fills up and is pruned within three
blocks; one crash, one disconnection and one flush that nothing forces are checked,
in every order. In `mempool` a chain with a join, a replacement, locks and a child
of a non-standard transaction meet the limits of the pool and of chains. Two peers
suffice for `block_download`: handing a block from one to another is between two.
Six headers pass every change of rule in `header_rules` and three periods of a
deployment, and versions 2, 3 and 4 let both upgrades happen; the clock moves once, from
before the times of the branch to among them. There are two algorithms where the node
has five; `RootIsExact` looks at the fifth root too. In `shutdown` two workers let one wait while the other works, and a
queue of one is full after one request.

Fairness. `check_queue` assumes weak fairness of each thread's steps: a
thread that is runnable and can get the mutex eventually does, and a notified
thread wakes. `block_tree_threads` assumes it of each thread inside
`ActivateBestChain`: the lock is not held for ever by others, and calls of new
blocks and RPCs are finite. No run assumes that blocks arrive.
`block_download` assumes that the handler thread moves from peer to peer again and
again (stated as such, not through `ENABLED`), that the clock runs (a tick is
enabled when no responsive peer owes an answer, and some block is in flight) and that
the socket thread removes closing peers; `CatchesUp` is claimed for a responsive
preferred peer only. `shutdown` assumes weak fairness of the main thread, the event
thread, each worker, each scheduler thread and the clock; tasks and handlers end.
Clients, signals, new blocks and wake-ups for no reason have none.

## 4. Proofs

`CheckQueueProofs`, for any finite set of workers, batch size and number of
checks. The counters alone are not inductive. The invariant `Inv` adds that batches
and queue are disjoint, that `nTotal` and `nIdle` count the threads in the pool and
asleep (with the interrupted ones that left without uncounting), and that a verdict
`fAllOk` with the local verdicts accounts for every check that is no longer
outstanding. From it follow types, `TodoCountsOutstanding`,
`WaitResultIsConjunction`, `ControlFindsQueueIdle` and
`MasterSleepsOnlyOnBusyWorker`. `DataInv` adds that `txdata` exists
as long as `ConnectBlock` runs and has not left early; since nothing is outstanding
when it is out, `CheckedDataIsAlive` follows.

`CoinsCacheProofs`, for any finite set of transactions, any coin values and hashes.
`Good(cache, below)` says that a cache's flags are true of the layer below it. One
lemma per operation shows that it keeps a cache `Good` and what it does to the map
seen through the cache (`Over`): a fetch changes nothing, a modifier writes one
entry, `BatchWrite` merges two layers, erasing an unflagged entry changes nothing.
The inductive invariant is `Good` for both layers. The step lemma then proves
invariance and the refinement of `CoinsMap` together, action by action.
Assumptions: `Pruned` is a coin value and the null hash is no block's hash.

`BlockTreeProofs`, for every finite tree of blocks, any threads, RPC calls and
prunings. `TreeInv` says that the index is closed under parents and has flags only for
what is in it, that a linked block has only linked, received ancestors, that the tip,
the candidates and the targets which threads remember are linked, and that a pair in
`mapBlocksUnlinked` is a received block with its parent. It gives the types and
`LinkedDownwards`, on which `FindMostWorkChain` asserts. The first lemmas are about
the choices the code makes in a finite set (`Highest`, `Lowest`, `Best`): that they
exist and where they lie on a branch. The rest of the module adds what needs fewer
operations, as hypotheses on the bounds; which ones, and why they are needed:

| property | pruning | RPC calls | threads | because |
|---|---|---|---|---|
| `CandidateKeysStable` | no | any | any | a pruned block can be received and numbered a second time |
| `FailedHasInvalidAncestor` | any | any but a `reconsiderblock` above a failed block | any | which leaves failed children behind |
| `LinkedIffAncestorsProcessed`, `UnlinkedExact` | no | none | any | section 3; a pruned block that waited is forgotten |
| `WorkLostOnlyToInvalid` | any | any | one | `stale_target` |
| `ManualOpsUndone`, `QuietCandidatesExact` | no | all but `preciousblock` | one | `stale_target`; a branch pruned during a fall-back; Observations |
| `BestChainIsActive` | no | none | one | `stale_target`; and it speaks of blocks that are not linked |

For linking the invariant (`LinkInv`) is that a received block that is not linked
waits in `mapBlocksUnlinked`, or its parent failed before it was received and will
never be linked; for `UnlinkedExact`, also that nothing that waits is linked.

For the work of the tip (`WorkInv`) it is that the active chain is free of failed
blocks, that candidates and the target have at least its work, and that no target
outlives its call. The interesting step is the one that stops at an invalid
block: the tip is then below where it was, and the lost work is explained by the
block just marked.

The best chain needs more, since `PruneBlockIndexCandidates` removes, in the middle
of an activation, candidates that are worse than a tip which a later step gives up.
`BestInv` says that nothing is lost by that: every linked block that is no
candidate failed, or some candidate is at least as good and has no block that
`ConnectBlock` would refuse (`Covered`). The witness is what makes it inductive: a
step drops candidates below its new tip, all of whose blocks did connect, so the
candidate that covers the new tip covers what was dropped, and it can never be the one
that fails. With it go that the target is the best clean candidate and that at
rest the tip is. `CandidatesExact` then follows because the order on blocks is
total: a block not worse than the tip and covered by a candidate that is not better
than the tip is the tip.

Assumptions: the tree (`TreeAssumption`), with work that grows along it and distinct
addresses.

`FlushStateProofs`, for every tree, any files, sizes and pruning targets, any number of
crashes, flushes and disconnections. `DiskInv` relates the index in memory and the one on disk to
the contents of the block files, written and committed: what is not dirty is on disk
as it is in memory; every entry finds its block below the recorded size of its file;
those on disk find it in the committed part, and so do those in memory except in the
file that is being written, until the flush has committed it; a file that is about
to be removed holds no stored block. Entries come with those of their ancestors, and
every chainstate that a crash may bring back (`bests`) has its block in the index on
disk. `StartsAgain` and `EntryFindsItsBlock` follow. `UndoFound` is the same for undo data and
needs that crashes keep undo files (`"rev"` not in `LostKinds`); with them the
property is false (see Observations). `HistoryInv` is about pruning:
no stored block is above the height recorded for its file, in memory and on disk, and
no tip that there is or that may come back is above the highest so far; so a file
that may be pruned holds nothing recent, which gives `RecentBlocksAreKept`. Assumptions
(`FlushAssumption`): the tree, heights that grow by one along it, files of more than one
unit, and a height from which pruning starts that is not below the distance to keep.

`ShutdownProofs`, for any finite sets of threads and workers, any requests and
tasks, any depth of the work queue and every program that has a scheduler thread.
`SchedulerInv` counts the threads in `serviceQueue` and says that after `stop(true)`
no thread has left while tasks remain, and that after `join_all` all have.
`ServerInv` says that `numThreads` is the number of workers between `ThreadCounter`
and its destructor as long as the queue exists, so that `WaitExit` returns only
when no worker is in a handler. `ItemInv` says where each request is: in the
callback, at one place of the queue, or with one worker, and then not yet
answered. None of the three is inductive without the stage of the main thread: that
`running` is false from `InterruptQueue` on is what keeps workers out of handlers
after `WaitExit`. From it follow `NothingRunsOnFreedState`, `DrainLeavesNothing`
and `EveryRequestIsAnswered`. Assumptions: no request is the value that stands for
none, and the thread and worker sets are finite.

`BlockUndoProofs`, for any transactions, blocks, heights and numbers of disconnections.
What connecting computes is a recursion over inputs, transactions and blocks. The
provers have no induction scheme for that, so the module proves one: a set of naturals
that is not empty has a least member (from the library's well-founded relations),
hence what holds at 0 and passes from i - 1 to i holds up to n (`CountingUp`). Each
recursive function is first shown to exist and to take the steps it is defined by,
then what it computes is shown by that induction. The argument: undoing one input
restores what spending it took, undoing a transaction takes back its outputs and
then its inputs in reverse, and so for a block. The invariant cannot speak of the
tip alone: a block that is connected again uses the undo data of its first
connection, so `IInv` says of *every* record in the undo files, on the active chain or
off it, that it is what connecting its block to the coins of its chain writes
(`Recorded`). Nor can it say that coins are equal: a reload changes negative
versions, so coins are alike up to `Encoded`, and connecting and disconnecting
respect that. Assumptions: `ConstantsAssumption` (types) and `TransactionsAssumption`,
what `CheckTransaction` and `CheckBlock` refuse otherwise: no input or transaction
twice, and the first transaction of a block is its only coinbase.

`HeaderRulesProofs`, for all parameters, times, versions and branches. `BranchInv` says
of every block of the branch that, when it was added, it was later than the median of
the times before it and no majority had made its version obsolete: what
`ContextualCheckBlockHeader` asked of it, which none of the properties says by itself.
Median times never go back (`MedianStep`): of the times below the old median no more
are in the new window than in the old one, so the new median cannot be one of them.
Hence all periods up to one that ends before the start time end before it, and its
state can only be DEFINED, which is what the short cut of `GetStateFor` returns; and a
cache that holds states of the chain is extended by states of the chain
(`ComputedIsRight`), which gives `CacheIsTransparent`. `ActivationIsEarned` follows from
the first period that was active: the one before it was locked in.
`UpgradesAreFinal` needs that a majority survives the sliding of its window: the new
block is of the version, and at most one block leaves (`MajorityStays`). Assumptions:
`RulesAssumption` and `VersionBitsAssumption`, that is, spans, windows and periods are
natural numbers and the start is not after the time-out. The rule on the work of a
branch, its targets and its times in the future play no part.

The inductive invariants were also checked by TLC on the instance of their run before
they were proved, except those of `BlockUndo` and `HeaderRules`, which quantify over all
maps of coins and over all sets; their parts that TLC can evaluate are the properties
of the runs.

Only model-checked, and why:

- liveness (`WaitReturns`, `ActivationReturns`, `CatchesUp`, `ShutdownCompletes`), which
  TLAPS cannot prove under fairness;
- `Mempool` (`CheckHolds`, `InputsAreAvailable`, `PoolFitsNextBlock`, `RestartKeepsPool`):
  its totals are sums over sets of ancestors and descendants that every removal updates
  in the order of a walk over the links, so an inductive invariant needs a theory of
  such sums first;
- `BlockDownload` (`FlightMatchesQueues`, `InFlightIsAsked`, `DisconnectIsDeserved`): an
  inductive invariant relates the lists, the map, both counters, the requests on the way
  and the part of a message the handler is at, and nearly every action changes several
  of these at once; such a proof is many times the length of the model and is not part
  of this project;
- of `HeaderRules`, `WorkGrows`, `RootIsExact`, `TemplatesAreMinable` and
  `TargetsAreIndependent`: the work, its root and a compact target are powers, products
  and quotients of variables, beyond the arithmetic of the provers (and that a target
  does not become 0 depends on the values of the constants); the blocks of one
  algorithm are a filtered sequence, about which the library has no usable facts;
- of `BlockTree`, the same properties with pruning, with `preciousblock` and, for
  `ActivationReturns`, with two threads.

## 5. Observations

Behaviours met while modelling that no passing run can exclude. Each was reached in
a model of this directory or follows from the lines given; the exceptions in the
properties name them.

- `ConnectBlock` declares `txdata` (validation.cpp:1981) after `control` (1970), so on
  an early return it is destroyed before `~CCheckQueueControl` has waited
  (checkqueue.h:173). `CheckedDataIsAlive` is about the other returns. With the script
  flags set today no check reads it.
- A thread between two steps of `ActivateBestChain` connects blocks that
  `invalidateblock` has just marked; the candidate set becomes empty, against the
  assertion at validation.cpp:2477. `block_tree_threads` makes no manual calls.
- `reconsiderblock` of a descendant clears its ancestors without making them
  candidates (validation.cpp:2758), while its help text says it undoes
  `invalidateblock` (rpc/blockchain.cpp:1496).
- `preciousblock` starts again at -1 when the tip has more work than at its last call
  (validation.cpp:2675), without looking at the numbers in use. After six calls (two
  invalidations, two blocks of equal work made precious, the first reconsidered, the
  tip made precious again) a block that was dropped from the candidates ties with the
  tip and the address decides: `QuietCandidatesExact` is violated with `MaxManual` 6.
  The run makes three calls, and the theorem excludes `preciousblock`.
- A block asked for as a compact block and brought by `submitblock` meanwhile stays
  listed as in flight: the answer returns early ("Nothing to do here",
  net_processing.cpp:2030) and does not unlist it. The peer owes nothing, and yet the
  entry takes one of its places and, unless another message about the block comes, the
  peer is disconnected when the block times out. `InFlightIsAsked` is therefore not about
  blocks that were submitted and that the node has; without the exception the run
  violates it, because block 4, which is asked for in this way, is submitted there.
- `CFeeRate::GetFee` (amount.cpp:29) computes a fee from the size alone, contrary to
  `test/amount_tests.cpp`; the rolling minimum fee has no effect, and a trimmed
  transaction is accepted again with no block in between, contrary to the comment in
  `TrimToSize`.
- `FlushBlockFile` commits only the last file (validation.cpp:2159), so undo data
  written to an older file may be lost in a crash: with `rev` in `LostKinds`,
  `EntryFindsItsUndo` is violated. `setDirtyBlockIndex` is cleared before the batch
  is written (2184).
- `TestBlockValidity` ("Check a block is completely valid from start to finish",
  validation.h:517) does not apply the limit on successive blocks of an algorithm: at
  the limit a template is valid and the mined block is refused. `CreateNewBlock` calls it
  without the checks of the proof of work, so of the rules on headers only those of
  `ContextualCheckBlockHeader` apply to a template. The regression-test
  network leaves the limits at zero.
- The change to Argon2d looks at the time of the block before, not of the block itself;
  `GetPrevWorkForAlgoWithDecayV1` uses the limit on targets as work.
- Two threads in `serviceQueue` can time out on one task; the second then runs the next
  one before its time (scheduler.cpp:59-69, against "Call func at/after time t",
  scheduler.h:44). The daemon has one such thread.
- `WaitExit` counts only workers that have reached `ThreadCounter`, and the event thread
  may be in `http_request_cb` when the queue is freed (httpserver.cpp:484): both can use
  it afterwards. `misuse` records it, and `EveryRequestIsAnswered` is about the runs
  where it stays empty.
- `InterruptRPC` and `OnRPCStopped` set the flag and notify without `cs_blockchange`:
  a command that waits for a block without a time-out can look before the first and
  sleep after the second, and the shutdown then waits for it. `MissedTheEnd` is the
  exception in `ShutdownCompletes`.

## 6. Not modelled

Orphan transactions, transaction relay, addresses and bans in `net_processing.cpp`
and `net.cpp`; the address manager; the wallet and its key pool; the choice of
transactions for a block; merge mining; loading and rewinding of the index beyond
`LoadBlockIndexDB`. They have state and could be modelled; the notes in
`PROJECT.json` say what stands in the way or what a model would have to leave out.
Subsidies and fee estimates use floating point. Script evaluation, cryptography,
serialisation, merkle trees and filters are computations on data without shared
state; sockets, Tor and the graphical interface are input and output; libraries are
third-party code.
