# Verification of the SESN consensus code

SESN is a fork of go-ethereum whose blocks are made by up to 101 validators under the
**Sonium** engine (`src/consensus/sonium`). This project models the engine, the miner and the
parts of the node they live in (chain, transaction pool, block fetcher), model-checks them on
small instances with TLC, and proves the central properties for every instance with TLAPS.

## The system

| Part | State | Operations | Talks to |
|---|---|---|---|
| Snapshot (`snapshot.go`) | `Number`, `Hash`, `Validators`, `Recents` (height to signer) | `newSnapshot`, `apply`, `inturn`, `store`, `loadSnapshot` | the engine |
| Engine, headers (`sonium.go`) | the account it signs with | `VerifyHeader(s)`, `verifySeal`, `CalcDifficulty`, `Seal` | snapshots, header chain |
| Engine, snapshot retrieval (`sonium.go`, `api.go`) | ARC cache of 128 snapshots, database checkpoints every 1024 blocks | `snapshot`, the API calls | header chain, database |
| Engine, finalization (`sonium.go`) | none of its own; balances and contracts in the block's state | `Prepare`, `Finalize`, `FinalizeAndAssemble`, `Authorize` | system contracts, worker, state processor |
| Block processing (`state_processor.go`, `state_transition.go`, `block_validator.go`) | the block's state | `Process`, `TransitionDb`, `ValidateState`, `CalcGasLimit` | engine |
| Worker and miner (`miner/`) | current block, sealing tasks, results | four goroutines connected by channels | engine, chain, pool |
| Chain (`blockchain.go`, `headerchain.go`) | blocks, canonical hashes, heads, transaction index, states in memory and on disk | `InsertChain`, `WriteBlockWithState`, `SetHead`, `Stop`, repair at start | everything |
| Transaction pool (`tx_pool.go`, `tx_list.go`, `tx_noncer.go`) | pending, queue, lookup, pending nonces, requests for the next run | `addTxs`, `scheduleReorgLoop`, `runReorg`, eviction, `SetGasPrice` | chain, peers, worker |
| Block fetcher (`eth/fetcher/block_fetcher.go`) | announced, fetching, fetched, completing and queued blocks, counts per peer | the cases of `loop`, imports | handler, chain, peers |
| Downloader, transaction fetcher, handler | queues | as upstream | chain, peers |

The behaviours that are hard to test:

* epochs replace the validator set, and with it the length of the window in which a validator
  may not sign again; the same rule is written three times (`apply`, `verifySeal`, `Seal`);
* `snapshot()` runs without a lock in many goroutines while the chain it reads is extended
  and reorganised, its cache evicts, its writes fail and the node restarts;
* a miner appends system transactions that every other node must predict exactly, from the
  same parent, while the head and the miner's account change;
* the gas limit a miner computes is checked by others with a differently written formula;
* four goroutines of the worker, those of `Seal` and `Miner.update` wait for each other on
  buffered and unbuffered channels while the user, the downloader and the chain act;
* importing, reorganising and rewinding the chain are rows of database batches, and the process
  may die between any two of them;
* callers of the pool and new heads ask for background runs that are merged, and act on a pool
  that has changed since they asked;
* answers to the block fetcher are lost or late, and its blocks are imported by others.

## Modules

| Module | Models | Checked by |
|---|---|---|
| `Snapshot` | the operators of `snapshot.go` and the rules of `verifySeal`, `calcDifficulty` and `Seal`; no state | through the modules below |
| `ValidatorChain` | one branch of the chain, extended by headers that `verifySeal` accepts | `MCValidatorChain`, `ValidatorChainProofs` |
| `SnapshotStore` | `Sonium.snapshot` in a node, step by step | `MCSnapshotStore`, `SnapshotStoreProofs` |
| `Finalization` | making a block and processing it | `MCFinalization`, `FinalizationProofs` |
| `GasLimit` | the limit a miner computes and the one a node accepts | `MCGasLimit`, `WorkerProofs` |
| `Miner` | `Miner.update` between the user and the downloader | `MCMiner`, `MinerProofs` |
| `WorkLoop` | `newWorkLoop` and `mainLoop` with their channels | `MCWorkLoop`, `WorkerProofs` |
| `Recommit` | the resubmit interval | `MCRecommit`, `WorkerProofs` |
| `Sealing` | `taskLoop`, the goroutines of `Seal`, `resultLoop` | `MCSealing`, `MinerProofs` |
| `Chain` | the block chain of a node, batch by batch, with crashes and repair | `MCChain`, `ChainProofs` |
| `Ledger` | what the chain promises its readers: the abstract specification that `Chain` implements | through `Chain` |
| `TxPool` | the transaction pool and the scheduling of its runs | `MCTxPool`, `TxPoolProofs` |
| `BlockFetcher` | the block fetcher of a full node and the network around it | `MCBlockFetcher`, `BlockFetcherProofs` |

`ValidatorChain`, `SnapshotStore` and `Finalization` all extend `Snapshot`, so the rules that
the proofs are about are the ones the other models run. A model that shares a proof module with
another names its specification after itself (`RecommitSpec`, `GasSpec`, `MinerSpec`, `StoreSpec`,
`FinalizationSpec`): `WorkerProofs` is about the three models that the worker's `newWorkLoop` and `commitNewWork`
take part in, `MinerProofs` about `Miner` and `Sealing`, and the proofs of `SnapshotStore` and `Finalization`
build on those of `ValidatorChain`. A loop over a sequence is a recursive function on the number of rounds,
named `after`.

### Snapshot

A snapshot is a record with the fields of the Go struct; `Recents` is a function on heights.
A header is a record with its number, hash, parent hash, signer (recovered from the
signature), coinbase where it matters, difficulty and, on an epoch block, the validators in
its extra data. `apply` runs `applyNext` over the headers after `sequenceError` has checked
them, and an error stops it as in the code. The order of a step is the code's: `ShiftOut`
forgets the block leaving the window, `applyError` checks the signer, `Put` records it,
and on an epoch block `ShrinkWindow` deletes what a shorter window no longer covers before
the set is replaced. `USub` is subtraction of 64-bit words with the modulus as the constant
`Word`. `fakeDiff`, a test switch, is off.

### ValidatorChain

`snap` is the snapshot of the tip's parent, `tip` the header accepted last. `Extend` applies
the tip and accepts a child; `Sibling` replaces the tip, as a reorganisation of one block
does. `signerAt` and `limitAt` are history. Header fields that do not affect validators
(extra-data format, uncle hash, mix digest, times) are taken to be well formed.

### SnapshotStore

The headers are a fixed tree of two branches. `node` says what kind of node this is: how high
its first header is, how soon it trusts an epoch block, how many calls it serves at once.
`stored` and `canon` are what `GetHeader` and
`GetHeaderByNumber` return, `recents` the cache, `disk` the database, `call` the local
variables of each goroutine in `snapshot()`. One iteration of the search is `Lookup`; the
second read of the canonical chain (`sonium.go:400`) is a step of its own, `Trust`, because
nothing locks the chain between the two reads. `Apply` is the rest of the function. A write
to the database succeeds or fails. `WriteCanonical` and `DeleteCanonicalAbove` are the
separate writes of a reorganisation, `SetHead` and `Restart` what they say. An eviction may
take any entry, which covers every choice the ARC cache makes. A call that `apply` refuses
(`Reject`) keeps what it had started from. The history variable
`trusted` names the epoch blocks that were snapshotted without their ancestors.

### Finalization

`head` is the head block with its snapshot and its state, `work` the worker's current block,
`validator` the engine's account. `Prepare`, `CommitTransaction` and `Commit` are the
worker's steps; `Authorize` and `Insert` happen between them at any time. `Prepare` of the engine
reads its account twice without the lock (`sonium.go:519`, `529`), so the coinbase and the account
that the difficulty is computed for are two values (`Prepared`). The pending transactions may be
those of the block's parent or of the head; one whose nonce the state does not expect is refused
(`preCheck`), which the worker skips and `Process` fails on. `finalizeBlock`
threads an execution record (error, state, transactions, system transactions still to be
matched) through the steps in the order of the code; the miner's mode appends transactions
and the other mode matches them. The contracts are external: the state keeps what they are
used for, that is the candidates, the missed-block counters, the amount paid in and whether
they are initialized. A transaction's fee is its price: the amount of gas does not matter to
any property. Balances and the gas pool are therefore not there, nor the errors of `buyGas`. `getTopValidator`
has no error path: it asks for the state of the parent, on which the block was just executed. If it failed, `Prepare` would
leave no work and `Finalize` no block.

### GasLimit

`parent` is the head's limit and gas used, `config` the miner's floor and ceiling after the
sanitising of `eth.New`. `Mine` is a block of this miner, `Import` one of anybody else that
`verifyCascadingFields` accepts, `Reconfigure` a restart with other flags. Divisions are
integer divisions as in the code.

### Miner

`update` is the place of `Miner.update`. A send on an unbuffered channel is a `Receive...`
step, after which the sender goes on; what update does with it is a later `Handle...` step.
`worker.start` sets the flag and may then wait for room in `startCh` (`SendStart`). A post of
the downloader waits for the subscriber, and `Unsubscribe` releases it. `wanted` and `done`
are history.

### WorkLoop, Recommit and Sealing

Together these are `worker.go`; they meet at the channels. In `WorkLoop`, the closure `commit`
is two steps, `Commit` before the rendezvous on `newWorkCh` (`TakeRequest`) and `LoopSent`
after it, because `mainLoop` runs in between. `commitNewWork` is `Prepare`, `CommitTask`
(the empty block), `Pending`, then `Fill` and `SendAdjust` for the local and the remote
transactions, and `CommitTask` again; every early return is there. Since `newWorkCh` has no
buffer, only one request's interrupt can be seen by `mainLoop`, and it is one variable. A
block is known only by whether its parent is the current head, so the chain has no bound.
`TxArrives` is the pool's feed. `CountTx` counts an arrival, or drops it if the worker does not run and its block is full.
`Recommit` has the arithmetic of `LoopAdjust` and the user's setting. In `Sealing`, a task
is its number and a content; `Register` and `Seal` are separate steps of `taskLoop`. `sealing` has the
task of every goroutine that `Seal` started, `stopCh` the goroutine that waits on the channel
`taskLoop` holds, and `stopped` those whose channel `interrupt` has closed. A stopped goroutine may
`Quit` or still `Deliver`, as Go's select allows. `resultLoop` looks the task up (`TakeResult`) and waits
for the chain's lock before it writes (`Write`).

### Chain and Ledger

The blocks are a fixed tree with heights, total difficulties and transactions; `Bad` blocks do
not execute to the state their header promises. `stored`, `canon`, `head`, `header`, `lookup` and `disk`
are the database, `dirty` the states that only the trie database in memory has. The other
variables are the local variables of the operation that holds the chain mutex, and every
database batch is a step of its own: `Crash` may come between any two. `InsertChain` is the front
of `insertChain` (skipping known blocks, choosing the main loop or the side chain),
`ImportBlock` one round of the main loop, `SideBlock` and `SideDone` are `insertSideChain`.
`writeBlockWithState` stores the block, commits its state with garbage collection
(`CommitState`) and chooses the head (`ForkChoice`, with the coin toss as a choice);
`reorg` then plans the batches that `AdoptNext`, `DeleteIndexes` and `AdoptHead` write. `SetHead`,
`RewindHeader` and `RewindDone` are the rewind: the markers move block by block, the
deletions come in one batch at the end. `Stop` flushes the states the code flushes and `Start`
is the repair in `NewBlockChain`.

`Ledger` has one variable, the set of blocks that can be read by number. It starts with the genesis
block, gets a valid block on top of one of its blocks (`Append`) or is cut back
(`CutBack`). `IsLedger` maps it to `{canon[n] : n <= Number[head]}`, what `GetBlockByNumber` returns
up to the head. The point is that no intermediate state of a reorganisation, a rewind or a
recovery is visible as anything else.

### TxPool

A pool is a record of `pending`, `queue`, `all` (the lookup) and `nonces` (`pendingNonces`). The lists
are sets of transactions; `Added`, `Lowest`, `Ready` and so on are the methods of `txList`, and the
functions of `tx_pool.go` that rebuild the pool under its lock are operators from pools to
pools. `AddTxs` is the locked part of `addTxs` and `RequestPromote` what the caller does after it, so
that anything may come in between. `RequestPromote` and `RequestReset` are merged into `dirty` and
`resetFrom` as `scheduleReorgLoop` does it, and `Launch` starts a run. A run is `Reset` (choose the
transactions to put back, move to the new state), one `Reinject` per transaction, `ReorgRun`
(promote, demote, truncate, set the nonces) and `Announce`. The lock is held from `Reset` to
`ReorgRun` (`Unlocked`). Which remote account is the idle one (`Evict`) or the latest one
(`QueueOverflows`) is a choice, instead of the heartbeats. `announced`, `skipped` and `sunk` are history;
`sunk` has the accounts of which the last reset discarded a transaction that was mined and still pending
(`Mined`). A new head is any inserted block (`RequestReset`). `Reset` gives up where the code does; if the block of the new
head itself is gone the code dereferences nil (`tx_pool.go:1139`) and the process ends, which is a behaviour that stops there.

### BlockFetcher

`f` is a record of the fetcher's maps. `Top` is the part of `loop` before its select and each
case of the select is an action: `Notify`, `Enqueue`, `Done`, `FetchTimer`, `CompleteTimer`, `HeaderFilter`,
`BodyFilter`. Time is a choice: any fetch may have expired at the top, and any announcements
may be old enough when the timer fires; whether a timer is armed is exact. `Import` is the
goroutine of `importBlocks`, which sends to `done`. `asked` is what peers have been asked for;
an answer arrives while it is there or is lost (`Lose`), however long after the fetcher gave up.
`lost` is history: the blocks whose body was asked for and did not come, and those dropped from the
queue as too old. `InsertElsewhere` is the downloader, and in the same way the miner. `AnnouncedNumber` is the number each
peer announces a block with: a number 0 is not checked for its distance (`Useless`), and a peer whose number differs from
the header's is dropped. Blocks in `Bad` fail the header's verification.

## Runs

| Run | Bounds | Shows |
|---|---|---|
| `validator_chain` | 5 addresses, sets of 1 to 5, epoch 3, height 7 | no signer leaves the window early (`RecentsComplete`), nobody signs twice within it (`SpamProtection`), half of the validators may always sign (`SignersRemain`), `Seal`, `verifySeal` and `apply` agree on honest blocks (`SealedIsAccepted`) and, past the first window, on all (`AcceptedCanBeApplied`), one in-turn validator per height (`OneInTurn`) |
| `snapshot_store` | 6 headers on two branches, cache of 2, checkpoints every 4; a full node with 1 caller that trusts after 1 header, and a node that starts at height 2 with 2 callers | every snapshot held is sound (`SnapshotsSound`), a call starts from the snapshot of the block it came to and rejects no valid header, unless it trusted the canonical epoch block of another branch (`BranchKept`), a trusted checkpoint's gap closes (`TrustWearsOff`) |
| `gas_limit` | limits 21 to 30, divisor 4, four targets | a mined limit is accepted (`MinedIsAccepted`), the band is kept (`BandKept`) and, once one configuration prevails, reached for ever (`BandReached`) |
| `finalization` | 3 validators, epoch 2, height 3, one transaction per block, two prices | every block made is accepted with the same state (`MadeIsAccepted`), rewards are conserved (`RewardsConserved`) and paid out (`PaidOutAtEpoch`), slashing is just (`SlashedJustly`) |
| `miner_control` | 2 waiting starts | the worker follows update's intention (`IntentKept`), does not run during a sync (`NoMiningDuringSync`), is resumed (`MiningResumes`), is left alone after the first success (`UndisturbedAfterDone`), and once stopped is started only on behalf of a `StartMining` (`StopTerminates`) |
| `recommit` | the code's constants in units of 20 ms, four settings | the interval keeps the user's minimum (`UserMinimumKept`) and feedback always moves it (`LimitReachable`) |
| `work_loop` | room for 2 adjustments and 1 head, 1 transaction | the timer is never lost (`TimerKept`), heads are followed (`HeadFollowed`), what is counted outside of a handover leads to another request (`TxsResubmitted`) |
| `sealing` | imported heads up to 1 and mined ones up to 2, 2 contents, 3 goroutines, queues of 1, threshold 1 | one block in sealing (`OneSealing`), a result finds its task unless stale (`TaskKept`), no block is written twice (`WrittenOnce`) |
| `chain` | 8 blocks on three branches, one block that does not execute, 2 transactions, states kept for 1 block, 1 outage, 1 rewind | the index follows the head at every batch (`IndexFollowsHead`), reorganisations lose no transaction from the index (`TxsIndexed`), the chain is a ledger (`IsLedger`) |
| `tx_pool` | 5 transactions of 2 accounts, 4 blocks on two branches, 2 heads, room for 2 pending and 1 queued, 1 caller between its steps | the indexes agree (`IndexesAgree`), pending starts at the account's nonce in the state and `Nonce` is above all of it (`PendingExecutable`), what is pending is announced (`PendingAnnounced`), nothing that the state would execute next is left in the queue of an account with nothing pending (`NoneStranded`, with the exception named there) |
| `block_fetcher` | 3 blocks, 2 peers, 3 announcements or propagated blocks, limits of 2 announcements and 1 block per peer | allowances are given back (`AllowanceKept`), a block is in import at most once (`ImportedOnce`), only a lost body, or being dropped as too old, keeps a new block waiting (`OnlyLossBlocks`), announcements are served (`AnnouncementsServed`) |
| `work_standoff` | as `work_loop`, with room for 3 adjustments | the finding below |

Why the bounds are enough:

* In `validator_chain`, sets of 1 to 5 give windows of 1, 2 and 3, so that epochs shrink the
  window by one and by two, and height 7 has two epochs with a full window after the first.
* In `SnapshotStore`, both branches have an epoch block at height 2 and part below it, one
  epoch grows the set and one shrinks it, the cache is smaller than either branch, and
  height 4 is a checkpoint for the database.
* In `Finalization`, height 3 has the block that initializes the contracts, an epoch block
  and one under the new set; a prepared block may stand at height 4, the second epoch. One
  price is below the minimum; one sender is also a validator, so its nonces are shared with
  system transactions.
* In `GasLimit`, the range is several steps wide, with targets below, inside and above it.
* In `Miner`, two waiting starts let one be overtaken by a stop and another follow it; syncs
  and calls are unbounded.
* In `WorkLoop`, one request can fill `resubmitAdjustCh` and one head `chainHeadCh`, so that
  every wait for room happens. One transaction suffices to tell a
  count of zero from another.
* In `Sealing`, two contents give the sequence A, B, A of tasks in which A is sealed twice,
  and the threshold is passed by two heads. Three goroutines are one that is sealing and two that
  were stopped and have not returned; they are interchangeable, hence the symmetry.
* In `Chain`, two branches overtake each other block by block, are once as heavy at different heights, and
  share a transaction at different heights; a third is heaviest and starts with a block that
  does not execute. States are kept for one block, so parents are pruned after two. The proofs
  have no bound.
* In `TxPool`, both lists overflow, a replacement exists for a nonce in the middle of an account's
  transactions, one account may turn local, a reorganisation within the depth limit
  puts transactions back, a jump of two blocks exceeds it, and one branch makes a transaction
  unpayable, so that it is refused when it is put back; this is how a gap in the middle of pending comes about.
  The first transaction of an account is cheaper than those behind it, so that it can be discarded when it is mined and
  still pending: the exception of `PendingExecutable` and `NoneStranded` is reached.
* In `BlockFetcher`, two blocks compete and share a body, one is empty, one is bad, one peer
  announces wrong numbers and once none, for a block that is too far ahead at first, and each limit is reached by the three inputs.

Deadlock is checked in every run except those of `WorkLoop`, where the system really may
stop (see `work_standoff`), and of `BlockFetcher`, which rests when nothing is announced.

**Fairness.** `gas_limit`: weak fairness of `Mine`. It says that blocks keep being made, which
the engine's timer and `SignersRemain` justify. `BandReached` is claimed of behaviours in which
from some point on all miners have one floor and ceiling; otherwise the limit may be pulled
two ways for ever. `Miner` and `WorkLoop`: goroutines that can run do run (weak
fairness), and Go's select chooses among ready cases at random, so it starves none of them
(strong fairness of each case). Syncs end, since the downloader has timeouts, and the
resubmit timer goes off. `BlockFetcher`: `loop` runs, and an announcement that stays grows old
enough for the timer to take it up (strong fairness per block). Nothing is assumed of the user, of transactions, of side blocks or
of the arrival of heads.

## Proofs

`ValidatorChainProofs`, for any finite set of addresses, any collection of validator sets
and any epoch length and height. The inductive invariant is

    Inv == TypeOK /\ RecentsWindow /\ RecentsComplete /\ SpamProtection /\ Linked

None of its conjuncts is inductive alone. `SpamProtection` is about the whole history and
survives a step because `RecentsComplete` says that every signer still inside the window is in
`Recents`, which `apply` checks. `RecentsComplete` survives because `ShiftOut` and
`ShrinkWindow` delete only heights outside the window; `RecentsWindow` because they delete
all of those. `Linked` ties the history to the tip. From `Inv` follow

* `TypeCorrect`, `WindowCorrect` (`Recents` covers no height outside the window),
  `NothingForgotten`, `SpamProtected`;
* `ChainNeverPauses`: `Recents` covers at most `Limit - 1` heights that still count, so at
  least half of the validators are free (`EnoughEligible`, a cardinality argument);
* `ExactlyOneInTurn`: the offsets in the sorted list are a ranking (`OffsetsAreARanking`);
* `SealerAgreesWithVerifier`: whoever `Seal` lets sign is accepted by `verifySeal` and `apply`;
* `VerifierAgreesWithApply`: past the first window `verifySeal` accepts only what `apply` accepts.

`MinerProofs`, for any number of waiting starts: `TypeCorrect`, `WorkerFollowsIntent`,
`NeverMinesDuringSync`, `SyncsNoLongerMatter` and `StopIsFinal`. `IntentKept` speaks only of the moments when
update waits; `Intent` extends it to every place of the loop. `SyncKnown` adds that the end
of a sync is handled only while none is under way, and `Unsubscribed` that a `DoneEvent` ends
the subscription.

`WorkerProofs` has three parts.

* The gas limit, for any divisor, bounds and targets under the named assumptions of `GasLimit`:
  `GasTypeCorrect`, `MinedAlwaysAccepted` and `BandNeverLeft`. The core is `LimitIsNear`: a computed
  limit differs from the parent's by less than the bound, which rests on `ContribBound` for the
  contribution of the gas used. The assumption that the smallest target is at least five
  divisors is needed there and true of `params`.
* The resubmit interval, for any limits, bias and settings: `IntervalAlwaysBounded`,
  `UserMinimumAlwaysKept` and `LimitAlwaysReachable`, from `WeighMoves` (the bias outweighs the
  rounding) and `TargetAbove` (an increase aims no lower than the interval). The bias must be at
  least ten units, as it is in nanoseconds.
* The timer, for channels of any size: `TimerNeverLost`; `TimerKept` is inductive.

The second part of `MinerProofs` is about `Sealing`, for any number of goroutines, contents and heads, any
queue sizes and any stale threshold: `OneSealingAtATime`, `TaskAlwaysKept` and `NeverWrittenTwice`. The inductive
invariant is

    SealingInv == SealingTypes /\ LiveStoppable /\ TasksKept /\ WrittenOnce

`OneSealing` survives a call of `Seal` only because of `LiveStoppable`: a goroutine that was not told to
stop is the one whose channel `taskLoop` holds, and from the interrupt to the next `Seal` there is none.
`TasksKept` extends `TaskKept` to the task that has been registered and not yet sealed, which
`newWorkLoop` may clear in between.

`ChainProofs`, for any tree of blocks and difficulties, any memory for states and any number
of crashes, stops and rewinds: `IndexAlwaysFollowsHead`, `ChainAlwaysIndexed` and the refinement
`ChainImplementsLedger`. `TreeAssumption` says how parents, heights and ancestries belong together; what
follows for whole branches (`BranchLemma`) is proved from it by a least counterexample, since every
nonempty set of heights has a lowest one. `TxsAssumption` says that a branch includes a transaction
once, as it uses up its sender's nonce; only `ChainAlwaysIndexed` needs it. The inductive invariant is

    Inv == Types /\ IndexFollowsHead /\ Closed /\ Executed /\ SameBranch /\ Adopting
           /\ SideEntered /\ Rewinding /\ Halted

`Closed` (ancestors of stored blocks are stored) lets a head be any stored block; it survives
`RewindDone` because of `Rewinding`: everything above the lowered head header is doomed, not only
the canonical blocks. `Executed` (a state exists only for blocks whose ancestry executes) is why
side blocks that were never executed cannot become the head. `Adopting` says that what a
reorganisation has still to write starts on top of the current head, so every intermediate head
is one `Append`. `SameBranch` ties the head header, which repair and rewind leave behind,
to the head's branch. Each action has a lemma that proves `Inv'` and `HeadMoves` (the head goes to an
ancestor or to a valid child of one); `HeadMoves` is a step of `Ledger` because `ReadsBranch` shows
that `Readable` is the ancestry of the head.

`ChainAlwaysIndexed` adds `TxInv`. While a reorganisation is under way, `TxsIndexed` says nothing; `TxInv`
says that everything below the next block to adopt is indexed already, and that no transaction
which `DeleteIndexes` will drop is in the part of the new branch that has been written. The
second is what a wrong difference of the two branches would break.

The pool, for any accounts, transactions, trees of blocks, prices and limits. `TxPoolAssumption`
says no more than what kind of value each constant is, and that an account has at least one
slot. There are two invariants.

* `IndexesAlwaysAgree`: `Agree` is inductive. There is one lemma per operator that rebuilds the pool;
  `EnqueueAgrees` is the centre: what falls out of pending never meets a transaction of its nonce
  in the queue, because the lookup has one transaction per account and nonce.
* `PendingAlwaysExecutable`, `PendingAlwaysAnnounced` and `NoneEverStranded` need each other and follow from

      PoolInv == Agree(pool) /\ TypesKept /\ StagesKept /\ StuckAsked /\ PendingAnnounced /\ SunkKept

  `StagesKept` says what `PendingExecutable` does not: what holds while a run that resets has the lock.
  Pending belongs to the old state then, and the nonces of the pool are not above those of the new
  one (or the reset has given up, and nothing has changed). That is why `runReorg` does not drop the event of a
  transaction which stays pending, although it drops those below the nonces. `StuckAsked` is
  `NoneStranded` for a pool in which `dirty` accounts are spread over callers, the next run and the
  current one, stated with the pool's nonce; `SunkKept` says that this is the state's nonce or above it, except for
  accounts in `sunk`. It rests on `Lowered`: `add` and `removeTx` lower a nonce only to that of a pending transaction that they
  remove, and while the lock is free no pending transaction is mined.

`AddExecutable` and `WithoutExecutable` show what `add` and `removeTx` make of a pool with executable lists.
`PromoteSettles` and `DemoteSettles` follow the runs without and with a reset, then `RunSettles` goes through
both truncations to the setting of the nonces.
`DemoteSettles` needs only that the nonces are low enough (`Anchored`), not that the lists were executable:
the run restores what the reset has broken. Then there is one lemma per action. Least and
greatest nonces of a list come from `LeastNatural` and `GreatestNatural`; every state with a finite
list has them.

`SnapshotStoreProofs`, for any tree of headers, any kinds of nodes, any callers, cache size and
checkpoint interval: `CachedSnapshotsAreSound`, `SnapshotsKeepTheBranch` and `CheckpointsWearOff`. `TreeAssumption` says
how heights and parents belong together, `SealAssumption` that every header of the tree was sealed by
someone whom `verifySeal` and `apply` let sign after its true ancestors: the headers of a valid
chain. `StoreInv` says that the cache and the database hold sound snapshots (`Filed`), and for each
call (`GoodCall`)

* that the headers it has gathered are a path of the tree down to the block it looks for (`Downward`);
* that the snapshot it has found is sound and at the height of that block, and is that of the block itself unless
  it is a trusted epoch block (`OtherBranch`);
* that, if `apply` refused it, it had started from such a block, and the error is the inconsistent hash.

The first two are what `SnapshotsSound` leaves out and `Apply` relies on. What a sound snapshot is depends on
`trusted`, which other calls extend meanwhile; `SoundGrows` says that this never hurts. The core is
`SoundStep`: applying a header to a snapshot that knows the recent signers above some base gives one
that knows those of the child above the same base, and is never refused if the header is good for the
full snapshot. `ApplySound` does this for a whole path after the swaps have turned it over
(`ReverseUpward`). `CheckpointsWearOff` then uses that `Recents` reaches no further back than a window.

`FinalizationProofs`, for any validators, senders, prices, reward, candidate lists, epoch length and number of
transactions: `MadeBlocksAreAccepted`, `NothingOfTheRewardsIsLost`, `PoolEmptiedAtEpoch` and
`OnlyTheIdleAreSlashed`. `CandidatesAssumption` says that there are candidates and that at least one is elected,
`PricesAssumption` that no pool transaction is free. Two relations between executions carry the argument.

* `Extends(s, header, e, r, gain)`: the execution `r` comes from `e` by appending system transactions, slashing
  none that does not deserve it, and has `gain` more in pool and contract together. Each stage of
  `finalizeBlock` extends its input, with gain 0 but for `collectBlockReward`.
* `Matches(m, v, m2, v2, all)`: if the checking execution `v` is where the mining execution `m` was, with the system
  transactions of the block still to match, then the same holds after the stage. So the stages of
  `Finalize` retrace those of `FinalizeAndAssemble`, whichever account the engine had by then.

`LoopResult` shows that the loop of `Process` separates the block into the transactions of the pool and the
system transactions and brings the state to where the miner started to finalize. The inductive
invariant `FinalizationInv` says that the block being filled, and the one made last, come from a run of pool
transactions on the state of their own parent, not of the head (`Fills`, `GoodWork`, `GoodBlock`); without it
nothing is known of the state that a stale block is finalized on.

`BlockFetcherProofs`, for any finite set of blocks, any peers and any limits: `AllowancesAreGivenBack`,
`BlocksAreImportedOnce` and `WaitingBlocksAreAskedFor`. The inductive invariant is

    FetcherInv == Sane(f) /\ QueueOK(f, importing, done) /\ BodyOK(f, {}, asked, lost, chain)

that is, the types with `AllowanceKept`, then `ImportedOnce` and `OnlyLossBlocks` as predicates of the maps. They are
stated for any maps because a handler goes through several: `BodyFilter` first forgets, then queues the
completed blocks one by one, and in between the blocks not queued yet (the second parameter of `BodyOK`)
have neither a request nor a place in the queue. `DeliverOK` follows this loop in any order. The counts need
sums over finite sets; `TotalStep`, `TotalSplit` and `TotalCleared` say what a sum loses when `forgetHash` clears
some blocks.

The induction over heights, rounds of loops and sizes of sets that these three need is done by least
counterexamples (`LowestHeader`, `LeastNatural`, `SmallestSet`), since the induction theorems of the library cannot be
used. That a recursive function exists and satisfies its equation is proved the same way (`ReplayEquation`,
`LoopExists`, `DeliverExists`, `SumsExist`).

All safety properties that the runs check are proved. Only model-checked are the liveness properties
`BandReached`, `MiningResumes`, `HeadFollowed`, `TxsResubmitted` and `AnnouncementsServed`: liveness under fairness
is out of the prover's reach.

## Findings

`work_standoff` is a run in which the code does something else than a comment of it says:
`newWorkLoop` and `mainLoop` can wait for each other for ever once `resubmitAdjustCh` is full.
The code's channel holds ten adjustments, so this takes at least five requests during which
the select never picks one. `HeadFollowed` and `TxsResubmitted` hold in every other case.

Two more are stated as the properties that do hold, with the exception named:

* `verifySeal` computes `number-limit` in `uint64` with no guard (`sonium.go:497`), while `Seal` has
  one. In the first blocks of the chain it accepts a header of a recent signer, and `apply`
  rejects it as soon as a child arrives. `AcceptedCanBeApplied` says that from the first full
  window on the two agree.
* `StartMining` hands over to a goroutine, so a start can take effect after a later
  `StopMining` has returned. `StopTerminates` says that nothing else starts a stopped worker.

Smaller disagreements that are visible in the models and have no run of their own:

* `sonium.go:399-400` looks the parent and the block up by two reads, so an epoch block can be
  trusted although its parent is canonical by then. `SnapshotsSound` shows that nothing but
  recent signers is missing from the result.
* The epoch block that is trusted there is the canonical one of its height, not the one the search has come to. On another
  branch, `apply` then refuses valid headers with `errBlockHashInconsistent`, or, if the epoch block itself was asked for, its
  canonical sibling's snapshot is returned. `BranchKept` shows that this is the only way off the branch.
* `Prepare` reads the account twice without its lock (`sonium.go:519`, `529`). If the account changes in between and back
  before `FinalizeAndAssemble`, the block has the difficulty of another validator and may slash its own miner; `verifySeal`
  of every node refuses it, hence the condition in `SlashedJustly`.
* The comment at `sonium.go:766-767` swaps the two difficulties, and the one at `sonium.go:564`
  says that no block rewards are given although every block adds `BlockReward`.
* `StopMining` returns when update has received the request, not when the worker is stopped
  (`ReceiveStop`, `HandleStop`); a `StartMining` in between does nothing and is lost.
* Only a `DoneEvent`, not a `FailedEvent`, ends the subscription to the downloader's events,
  against the comment at `miner.go:82-84`. `MiningResumes` shows that mining is resumed
  after each failure.
* `recalcRecommit` lowers an interval of the user above 15 s at the first increase, hence the
  condition in `UserMinimumKept`.
* `newTxs` is reset after the request was handed over (`worker.go:350-352`, `LoopSent`), so a
  transaction counted in between is forgotten until the next one, the next start or the next head. `TxsResubmitted`
  leaves this window out; outside of it no count is lost.
* An interrupted sealing may still deliver its block (`Deliver`), against the comment at
  `worker.go:537`. `TaskKept` and `WrittenOnce` show that it is handled like any other.

In `Chain`:

* `reorg` deletes canonical hashes above the current head before the new head is written
  (`blockchain.go:2253`). When the new branch is a single block, lower and as heavy, the current head is still
  the old one, and its canonical hashes stay above the new head. They are not reachable from it.
* A known block in the middle of an import is written as head without comparing difficulties
  (`blockchain.go:1850`, where the comment above says "just skip the block"), so that a lighter block
  may become the head.
* States are collected by the height of the block written last (`blockchain.go:1559`), so a lighter but
  higher fork can drop the state of the head.
* A crash between the deletion of indexes and the write of the new head leaves transactions of
  the head without an index entry, hence the condition in `TxsIndexed`.

In `TxPool`:

* A run that resets uses the state's nonces in `Ready`, so an executable queued transaction
  behind pending ones is not promoted by it, although the comment at `tx_pool.go:1044` says that
  all addresses are promoted. The account's next transaction frees it. `NoneStranded` is
  therefore about accounts with nothing pending.
* After a reorganisation pending may have a gap in its middle if a transaction that was put
  back is refused or discarded again: `demoteUnexecutables` looks for a gap in front only
  (`tx_pool.go:1423-1434`). It stays until a transaction fills it or those before it are mined, and
  `Nonce` returns a nonce above it. The comments at `tx_pool.go:237` ("All currently processable
  transactions") and `tx_pool.go:436` ("the next nonce of an account, with all transactions executable
  by the pool already applied on top") do not allow for it. `PendingExecutable` does not claim that
  there is none.
* When `reset` gives up, nonces are not reset and events of pending transactions are discarded.
* Discarding a mined transaction during the reinjection lowers the pending nonce below that of
  the state. `Nonce` then returns a nonce that is used up, and `Ready` starts from it, so that the account's next transaction stays
  in the queue; this lasts until the next reset. `NoneStranded` and `PendingExecutable` name it as their exception.
* A local transaction that replaces a pending remote one does not make its sender local.
* `validateTx` applies the minimum price to local transactions too, although `tx_pool.go:742-743`
  says that local ones go around the pricing constraints.

In `BlockFetcher`:

* The timers forget an announcement, which gives its count back, and then move it on without
  counting it, so that the next `forgetHash` gives it back again. Counts are too low, never too
  high (`AllowanceKept`).
* `completing` has no timeout: after a lost body, announcements of the block are ignored until it
  arrives in another way (`OnlyLossBlocks`).
* An expired fetch is only forgotten at the top of `loop`, so the first announcement after a
  quiet time is dropped if the fetch expired during it.
* The entry in `completing` of a queued block that was inserted elsewhere stays (`Top` calls only
  `forgetBlock`); that of a block dropped from the queue as too old stays as well, and its announcements are
  ignored from then on.

## Not modelled

The EVM, state tries, storage engines, networking below the protocol, key storage, user
interfaces and libraries, the light client and the Clique and Ethash engines:
`PROJECT.json` gives the reason for each. The bytecode of the system contracts is external.
The models assume that the staking contract always has a candidate and that the pool offers
no transaction with price zero. `API.Status` only reads.

* Block processing: balances and gas, so that of the errors of a transaction only a wrong nonce is there.

* Worker: a period of zero (`dev` mode), disabled pre-sealing, the snapshot of the pending block
  for the RPC and the exit of the loops; `Miner.Close` is never called by the node.
* Chain: fast sync, the freezer, archive mode, the queue of future blocks, partial flushes of the
  trie database (`Cap`), the loss of batches the database has not synced, banned hashes, the limit of the
  transaction index, the batches of long side chains, blocks that share a state root, and sealed blocks whose
  parent's state has been pruned meanwhile.
* Pool: the journal, heartbeats, transactions of several slots, shutdown. The price heap is the
  set of transactions in the lookup: its stale entries have no effect, and how often a transaction is in it, which makes
  `Discard` remove fewer than asked for, is a choice (`Discards`).
* Block fetcher: light mode, outgoing broadcasts, the distinction of future blocks, hooks and
  shutdown. Two requests for one block to the same peer are one, the bodies of one request
  are answered one by one, and headers come singly, as the handler passes only single
  headers on.
* The downloader and the transaction fetcher.
* Several nodes. `ForkChoice` is one node's choice; whether a network of validators converges
  depends on clocks, delays and random tosses, and even three validators with their chains are beyond a
  small instance. The modules are not composed either: each has the parts of its neighbours it
  observes, as open actions.
