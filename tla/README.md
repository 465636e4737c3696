# NEAR Indexer for Explorer: a TLA+ verification project

NEAR Indexer for Explorer runs a NEAR node as a library in its own process,
takes the stream of final blocks from it and writes blocks, transactions,
receipts, execution outcomes, accounts, access keys, account changes and token
events to PostgreSQL. This directory holds TLA+ modules of its core, TLC
configurations that check them on small instances, and proofs checked by TLAPS
for every value of the constants.

Paths below are relative to the directory that contains `src/` (the
repository): `src/src/main.rs` is the `src/main.rs` of the crate.

## 1. Inventory

| component | source | state | operations | modelled in |
|---|---|---|---|---|
| stream and start-up | `src/src/main.rs`, `configs.rs` | channel of the node, futures in flight, `take(n)`, sync mode | `construct_near_indexer_config`, `listen_blocks` | `BlockStream` |
| block handler | `src/src/main.rs` 46-154 | progress of one block | `handle_message`: block, chunks, transactions beside receipts, then five futures | `HandleMessage`, `OutcomeTables` |
| receipts cache | `src/src/main.rs` 32-44, 182 | receipt or data id -> hash of its transaction, 100 000 entries | set, get, remove, evict; shared by all handlers under a mutex | `HandleMessage` |
| transactions adapter | `db_adapters/transactions.rs` | `transactions`, `transaction_actions` | two passes: plain hash, then hash with a suffix for collided ones | `HandleMessage` |
| receipts adapter | `db_adapters/receipts.rs` | `receipts`, `action_receipt_*`, `data_receipts` | search for the parent transaction, skip, announce data ids, insert | `HandleMessage` |
| outcomes adapter | `db_adapters/execution_outcomes.rs` | `execution_outcomes`, `execution_outcome_receipts` | hand the cache entry over to the produced receipts, insert | `HandleMessage` |
| blocks, chunks adapters | `db_adapters/blocks.rs`, `chunks.rs` | `blocks`, `chunks` | store; latest height | `HandleMessage`, `BlockStream` |
| accounts adapter | `db_adapters/accounts.rs` | `accounts` | fold the actions of a block, INSERT and guarded UPDATEs | `AccountRows` |
| access keys adapter | `db_adapters/access_keys.rs` | `access_keys` | fold the actions of a block, three futures | `KeyRows` |
| retry macro | `retriable.rs` | attempt, interval | retry with doubling interval, then an error; a handler of errors may end it early | a failing step, a step that is repeated, `IsDuplicate` of `AssetEvents`; attempts are not counted |
| asset events | `db_adapters/assets/` | FT and NFT event tables | parse logs, number the entries, insert in batches of 500 | `AssetEvents` |
| account changes | `db_adapters/account_changes.rs`, `models/account_changes.rs` | `account_changes` | select, number and insert per shard | `AccountChanges` |
| genesis | `db_adapters/genesis.rs` | two vectors of 5 000 records | flush and final flush | `Genesis` |
| circulating supply | `aggregated/circulating_supply/mod.rs`, `db_adapters/aggregated/` | day to compute, `aggregated__circulating_supply` | daily loop over the database and the node | `CirculatingSupply` |
| lockup contracts | `aggregated/circulating_supply/lockup.rs`, `lockup_types.rs` | none | amount locked at a time | `Lockup` |
| account details | `aggregated/account_details.rs` | none | queries to the node | what it answers is part of `CirculatingSupply` |
| serializers, enums, schema, pool | several | none | conversions and I/O | constraints and causes only |

### Interactions

    node --(bounded channel)--> listen_blocks --(at most --concurrency)--> handle_message
                                                                             |   |
    construct_near_indexer_config <-- blocks table <-- PostgreSQL <----------+   +--> ReceiptsCache

* The node and the indexer share a process: when it stops, the channel, the
  handlers and the cache are gone. The database and the node's own mark of the
  last block it sent are what a new process finds.
* Handlers are futures on one thread: they interleave at awaits only. They meet
  in the cache (a lock that is held across a section without awaits) and in the
  database (one statement at a time, no transactions across statements).
* A receipt row needs the hash of the transaction it descends from. It comes
  from the cache, where the handler of the parent put it, or from one of three
  queries; the parent may be in the same block, a block handled at the same
  time, a block handled before the last restart, or nowhere.
* The circulating supply is computed by a task of its own, in the same process.
  It reads the node (the final block, the state of contracts) and the tables
  that the handlers fill, which are behind the node.
* Several indexers may write to one database; the tables of events and account
  changes are built for that.
* `try_join!` drops the other futures at the first error, but a statement that
  was already sent to the pool is still executed.
* The error of a handler goes nowhere: `while let Some(_handled_message)`.

### What is hard here, and what makes each component correct

| component | hard behaviour | correct means |
|---|---|---|
| stream and start-up | crash between sending, storing the block row and finishing a block; node's mark ahead of the index | no block between the origin and the stream is left out (`NoGap`); all are handled in the end (`EventuallyHandled`) |
| receipts | parents that come late, from another handler, through another source, or never | the row names the transaction the receipt descends from (`OriginIsRoot`); nothing is skipped in strict mode (`NothingSkipped`) |
| handler | futures dropped halfway, blocks handled again | a block reported as handled is there (`StrictBlockIsStored`, `ImplementsLedger`); strict handlers never wait in a circle (`EveryBlockHandled`); non-strict ones never wait for ever (`NonStrictNeverStuck`) |
| cache | an entry that outlives its use fills it up | `CacheDrained` |
| accounts | side-by-side statements, replays, accounts created and deleted repeatedly | the table says what the chain says (`AccountsOfChain`) |
| access keys | three unordered futures, keys that live and die with accounts | `KeysOfChain`, `NoKeyOutlivesOwner`, `RowsOnlyAdvance` |
| genesis | vectors that are full, left over, or lost with the process | `GenesisIsStored` |
| asset events | batches that are there already, in part of the shard or all of it, from this or another indexer | each event once and in order (`EventsOfBlock`); nothing but a skipped receipt stops a batch (`OnlySkippedRefused`) |
| account changes | equal changes, replays, two indexers | `ChangesOfBlock` |
| circulating supply | a node, an index and a loop at different heights; days that fail | a value for the last block of each day, with the lockups of that block (`LastBlockOfDay`, `NoLockupMissed`), no day left out (`EarlierDaysComputed`, `EveryDayComputed`) |
| lockup contracts | saturating times, lockup, release, vesting and termination meet | `SupplyFits`, `LockedNeverGrows`, and the theorems on `Lockup` in `SupplyProofs` |

`PROJECT.json` lists every hazard with its line and the property that covers
it, or why none does.

## 2. The modules

| module | role |
|---|---|
| `Chain` | what the node streams: chunks, transactions, receipts and how they descend from each other. External; all of it constants with assumptions |
| `HandleMessage` | `handle_message` up to the execution outcomes, for all blocks at once |
| `ReceiptLedger` | abstract specification of the receipt tables |
| `BlockStream` | start-up, channel, scheduling of handlers, crash |
| `StateActions` | the actions of executed receipts and what they mean on the chain. External |
| `AccountRows`, `KeyRows` | `handle_accounts`, `handle_access_keys`, one action per statement |
| `Genesis` | `store_genesis_records`, which fills the same two tables |
| `OutcomeTables` | composes the three under `handle_message`, with failures and restarts |
| `BlockMessage` | logs and state changes of one block, and who handles it. External |
| `AssetEvents`, `AccountChanges` | `store_events`, `store_account_changes` |
| `EventTables` | composes both for several indexers, failures and repetitions |
| `Lockup` | the amount locked in a contract, as operators |
| `CirculatingSupply` | the daily loop beside the node and the index; EXTENDS `Lockup` |
| `MCHandleMessage`, `MCBlockStream`, `MCOutcomeTables`, `MCEventTables`, `MCCirculatingSupply` | instances for TLC |
| `HandleMessageProofs`, `CacheProofs` | theorems on `HandleMessage`; the second EXTENDS the first |
| `BlockStreamProofs`, `EventProofs`, `SupplyProofs` | theorems on `BlockStream`, `EventTables`, `CirculatingSupply` with `Lockup` |
| `ChainProofs`, `TablesProofs`, `RowProofs` | theorems on `OutcomeTables`, each EXTENDS the one before: the folds over the actions, the statements, the rows |

`PROJECT.json` ("map") gives the source lines of every definition.

### HandleMessage

State: the tables the search reads back (`txName`, `receiptRow`, `outputRows`,
`producedRows`) or that a property speaks of (`txActions`, `outcomeRows`), the
`cache`, the height `next` of the stream, and for each chunk how far its three
tasks are (`txPc`, `rcPc`, `outPc`), with the local variables of the parent
search (`looking`, `found`, `retries`). A row is identified by what the chain
calls it; payloads are left out.

One action is what runs between two awaits: a section under the cache lock
(`TxCache`, `RcCache`, `RcPublish`, `OutCache`), a statement (`TxInsert`,
`RcInsert`, `OutInsert`, ...), or a query with the use of its result
(`RcQueryOutputData`, `RcQueryOutcomes`, `RcQueryTxs`, `TxCollect`). Failed
attempts followed by a good one change nothing and are stuttering steps; the
tenth failure is an action (`...Fails`). A foreign key is a guard of the insert;
when the row it waits for cannot come, or may come too late, `RcGivesUp` and
`OutGivesUp` end the block. `FkRetryCovers` says whether ten attempts are
assumed to outlast a handler that is about to write the row; properties that do
not need this are checked without it.

A cache section that sets and removes several entries may evict in between:
`CacheBecomes` keeps any entries when there may be too many, which contains
every order of `SizedCache`.

### BlockStream

State: the node's `head` and `mark`, the channel (`nextTake`, `nextSend`),
the handlers, the `blocks` table, and what was ever `handled`. `origin` is
where the operator asked the index to begin: it moves with the first start and
with one that names a height above every row (`BeginsAnew`), never with one that
is to continue. A start that is to continue and finds an empty table falls back
to the mark of the node; `blind` remembers that until the index begins anew, and
only the properties read the two. Of a handler only the
block row and the end are kept, because only these are read by a later start.
Sending a message and moving the mark are two steps of the node, and so a crash
may fall between them.

### AccountRows, KeyRows, OutcomeTables

The chain grows block by block with every legal list of actions on any number of
accounts, up to the bounds of TLC (`Bounded`). A block is the list of one chunk:
the code handles the chunks of the shards apart, and an account lives on one
shard. `Implicit` are the ids of 64 characters, which the code takes for implicit
accounts by their length; those of them that are a public key (`Hex`) come into
being with a transfer, the others with CreateAccount like any name. A handler
folds the actions of its block into one model per account and per key, as the
`HashMap`s of the code do, and then sends its statements, in any order the
futures allow. `Fail` drops what is left of a block except one statement that
each future may already have sent. A restart may begin behind a block that the crash
cut short, because the operator gives the start height; that leaves the block
behind and counts as a fault like a failing statement (`LeavesBehind`). A row
carries `created`, `deleted` and `height` (`last_update_block_height`);
permissions are left out.

`World` is the reference: the actions executed one at a time, in the order of
the chain.

### Genesis

Before the stream starts, the records are read one by one into a vector of
accounts and one of keys (`ReadRecord`), in any order and with any keys
(`GenesisKeys`). A full vector is inserted before the next record is looked at
(`FlushAccounts`, `FlushKeys`), what is left over at the end
(`StoreLeftAccounts`, then `StoreLeftKeys`). A batch that fails ten times
panics, which is a `Restart`. The operator keeps `--store-genesis` until the
genesis was stored once, and may keep it for ever: `on_conflict_do_nothing` must
then leave the newer rows alone.

### AssetEvents, AccountChanges, EventTables

Rows of different blocks never meet in a constraint, so one block is enough; but
it may be handled several times and by several indexers, with every interleaving
of their batches, lost answers (`AnswerLost`: the batch is stored and sent
again), dropped futures of which one batch may still arrive (`DropEvents`), and
batches that are refused ten times (`GiveUp`).

An INSERT is all or nothing. The table has two constraints besides the foreign
key: the primary key, which is the whole row, and UNIQUE on receipt and index.
The code takes a violated primary key as "already written" and skips the batch;
`IsDuplicate` says which constraint the error names. That this is right is a
property (`EventsOfBlock`, `OnlySkippedRefused`), not an assumption.

`ShardRows` numbers all state changes of a shard and keeps those of accounts;
`InsertedChanges` is `on_conflict_do_nothing` under the three partial unique
indexes, none of which has the column `index_in_block`. A statement whose foreign
keys (block, account, transaction, receipt) do not hold yet is tried again: that
is the same statement at a later time, and after the tenth time a failure of the
handler (`Fail`). No property here says that it succeeds in time.

### Lockup, CirculatingSupply

`LockedAmount` is `get_locked_amount` with the saturating additions of `u64`;
products are `U256` in the code and exact here. `WellFormed` is what the
contract checks itself when it is created and terminated; `Evolves` is what
becomes of it from block to block: nothing, a termination of its vesting, or a
withdrawal of what was unvested, in parts or at once.

The variables of `CirculatingSupply` are three heights (`final` of the node,
`stored` for the table of blocks, `handled` for the table of accounts), the
state of the loop (`pc`, `day`, `block`, `supply`) and its table. Time is the
time of blocks. The loop waits for the node's final block (`WaitForBlocks`),
looks for the latest block of the day in the database and for its value
(`CheckDay`), lists the lockup accounts of the view and asks the node for their
states (`Compute`), stores the value and goes on to the next day (`AddSupply`).
Every error keeps the day (`NoBlock`, `Unreadable`, `QueryFails`), and a
restart begins with the first day again. The view tells when the receipts that
created and deleted an account were included (`creationIncluded`,
`deletionIncluded`), the node when they were executed (`created`, `deleted`).
The view has the accounts of the genesis, if they were stored (`fromGenesis`),
and those created in a block that was handled: none from between the genesis and
the first block of the index (`indexedFrom`).

## 3. The runs

| run | setting | question |
|---|---|---|
| `handle_concurrent` | strict, two handlers, a cache with room for one entry, foreign keys that may give up, a restart from any height | is every row right, is a handled block stored, is the ledger implemented? |
| `handle_restart` | strict, one handler, collided hashes, a failing statement, a restart | is the cache drained, is nothing skipped? |
| `handle_liveness` | strict, two handlers, fairness | do concurrent searches end? |
| `handle_non_strict` | non-strict, two handlers, stream starts after the parents, a failing statement | types, and does every search end? |
| `stream` | one handler, five command lines, three starts, an error | is a block left out, is every block handled? |
| `tables` | genesis in batches of one record, one handler, chains of two blocks, of up to three actions on one account (of the genesis, new, or implicit) or up to two actions each on any two, a failing statement, a restart | is the genesis stored, do the tables say what the chain says, does no row go back? |
| `events` | two indexers, one block with two shards, batches of two rows, four runs of the block, two faults | is every event and change there once and in order, and what is refused? |
| `supply` | 366 chains of six blocks over three days (240 contracts with their times: left alone, terminated, withdrawn from, with a private vesting; 126 lives of a lockup account, indexed from the genesis or later); a failing query, a restart | is each day computed once, for the right block and the right lockups, and does what is locked only shrink? |
| `handle_skips` | as `handle_liveness` | finding: data receipts found in the database are skipped |
| `handle_collision` | two transactions with one hash | finding: the local receipt gets the other's transaction |
| `stream_delta_one` | `--delta 1` | finding: the documented delta 0 is delta 1, blocks are left out |
| `supply_lags` | an index further behind than ten minutes | finding: the value of a day is computed for a block that is not its last |

The last four end in a counterexample on purpose: each checks a sentence of the
repository that the code does not keep (quoted under "findings").

Settings that a property needs, and why:

* `OriginIsRoot`, `StrictBlockIsStored` and `ImplementsLedger` are stated for
  chains without collided hashes; `handle_collision` shows why. `handle_restart`
  uses collided hashes for the two properties that do not depend on them.
* `NothingSkipped` holds with one handler, a cache that does not evict, and
  before a restart: the data receipts then find their parent in the cache.
  `handle_skips` shows that it fails with two handlers.
* `NoGap` and `EventuallyHandled` are checked with `--concurrency 1` and without
  a delta of 1. With two handlers a block may lag behind the highest stored one
  by any distance, so that no delta covers it after a crash. They also need that
  a start that is to continue finds a row (`~blind`): without one the code does
  leave blocks out (section 5).
* `AccountsOfChain`, `KeysOfChain`, `NoKeyOutlivesOwner` and
  `ImplicitCreatorKept` are checked and proved with one handler: with two, the
  deletion in a later block may run before the insertion. Exact rows (not
  only who exists) need that no block failed or was left behind; a lost block
  that is handled again after a later one cannot write over it. `KeysOfChain` leaves
  out blocks that delete an account and touch its keys as well (two futures race
  there) and implicit accounts, whose deleted keys come back with a transfer.
  Who created and deleted an account with an id of 64 characters is left to
  `ImplicitCreatorKept`.
* `ImplicitCreatorKept` leaves out blocks that transfer to an implicit account
  and delete it as well (section 5), and chains on which a block failed or was
  left behind.
* `GenesisIsStored` and all that follows needs that `--store-genesis` is given
  until the genesis was stored, as `src/README.md` asks for on the first start.
* `LastBlockOfDay`, `NoLockupMissed` and `EarlierDaysComputed` need an index
  that lags no further behind the node than the ten minutes the loop waits
  after midnight (`MaxLag <= TenMinutes`). `supply_lags` shows the first fail
  without; the second fails as well (section 5). Nothing in the code sees to that
  lag.
* `NoLockupMissed` is about lockup accounts whose receipts were executed in the
  block that included them (`Prompt`): for others the view gives a height that
  is too early. And it is about accounts that the index has seen come into being
  (`Indexed`): of the genesis that was stored, or created from its first block
  on. Others the code misses (section 5); late starts are among the chains of the
  run.
* `EveryDayComputed` is about days that can be computed (`Computable`): an
  account deleted in the last block of the day, one of the genesis that was
  deleted before the index began, or one with an unknown version of the contract,
  keeps the loop on that day for ever.

### Bounds

| bound | value | why it is enough |
|---|---|---|
| chain of `MCHandleMessage` | 3 blocks, 4 chunks, 2 transactions, 3 action receipts, 1 data receipt | every way a receipt finds its transaction occurs: a transaction of an earlier block, a local receipt, a produced receipt, a data receipt; block 2 has two chunks, one of them empty |
| `Concurrency` | 1 or 2 | two handlers are enough for a parent and a child at the same time, and for a circle of waiting |
| `CacheSize` | 1 or 10 | 10 never evicts, 1 evicts whenever two receipts are announced |
| `RetriesLeft` | 4 (the code's), 1 for liveness | one retry shows the loop and its end |
| `MaxFaults`, `MaxCrashes`, `MaxRestarts` | 0 or 1 | one fault or restart at any point, in combination |
| heights of `MCBlockStream` | 2, 3, 5, 6 | a skipped height and a start below the first block |
| `Capacity` | 2 | the channel can be empty, partly filled and full (the node uses 100) |
| `MaxStarts`, `MaxErrors` | up to 3 and 1 | a crash of a run that had itself been resumed |
| `LastBlock`, `MaxActions` of the tables | 2 and 3 | create, delete and create again, in one block and across two |
| `MaxAccounts`, `MaxMixed` of the tables | 2 and 2 | a block that acts on two accounts, where their models share the vectors and statements; with `MaxMixed = MaxActions` and `MaxAccounts` the number of accounts there is no bound, and so for the proofs |
| accounts and keys of the tables | three accounts with a key each | rows that are there at genesis, that are inserted by a block, and that are updated later; several keys of an account and names of 64 characters are left to the proofs |
| `GenesisRecords`, `BatchSize` | 3 and 1 | a vector that is full in the middle, one that is left over, a record that is skipped; other lists and sizes are left to the proof |
| messages of `MCEventTables`, `BatchSize` | 3 and 2 | several batches of a shard, an event that is split by the end of a batch, equal entries, equal changes, a skipped receipt |
| `MaxRuns`, `MaxFaults` of `EventTables` | 4 and 2 | each of two indexers tries twice, with a failure or crash of each |
| days of `MCCirculatingSupply` | 4 units, ten minutes are 1 | a block at midnight, one within the ten minutes, a day without a block; times reach `MaxTime`, where sums saturate |
| `indexedFrom` of a chain | 0 or 2 | the index begins with the genesis, or later and then with or without its records |
| `MaxLag` | 1, and 4 in `supply_lags` | as far as the loop waits, and further |

`Stream.cfg` and `StreamDeltaOne.cfg` turn the deadlock check off: the model's
chain and its starts end, while the real ones go on. The other configurations
keep it on and have an explicit last step (`StreamEnds`, `AllEnded`) or one that
waits (`SleepUntilLoaded`).

### Fairness

* `HandleMessage!FairSpec`: weak fairness of the steps of each block and of each
  task of a chunk. All futures sit in `buffer_unordered` and `try_join!`, which
  poll every one that is woken, and every statement sent to the pool is
  answered. Failures are never fair.
* `BlockStream!FairSpec`: weak fairness of the node (it streams what it has), of
  each handler, of the shutdown, and of starting the indexer when it is down,
  which is the service manager's part. Crashes, failing queries and new blocks
  are not fair; `EventuallyHandled` is about the blocks the node knows, once the
  indexer stays up without a limit of blocks, without an error and not `blind`.
* `CirculatingSupply!FairSpec`: weak fairness of the node, of the handler and of
  the steps of the loop, each of which is a task of the runtime. Failing
  queries and restarts are not fair, and waiting is not progress.

## 4. The proofs

Every safety property that a passing run checks, as an invariant or on steps, is
also stated by a theorem: the run shows it on a small instance, the theorem for
every value of the constants that satisfies the named assumptions of the modules.
TLC evaluates these on the instances. What they say:

* of the chain and the node: `ChainShape`, `ChainOrder`, `RootsFollowParents`,
  `OneReceiptPerTx` (how receipts descend from each other), `StateConstants`,
  `RecordsOfGenesis`, `ChainsAreChains`, `EntriesOfShards` (a receipt is executed
  on one shard), `ChangesToldApart` (a cause changes an account once in a block,
  and a change of an account names its cause);
* of the lockup contract: `ContractsEvolve` (from block to block it is left alone,
  terminated or withdrawn from in parts) and `LockupsAreBacked` (the tokens of different
  contracts are different tokens);
* that bounds and sizes are numbers: `HandlerConstants`, `StreamConstants`,
  `TablesConstants`, `GenesisConstants`, `EventConstants`,
  `EventTablesConstants`, `LockupConstants`, `SupplyConstants`.

* `BlockStreamProofs!TypeCorrect`. The inductive invariant adds that the node's
  mark is only due for a height that was sent.
* `BlockStreamProofs!NothingLeftOut`: `NoGap` for one handler and no start with a
  delta of 1 (`Sequential`). `NoGap` alone is not inductive: a start continues
  from the highest stored row, so the invariant says that everything below a
  stored row is handled (`RowsOnTop`), and that needs the single handler to be on
  the last block taken (`LastTaken`). A start from an empty table is the first
  one, one that begins anew, or blind (`FirstStart`).
* `HandleMessageProofs!TypeCorrect`.
* `HandleMessageProofs!OriginCorrect`: `OriginIsRoot` without collided hashes.
  The invariant follows the hash through every place it rests in: the cache and
  what a search has found (`MemoryInv`), the tables (`TablesInv`), and that the
  running pass uses no suffix (`PassInv`). Each copy is made along `Parent`, and
  `RootsFollowParents` says that roots agree along it.
* `HandleMessageProofs!StrictStores`: `StrictBlockIsStored` in strict mode. The
  invariant says of each task which rows its stage implies (`SearchInv`, `RcInv`,
  `TxInv`, `OutInv`, `HandledInv`, `QueueInv`); the lemma `RowsAlwaysStay` says
  that rows are never taken back, which carries these facts across the steps of
  other tasks, and `SearchInv` that what a strict search no longer looks for it
  has found.
* `HandleMessageProofs!StrictImplements`: every step of a strict handler is a step of
  `ReceiptLedger` or leaves its view unchanged.
* `CacheProofs!CacheIsDrained`: `CacheDrained` for one handler at a time, with
  any cache size, failures and restarts. An entry is written by a block that is
  not later than the one that asks for it last (`WritersComeFirst`), the
  handlers take turns (`TurnInv`), and within a block the transactions come
  before the outcomes (`StageInv`).
* `CacheProofs!NothingIsSkipped`: `NothingSkipped` for one handler and a cache
  with room for every key (`RoomForAll`). An announced data id stays in the cache
  until its chunk takes it (`AnnouncedInv`), so the query for data receipts, which
  keeps what it finds under a key nobody asks for, never finds any; what is no
  longer looked for has been found (`FoundInv`). `handle_skips` shows that one
  handler is needed. Neither theorem needs distinct hashes.
* `TablesProofs!RowsAdvance`: `RowsOnlyAdvance`, for any concurrency, both modes
  and blocks that act on any number of accounts. The invariant says that a table holds
  rows with a height or nothing (`TablesOfRows`); each statement changes each
  row well (`GoodChange`), whatever the fold over the actions has computed.
* `TablesProofs!GenesisStored`: `GenesisIsStored`, for any list of records. What
  was read of the genesis is in its table or still in its vector
  (`AccountsRead`, `KeysRead`), and each phase leaves one table complete
  (`GenesisProgress`).
* `TablesProofs!TablesTyped`: `OutcomeTables!TypeOK`. The types are inductive only
  with the positions of the genesis (`Positions`, `VectorsFit`) and with tasks
  that hold nothing but accounts and keys (`Sound`).
* `RowProofs!AccountsAreOfChain`, `CreatorsAreKept`, `NoKeyOutlives`,
  `KeysAreOfChain`: what the two tables say is what the chain says, for every
  chain of any length, every order of the statements of a block, and any failing
  blocks and restarts. They assume one handler (`OneBlock`, the default of
  `--concurrency`), the two on keys strict mode as well.
  The argument is about one row and has three parts.
  1. The folds (`ChainProofs`). The model of a block is a fold over its actions,
     and so is the world after it. The folds of the library are recursive
     functions; that such a function is defined, and goes from one member of a
     sequence to the next, is proved by a minimal counterexample (`FoldExists`,
     `FoldsAgree`, `FoldSteps`), because the library's induction theorems cannot be
     used. Then an invariant along the actions of one block (`BlockTells`,
     `BlockKeyTells`) relates what `handle_accounts` and `handle_access_keys`
     collect to what the actions do: which accounts live after the block, who
     created and deleted them, and that a row the block does not mention is
     unchanged.
  2. One row (`AccountInv`, `KeyInv`). A row is of the genesis or was written by a
     block (`WrittenIn`); once all blocks up to a height are done, no block
     between the row's and that height has anything to say of it (`IsLast`).
     While a block runs, each statement it has sent has done its part (`Handled`).
     The guards on `last_update_block_height` make this survive blocks that are
     handled again after later ones.
  3. With a fault a row of an older block may stand where a lost one should be.
     Who lives is right all the same once everything is handled again; who created
     and deleted it is right only without (`Exact`, `Creator`).
* `EventProofs!RefusedForSkipped`: `OnlySkippedRefused`. A table always holds
  whole batches (`WholeBatches`), and only rows that some future composes
  (`RowsOfBatches`). A row that clashes is then the same row, the whole batch is
  there, and the error names its first row: `ClashIsDuplicate`. It rests on
  `EntriesOfShards`.
* `EventProofs!EventsStored`: `EventsOfBlock`. An indexer that is at a batch has all
  batches behind it in the table, whoever stored them (`BehindStored`,
  `LastBatches`), and nothing is left when it is done (`NoneLeft`).
* `EventProofs!ChangesStored`: `ChangesOfBlock`. The unique indexes drop a change
  that is equal to one in the table (`ChangeInv` says which are there); it is the
  same change by `ChangesToldApart`, so that nothing is lost although
  `index_in_block` is not part of them.
* `SupplyProofs!ValuesOfLastBlocks`, `ValuesCountLockups`, `NoDayLeftBehind`: the
  three safety properties of the loop, if `MaxLag <= TenMinutes`. The invariant
  says how far the index lags (`Lag`), that a day to compute is ten minutes past
  a midnight, and what the loop knows at each step (`LoopKnows`); the heart is
  `HandledBefore`: once the blocks are loaded, no block before midnight is
  unhandled. An account whose origin the index has seen (`Indexed`) is then in
  the view (`ListIsRight`).
* `SupplyProofs!UnreleasedFits`, `LockedFits`, `LockedShrinks`, `BugLocksLess`: what
  is locked is at most the amount, shrinks as time goes by, and is less in the
  contracts with the bug. The lemmas are about quotients (`LinearPart`).
* `SupplyProofs!EvolvingLocksNoMore`: nor does it grow when a vesting is terminated,
  when what was unvested is withdrawn, or with a private vesting.
* `SupplyProofs!LockedShrinksByDay`, `SupplyNeverWraps`: `LockedNeverGrows` and
  `SupplyFits`, for any lag of the index. Every value in the table is right for
  the block it names (`ValuesRight`). A sum over a set of accounts is a recursive
  function as well: it keeps the order of its members (`SumOrder`), and what is
  locked at two heights is compared contract by contract (`LockedAtHeights`).

Only model-checked: liveness (`EveryBlockHandled`, `NonStrictNeverStuck`,
`EventuallyHandled`, `EveryDayComputed`), since fairness and ENABLED are beyond
the prover; and the four counterexamples.

## 5. Other divergences read in the code

No run is kept for these: they are seen from a few lines, or the repository does
not say what should happen.

* With an empty table `blocks`, `sync-from-interruption` falls back to the mark of
  the node (`main.rs`:252-254), which it moves when a message is put into the
  channel. A start with `sync-from-block 3`, a stop after block 3 was sent and
  before its row was stored, and a start with `sync-from-interruption`: the stream
  goes on with block 4, although `src/README.md`:102 and `configs.rs`:59 say that
  it continues from the block it was interrupted at. `NoGap` without `~blind`
  fails with this behaviour.
* The row of a block is stored before its accounts (`main.rs`:56 and 101-112).
  When the index lags by more than ten minutes, the circulating supply may be
  computed for a block whose accounts are not there yet, and a lockup account that
  the block created is left out for good. `NoLockupMissed` fails with this
  behaviour when `MaxLag` is 4, as in `supply_lags`.
* An index that begins with `sync-from-latest` or `sync-from-block` has no row for
  a lockup account that was created before (`accounts.rs`:247-254): what is locked
  there counts as circulating, although `circulating_supply/mod.rs`:32-33 has the
  sum over each lockup. `NoLockupMissed` without `Indexed` fails with this
  behaviour.
* `src/CHANGELOG.md`:96 says that the indexer fails with an error when it has
  retried for five minutes. `handle_message` returns the error after ten attempts
  (102.3 seconds), `main.rs`:207 throws it away, and the stream goes on.
* In non-strict mode a block that reports the outcome of a skipped receipt fails
  on the foreign key (`execution_outcomes.rs`:85) and is lost with all that comes
  after, while `src/TROBLESHOOTING.md`:102 has the mode keep working when
  relative data is missing.
* `accounts.rs`:134-136 and `src/CHANGELOG.md`:181 want the creator of an implicit
  account to be kept. A block that transfers to the account and deletes it
  overwrites the creator, and of two transfers in one block the last is taken.
* The migration of 2021-08-06 numbers `index_in_block` per block, the code per
  shard.
* The view `aggregated__lockups` takes the block that included a receipt for the
  one that executed it (`Prompt`).
* The interval of the retries is doubled while it is below its limit, and so may
  end above it.

## 6. Not modelled

Payloads, formatting and logging; the permission of access keys; tables nobody
reads back (their inserts are part of the step next to them); time outside of
`CirculatingSupply` (intervals of retries, the seven seconds of the shutdown);
how often a statement is tried (`FkRetryCovers` and the failing steps stand for
it); borsh decoding of contracts; the connection pool, command line parsing and
the other subcommands; the history of the schema. The node, the chain and the
lockup contract are external: `Chain`, `StateActions`, `BlockMessage` and
`WellFormed` assume what they guarantee.

## 7. Plan

Done: every component with state has a module, the properties above are checked,
and the safety properties of the passing runs are proved. What a next step would
take up:

1. Composition of the handlers of `HandleMessage` with the stream of
   `BlockStream`, so that what a lost block does to later ones is seen; its state
   space is beyond the bounds used here.
2. `Retry`: attempts and intervals as numbers, to replace `FkRetryCovers` by a
   bound on the time the other handler takes.
3. The permission of access keys, which an UPDATE leaves as it was
   (`access_keys.rs`:205).
