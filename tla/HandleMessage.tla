--------------------------- MODULE HandleMessage ----------------------------
(***************************************************************************)
(* What handle_message (src/src/main.rs) does with the blocks of the       *)
(* stream: store_block, store_chunks, then store_transactions and          *)
(* store_receipts side by side, then store_execution_outcomes.  The        *)
(* handlers of up to Concurrency blocks interleave at their awaits; they   *)
(* share the ReceiptsCache and the database.                               *)
(*                                                                         *)
(* One action is what runs between two awaits: a section under the lock of *)
(* the cache, one SQL statement, or a query and the use of its rows.       *)
(* Sleeping between attempts and failed attempts that are followed by a    *)
(* good one are stuttering steps; running out of attempts is a step.       *)
(***************************************************************************)
EXTENDS Chain, FiniteSets

CONSTANTS
    FirstBlock,    \* height the stream starts from
    Concurrency,   \* --concurrency: handlers polled at the same time
    StrictMode,    \* FALSE is --non-strict-mode
    RetriesLeft,   \* retries of the parent search in non-strict mode (4)
    CacheSize,     \* SizedCache::with_size (100_000)
    FkRetryCovers, \* TRUE: ten attempts outlast a handler that is still going
                   \* to write the row a foreign key waits for
    MaxFaults,     \* bound: statements that fail all their attempts
    MaxCrashes     \* bound: restarts of the process

ASSUME HandlerConstants ==
    /\ FirstBlock \in Blocks
    /\ Concurrency \in Nat \ {0}
    /\ StrictMode \in BOOLEAN
    /\ RetriesLeft \in Nat
    /\ CacheSize \in Nat \ {0}
    /\ FkRetryCovers \in BOOLEAN
    /\ MaxFaults \in Nat
    /\ MaxCrashes \in Nat

VARIABLES
    \* database tables
    txName,       \* transactions: transaction_hash under which a tx is stored
    txActions,    \* transaction_actions: transactions whose actions are stored
    receiptRow,   \* receipts: originated_from_transaction_hash of a receipt
    outputRows,   \* action_receipt_output_data: receipts whose rows are stored
    outcomeRows,  \* execution_outcomes
    producedRows, \* execution_outcome_receipts: executed receipts with rows
    \* the process
    cache,        \* ReceiptsCache
    next,         \* height of the next message of the stream
    pc,           \* progress of the handler of a block
    suffix,       \* transaction_hash_suffix of the running pass of a block
    txPc, txTodo,                      \* store_chunk_transactions of a chunk
    rcPc, looking, found, retries,     \* store_chunk_receipts of a chunk
    outPc,                             \* store_execution_outcomes_for_chunk
    \* bounds
    faults, crashes

db    == <<txName, txActions, receiptRow, outputRows, outcomeRows, producedRows>>
txs   == <<suffix, txPc, txTodo>>
rcs   == <<rcPc, looking, found, retries>>
limits == <<faults, crashes>>
vars  == <<db, cache, next, pc, txs, rcs, outPc, limits>>

-----------------------------------------------------------------------------
NoNames == [k \in Keys |-> NoName]

Init ==
    /\ txName = [t \in Txs |-> NoName]
    /\ txActions = {}
    /\ receiptRow = [r \in Receipts |-> NoName]
    /\ outputRows = {}
    /\ outcomeRows = {}
    /\ producedRows = {}
    /\ cache = NoNames
    /\ next = FirstBlock
    /\ pc = [b \in Blocks |-> IF b < FirstBlock THEN "lost" ELSE "idle"]
    /\ suffix = [b \in Blocks |-> 0]
    /\ txPc = [c \in Chunks |-> "off"]
    /\ txTodo = [c \in Chunks |-> {}]
    /\ rcPc = [c \in Chunks |-> "off"]
    /\ looking = [c \in Chunks |-> {}]
    /\ found = [c \in Chunks |-> NoNames]
    /\ retries = [c \in Chunks |-> RetriesLeft]
    /\ outPc = [c \in Chunks |-> "off"]
    /\ faults = 0
    /\ crashes = 0

Running(b) == pc[b] \in {"block", "chunks", "parents", "outcomes"}

(* A task runs as long as the handler of its block does.  When try_join    *)
(* drops it, a statement it has already sent is still executed: the pool   *)
(* runs it on a thread of its own.                                         *)
Live(c)   == Running(BlockOf[c])
InDb(c)   == Live(c) \/ pc[BlockOf[c]] = "lost"
After(c, stage) == IF Live(c) THEN stage ELSE "off"

-----------------------------------------------------------------------------
(* ReceiptsCache: entries are replaced, removed, or evicted when the cache *)
(* is full.  A section of several calls turns it into f; if there may be   *)
(* more entries than fit on the way, any of them may be evicted: the order *)
(* in which SizedCache evicts is left out.                                 *)
Entries(f) == {k \in Keys : f[k] # NoName}

Kept(f) == IF Cardinality(Entries(cache) \cup Entries(f)) <= CacheSize
           THEN {Entries(f)}
           ELSE {s \in SUBSET Entries(f) : Cardinality(s) <= CacheSize}

CacheBecomes(f) ==
    \E s \in Kept(f) : cache' = [k \in Keys |-> IF k \in s THEN f[k] ELSE NoName]

-----------------------------------------------------------------------------
(* buffer_unordered in listen_blocks: handlers start in the order of the   *)
(* stream, at most Concurrency of them are in flight.                      *)
Start(b) ==
    /\ b = next
    /\ Cardinality({x \in Blocks : Running(x)}) < Concurrency
    /\ next' = next + 1
    /\ pc' = [pc EXCEPT ![b] = "block"]
    /\ UNCHANGED <<db, cache, txs, rcs, outPc, limits>>

StoreBlock(b) ==
    /\ pc[b] = "block"
    /\ pc' = [pc EXCEPT ![b] = "chunks"]
    /\ UNCHANGED <<db, cache, next, txs, rcs, outPc, limits>>

(* f, with the values of g for the chunks of block b.                      *)
OnBlock(b, f, g) == [c \in Chunks |-> IF BlockOf[c] = b THEN g[c] ELSE f[c]]

(* The two futures of the first try_join start: one task per chunk each,   *)
(* but store_receipts leaves out the chunks without receipts.              *)
StoreChunks(b) ==
    /\ pc[b] = "chunks"
    /\ pc' = [pc EXCEPT ![b] = "parents"]
    /\ suffix' = [suffix EXCEPT ![b] = 0]
    /\ txPc' = OnBlock(b, txPc, [c \in Chunks |-> "cache"])
    /\ txTodo' = OnBlock(b, txTodo, [c \in Chunks |-> TxsOf(c)])
    /\ rcPc' = OnBlock(b, rcPc,
                   [c \in Chunks |-> IF ReceiptsOf(c) = {} THEN "done" ELSE "cache"])
    /\ looking' = OnBlock(b, looking, [c \in Chunks |-> ReceiptsOf(c)])
    /\ found' = OnBlock(b, found, [c \in Chunks |-> NoNames])
    /\ retries' = OnBlock(b, retries, [c \in Chunks |-> RetriesLeft])
    /\ UNCHANGED <<db, cache, next, outPc, limits>>

-----------------------------------------------------------------------------
(* store_transactions                                                      *)
SuffixedName(t, s) == <<TxHash[t], s>>
NamesInUse == {txName[t] : t \in Txs} \ {NoName}

(* The receipt of every transaction of the pass gets the transaction's     *)
(* (suffixed) hash as its parent.                                          *)
WithTxs(c) ==
    [k \in Keys |-> IF \E t \in txTodo[c], r \in ActionReceipts :
                          Parent[r] = t /\ k = ReceiptId(r)
                    THEN SuffixedName(Parent[k[2]], suffix[BlockOf[c]])
                    ELSE cache[k]]

TxCache(c) ==
    /\ Live(c) /\ txPc[c] = "cache"
    /\ CacheBecomes(WithTxs(c))
    /\ txPc' = [txPc EXCEPT ![c] = "insert"]
    /\ UNCHANGED <<db, next, pc, suffix, txTodo, rcs, outPc, limits>>

(* on_conflict_do_nothing: a row whose primary key is taken is left out.   *)
TxInsert(c) ==
    /\ InDb(c) /\ txPc[c] = "insert"
    /\ txName' = [t \in Txs |->
          LET name == SuffixedName(t, suffix[BlockOf[c]])
          IN IF t \in txTodo[c] /\ name \notin NamesInUse THEN name ELSE txName[t]]
    /\ txPc' = [txPc EXCEPT ![c] = After(c, "actions")]
    /\ UNCHANGED <<txActions, receiptRow, outputRows, outcomeRows, producedRows,
                   cache, next, pc, suffix, txTodo, rcs, outPc, limits>>

(* The rows are keyed by the hash without the suffix in either pass.       *)
TxInsertActions(c) ==
    /\ InDb(c) /\ txPc[c] = "actions"
    /\ txActions' = txActions \cup
          {t \in txTodo[c] : \A u \in txActions : TxHash[u] # TxHash[t]}
    /\ txPc' = [txPc EXCEPT
          ![c] = After(c, IF suffix[BlockOf[c]] = 0 THEN "stored" ELSE "done")]
    /\ UNCHANGED <<txName, receiptRow, outputRows, outcomeRows, producedRows,
                   cache, next, pc, suffix, txTodo, rcs, outPc, limits>>

(* collect_converted_to_receipt_ids, once the first pass is over in all    *)
(* chunks: a transaction of the block without a row has collided with a    *)
(* stored hash, and a second pass stores those under the suffixed hash.    *)
Collided(c) == {t \in TxsOf(c) : txName[t] = NoName}

FirstPassOver(b) ==
    /\ pc[b] = "parents"
    /\ ChunksOf(b) # {} /\ \A c \in ChunksOf(b) : txPc[c] = "stored"

TxCollect(b) ==
    /\ FirstPassOver(b)
    /\ IF \A c \in ChunksOf(b) : Collided(c) = {}
       THEN /\ txPc' = OnBlock(b, txPc, [c \in Chunks |-> "done"])
            /\ UNCHANGED <<suffix, txTodo>>
       ELSE /\ txPc' = OnBlock(b, txPc, [c \in Chunks |-> "cache"])
            /\ txTodo' = OnBlock(b, txTodo, [c \in Chunks |-> Collided(c)])
            /\ suffix' = [suffix EXCEPT ![b] = b]
    /\ UNCHANGED <<db, cache, next, pc, rcs, outPc, limits>>

-----------------------------------------------------------------------------
(* store_receipts: find_tx_hashes_for_receipts                             *)

(* The key under which store_chunk_receipts looks up the parent of r.      *)
KeyOf(r) == IF r \in ActionReceipts THEN ReceiptId(r) ELSE DataId(r)

LookingFor(c, kind) == looking[c] \cap kind

(* Bug: the search ends as soon as a query returns a row.                  *)
UnlessAny(c, hits, stage) == IF hits # {} THEN "publish" ELSE stage

(* The next stage: nothing is left to look for when `hits` resolves all.   *)
Unless(c, hits, stage) == IF hits = looking[c] THEN "publish" ELSE stage

(* found[c] and the rows (or cache entries) `row[r]` of the receipts hits. *)
FoundWith(c, hits, row) ==
    [k \in Keys |-> IF \E r \in hits : k = ReceiptId(r) THEN row[k[2]]
                                                        ELSE found[c][k]]

(* Action receipts are read from the cache, data ids are taken out of it.  *)
RcCache(c) ==
    LET hits == {r \in looking[c] : cache[KeyOf(r)] # NoName}
        taken == {DataId(d) : d \in LookingFor(c, DataReceipts)}
    IN  /\ Live(c) /\ rcPc[c] = "cache"
        /\ found' = [found EXCEPT ![c] =
               [k \in Keys |-> IF k \in {KeyOf(r) : r \in hits} THEN cache[k] ELSE NoName]]
        /\ cache' = [k \in Keys |-> IF k \in taken THEN NoName ELSE cache[k]]
        /\ looking' = [looking EXCEPT ![c] = @ \ hits]
        /\ rcPc' = [rcPc EXCEPT ![c] = Unless(c, hits, "data")]
        /\ UNCHANGED <<db, next, pc, txs, retries, outPc, limits>>

(* Data receipts, through action_receipt_output_data joined with receipts. *)
(* The row is looked up by data id and kept under the id of the receipt.   *)
RcQueryOutputData(c) ==
    LET hits == {d \in LookingFor(c, DataReceipts) :
                    Parent[d] \in outputRows /\ receiptRow[Parent[d]] # NoName}
        row == [d \in DataReceipts |-> receiptRow[Parent[d]]]
    IN  /\ Live(c) /\ rcPc[c] = "data"
        /\ found' = [found EXCEPT ![c] = FoundWith(c, hits, row)]
        /\ looking' = [looking EXCEPT ![c] = @ \ hits]
        /\ rcPc' = [rcPc EXCEPT ![c] = Unless(c, hits, "outcomes")]
        /\ UNCHANGED <<db, cache, next, pc, txs, retries, outPc, limits>>

(* Action receipts, through execution_outcome_receipts joined with receipts. *)
RcQueryOutcomes(c) ==
    LET hits == {r \in LookingFor(c, ActionReceipts) :
                    Parent[r] \in producedRows /\ receiptRow[Parent[r]] # NoName}
        row == [r \in ActionReceipts |-> receiptRow[Parent[r]]]
    IN  /\ Live(c) /\ rcPc[c] = "outcomes"
        /\ found' = [found EXCEPT ![c] = FoundWith(c, hits, row)]
        /\ looking' = [looking EXCEPT ![c] = @ \ hits]
        /\ rcPc' = [rcPc EXCEPT ![c] = Unless(c, hits, "txs")]
        /\ UNCHANGED <<db, cache, next, pc, txs, retries, outPc, limits>>

(* Bugs: the retries of non-strict mode are counted below 0, or not at all. *)
RetriesBelowZero(c) == IF StrictMode THEN retries[c] ELSE retries[c] - 1

RetriesUncounted(c) == retries[c]

(* What is still missing is searched for again: for ever in strict mode,   *)
(* and while retries_left is not 0 in non-strict mode.                     *)
GoOn(c) == StrictMode \/ retries[c] > 0

RetriesAfter(c) == IF StrictMode \/ retries[c] = 0 THEN retries[c] ELSE retries[c] - 1

(* Action receipts, through the transactions converted into them.          *)
RcQueryTxs(c) ==
    LET hits == {r \in LookingFor(c, ActionReceipts) :
                    Parent[r] \in Txs /\ txName[Parent[r]] # NoName}
        row == [r \in ActionReceipts |-> txName[Parent[r]]]
    IN  /\ Live(c) /\ rcPc[c] = "txs"
        /\ found' = [found EXCEPT ![c] = FoundWith(c, hits, row)]
        /\ looking' = [looking EXCEPT ![c] = @ \ hits]
        /\ rcPc' = [rcPc EXCEPT ![c] =
                       Unless(c, hits, IF GoOn(c) THEN "data" ELSE "publish")]
        /\ retries' = [retries EXCEPT ![c] = IF hits = looking[c] THEN @
                                             ELSE RetriesAfter(c)]
        /\ UNCHANGED <<db, cache, next, pc, txs, outPc, limits>>

-----------------------------------------------------------------------------
(* store_receipts: store_chunk_receipts                                    *)

(* skipping_receipt_ids, and the receipts that get a row.                  *)
Skipped(c) == {r \in ReceiptsOf(c) : found[c][KeyOf(r)] = NoName}
Resolved(c) == ReceiptsOf(c) \ Skipped(c)

(* Bug: the data ids are not announced in the cache.                       *)
WithoutOutputData(c) == cache

(* The data ids an action receipt outputs descend from its transaction.    *)
WithOutputData(c) ==
    [k \in Keys |->
        IF \E d \in DataReceipts : /\ k = DataId(d)
                                   /\ IncludedIn[Parent[d]] = c
                                   /\ found[c][ReceiptId(Parent[d])] # NoName
        THEN found[c][ReceiptId(Parent[k[2]])]
        ELSE cache[k]]

RcPublish(c) ==
    /\ Live(c) /\ rcPc[c] = "publish"
    /\ CacheBecomes(WithOutputData(c))
    /\ rcPc' = [rcPc EXCEPT ![c] = "insert"]
    /\ UNCHANGED <<db, next, pc, txs, looking, found, retries, outPc, limits>>

(* save_receipts: the originating transaction must be stored.              *)
RcInsert(c) ==
    /\ InDb(c) /\ rcPc[c] = "insert"
    /\ \A r \in Resolved(c) : found[c][KeyOf(r)] \in NamesInUse
    /\ receiptRow' = [r \in Receipts |->
                         IF r \in Resolved(c) /\ receiptRow[r] = NoName
                         THEN found[c][KeyOf(r)] ELSE receiptRow[r]]
    /\ rcPc' = [rcPc EXCEPT ![c] = After(c, "output")]
    /\ UNCHANGED <<txName, txActions, outputRows, outcomeRows, producedRows,
                   cache, next, pc, txs, looking, found, retries, outPc, limits>>

(* store_receipt_actions and store_receipt_data: of their tables only      *)
(* action_receipt_output_data is read again; the statements before it are  *)
(* in RcInsertOutputData and those after it in RcInsertDetails.            *)
RcInsertOutputData(c) ==
    /\ InDb(c) /\ rcPc[c] = "output"
    /\ outputRows' = outputRows \cup
          {r \in Resolved(c) \cap ActionReceipts : OutputData(r) # {}}
    /\ rcPc' = [rcPc EXCEPT ![c] = After(c, "details")]
    /\ UNCHANGED <<txName, txActions, receiptRow, outcomeRows, producedRows,
                   cache, next, pc, txs, looking, found, retries, outPc, limits>>

RcInsertDetails(c) ==
    /\ Live(c) /\ rcPc[c] = "details"
    /\ rcPc' = [rcPc EXCEPT ![c] = "done"]
    /\ UNCHANGED <<db, cache, next, pc, txs, looking, found, retries, outPc, limits>>

(* Bug: the receipts future is not waited for.                             *)
TransactionsStored(b) ==
    /\ pc[b] = "parents"
    /\ \A c \in ChunksOf(b) : txPc[c] = "done"
    /\ pc' = [pc EXCEPT ![b] = "outcomes"]
    /\ outPc' = OnBlock(b, outPc, [c \in Chunks |-> "cache"])
    /\ UNCHANGED <<db, cache, next, txs, rcs, limits>>

(* try_join!(transactions_future, receipts_future) is over.                *)
ParentsStored(b) ==
    /\ pc[b] = "parents"
    /\ \A c \in ChunksOf(b) : txPc[c] = "done" /\ rcPc[c] = "done"
    /\ pc' = [pc EXCEPT ![b] = "outcomes"]
    /\ outPc' = OnBlock(b, outPc, [c \in Chunks |-> "cache"])
    /\ UNCHANGED <<db, cache, next, txs, rcs, limits>>

-----------------------------------------------------------------------------
(* store_execution_outcomes                                                *)

(* Bugs: the hash found for an earlier outcome of the loop is used again;  *)
(* the entry of the executed receipt is read but not removed.              *)
WithStaleParent(c) ==
    [k \in Keys |->
        LET others == {q \in ExecutedBy(c) :
                         q # Parent[k[2]] /\ cache[ReceiptId(q)] # NoName}
        IN IF /\ k \in {ReceiptId(p) : p \in ActionReceipts}
              /\ Parent[k[2]] \in ExecutedBy(c)
              /\ others # {}
           THEN cache[ReceiptId(CHOOSE q \in others : TRUE)]
           ELSE cache[k]]

WithKeptParent(c) ==
    [k \in Keys |-> IF \E p \in ActionReceipts : /\ k = ReceiptId(p)
                                                 /\ Parent[p] \in ExecutedBy(c)
                    THEN cache[ReceiptId(Parent[k[2]])] ELSE cache[k]]

(* The entry of an executed receipt goes to the receipts it produced.      *)
WithOutcomes(c) ==
    [k \in Keys |->
        IF \E p \in ActionReceipts : /\ k = ReceiptId(p)
                                     /\ Parent[p] \in ExecutedBy(c)
                                     /\ cache[ReceiptId(Parent[p])] # NoName
        THEN cache[ReceiptId(Parent[k[2]])]
        ELSE IF k \in {ReceiptId(r) : r \in ExecutedBy(c)} THEN NoName ELSE cache[k]]

OutCache(c) ==
    /\ Live(c) /\ outPc[c] = "cache"
    /\ CacheBecomes(WithOutcomes(c))
    /\ outPc' = [outPc EXCEPT ![c] = "insert"]
    /\ UNCHANGED <<db, next, pc, txs, rcs, limits>>

(* execution_outcomes: the executed receipts must be stored.               *)
OutInsert(c) ==
    /\ InDb(c) /\ outPc[c] = "insert"
    /\ \A r \in ExecutedBy(c) : receiptRow[r] # NoName
    /\ outcomeRows' = outcomeRows \cup ExecutedBy(c)
    /\ outPc' = [outPc EXCEPT ![c] = After(c, "produced")]
    /\ UNCHANGED <<txName, txActions, receiptRow, outputRows, producedRows,
                   cache, next, pc, txs, rcs, limits>>

(* Bug: the relation of the executed to the produced receipts is not kept. *)
OutForgetProduced(c) ==
    /\ InDb(c) /\ outPc[c] = "produced"
    /\ outPc' = [outPc EXCEPT ![c] = After(c, "done")]
    /\ UNCHANGED <<db, cache, next, pc, txs, rcs, limits>>

(* execution_outcome_receipts.                                             *)
OutInsertProduced(c) ==
    /\ InDb(c) /\ outPc[c] = "produced"
    /\ producedRows' = producedRows \cup {r \in ExecutedBy(c) : Produced(r) # {}}
    /\ outPc' = [outPc EXCEPT ![c] = After(c, "done")]
    /\ UNCHANGED <<txName, txActions, receiptRow, outputRows, outcomeRows,
                   cache, next, pc, txs, rcs, limits>>

(* handle_message returns Ok(()).                                          *)
Finish(b) ==
    /\ pc[b] = "outcomes"
    /\ \A c \in ChunksOf(b) : outPc[c] = "done"
    /\ pc' = [pc EXCEPT ![b] = "done"]
    /\ UNCHANGED <<db, cache, next, txs, rcs, outPc, limits>>

-----------------------------------------------------------------------------
(* A statement that has failed ten times makes handle_message return Err,  *)
(* which listen_blocks ignores: the other tasks of the block are dropped.  *)
Fault ==
    /\ faults < MaxFaults
    /\ faults' = faults + 1
    /\ UNCHANGED crashes

Err(b) == pc' = [pc EXCEPT ![b] = "lost"]

(* store_block, store_chunks, the query of TxCollect, or a future of the   *)
(* second try_join that has a module of its own (accounts, assets, ...).   *)
BlockFails(b) ==
    /\ pc[b] \in {"block", "chunks", "outcomes"} \/ FirstPassOver(b)
    /\ Fault
    /\ Err(b)
    /\ UNCHANGED <<db, cache, next, txs, rcs, outPc>>

TxFails(c) ==
    /\ Live(c) /\ txPc[c] \in {"insert", "actions"} /\ Fault
    /\ Err(BlockOf[c])
    /\ txPc' = [txPc EXCEPT ![c] = "off"]
    /\ UNCHANGED <<db, cache, next, suffix, txTodo, rcs, outPc>>

(* The query of stage "data" is repeated without a limit: it never fails.  *)
RcFails(c) ==
    /\ Live(c) /\ rcPc[c] \in {"outcomes", "txs", "insert", "output", "details"}
    /\ Fault
    /\ Err(BlockOf[c])
    /\ rcPc' = [rcPc EXCEPT ![c] = "off"]
    /\ UNCHANGED <<db, cache, next, txs, looking, found, retries, outPc>>

OutFails(c) ==
    /\ Live(c) /\ outPc[c] \in {"insert", "produced"}
    /\ Fault
    /\ Err(BlockOf[c])
    /\ outPc' = [outPc EXCEPT ![c] = "off"]
    /\ UNCHANGED <<db, cache, next, txs, rcs>>

(* The ten attempts of an insert are also used up when a foreign key is    *)
(* not satisfied in time.  ParentsComing: the handler that may yet write   *)
(* the row is running, and it is assumed that the attempts outlast it.     *)
ParentsComing(b) == FkRetryCovers /\ pc[b] \in {"block", "chunks", "parents"}

RcGivesUp(c) ==
    /\ Live(c) /\ rcPc[c] = "insert"
    /\ \E r \in Resolved(c) : /\ found[c][KeyOf(r)] \notin NamesInUse
                              /\ ~ParentsComing(BlockOf[TxChunk[Root[r]]])
    /\ Err(BlockOf[c])
    /\ rcPc' = [rcPc EXCEPT ![c] = "off"]
    /\ UNCHANGED <<db, cache, next, txs, looking, found, retries, outPc, limits>>

OutGivesUp(c) ==
    /\ Live(c) /\ outPc[c] = "insert"
    /\ \E r \in ExecutedBy(c) : /\ receiptRow[r] = NoName
                                /\ ~ParentsComing(BlockOf[IncludedIn[r]])
    /\ Err(BlockOf[c])
    /\ outPc' = [outPc EXCEPT ![c] = "off"]
    /\ UNCHANGED <<db, cache, next, txs, rcs, limits>>

(* The process stops; what is in memory is gone and the stream starts      *)
(* again from height h (a sync mode of construct_near_indexer_config).     *)
Restart(h) ==
    /\ crashes < MaxCrashes
    /\ crashes' = crashes + 1
    /\ next' = h
    /\ cache' = NoNames
    /\ pc' = [b \in Blocks |-> IF b >= h THEN "idle"
                               ELSE IF pc[b] = "done" THEN "done" ELSE "lost"]
    /\ suffix' = [b \in Blocks |-> 0]
    /\ txPc' = [c \in Chunks |-> "off"]
    /\ txTodo' = [c \in Chunks |-> {}]
    /\ rcPc' = [c \in Chunks |-> "off"]
    /\ looking' = [c \in Chunks |-> {}]
    /\ found' = [c \in Chunks |-> NoNames]
    /\ retries' = [c \in Chunks |-> RetriesLeft]
    /\ outPc' = [c \in Chunks |-> "off"]
    /\ UNCHANGED <<db, faults>>

(* The stream has no further message.                                      *)
StreamEnds ==
    /\ next > LastBlock
    /\ \A b \in Blocks : ~Running(b)
    /\ UNCHANGED vars

-----------------------------------------------------------------------------
BlockStep(b) == Start(b) \/ StoreBlock(b) \/ StoreChunks(b) \/ TxCollect(b)
                \/ ParentsStored(b) \/ Finish(b)
TxStep(c)  == TxCache(c) \/ TxInsert(c) \/ TxInsertActions(c)
RcStep(c)  == \/ RcCache(c) \/ RcQueryOutputData(c) \/ RcQueryOutcomes(c)
              \/ RcQueryTxs(c) \/ RcPublish(c) \/ RcInsert(c)
              \/ RcInsertOutputData(c) \/ RcInsertDetails(c) \/ RcGivesUp(c)
OutStep(c) == \/ OutCache(c) \/ OutInsert(c) \/ OutInsertProduced(c)
              \/ OutGivesUp(c)
ChunkStep(c) == TxStep(c) \/ RcStep(c) \/ OutStep(c)

Next ==
    \/ \E b \in Blocks : BlockStep(b) \/ BlockFails(b)
    \/ \E c \in Chunks : ChunkStep(c) \/ TxFails(c) \/ RcFails(c) \/ OutFails(c)
    \/ \E h \in Blocks : Restart(h)
    \/ StreamEnds

Spec == Init /\ [][Next]_vars

(* Every future of buffer_unordered and of the joins is polled, and every  *)
(* statement sent is answered; ten failed attempts end in an error.        *)
FairSpec ==
    /\ Spec
    /\ \A b \in Blocks : WF_vars(BlockStep(b))
    /\ \A c \in Chunks : WF_vars(TxStep(c)) /\ WF_vars(RcStep(c)) /\ WF_vars(OutStep(c))
-----------------------------------------------------------------------------
TypeOK ==
    /\ txName \in [Txs -> Names \cup {NoName}]
    /\ txActions \subseteq Txs
    /\ receiptRow \in [Receipts -> Names \cup {NoName}]
    /\ outputRows \subseteq ActionReceipts
    /\ outcomeRows \subseteq ActionReceipts
    /\ producedRows \subseteq ActionReceipts
    /\ cache \in [Keys -> Names \cup {NoName}]
    /\ next \in 1..(LastBlock + 1)
    /\ pc \in [Blocks -> {"idle", "block", "chunks", "parents", "outcomes",
                          "done", "lost"}]
    /\ suffix \in [Blocks -> 0..LastBlock]
    /\ txPc \in [Chunks -> {"off", "cache", "insert", "actions", "stored", "done"}]
    /\ txTodo \in [Chunks -> SUBSET Txs]
    /\ rcPc \in [Chunks -> {"off", "cache", "data", "outcomes", "txs", "publish",
                            "insert", "output", "details", "done"}]
    /\ looking \in [Chunks -> SUBSET Receipts]
    /\ found \in [Chunks -> [Keys -> Names \cup {NoName}]]
    /\ retries \in [Chunks -> 0..RetriesLeft]
    /\ outPc \in [Chunks -> {"off", "cache", "insert", "produced", "done"}]
    /\ faults \in 0..MaxFaults
    /\ crashes \in 0..MaxCrashes

(* Every stored receipt originates from the transaction it descends from,  *)
(* under the very hash that transaction is stored under, whether its       *)
(* parent came from the cache or from one of the three queries of          *)
(* find_tx_hashes_for_receipts, and whatever ran or failed in between.     *)
OriginIsRoot ==
    \A r \in Receipts : receiptRow[r] # NoName => receiptRow[r] = txName[Root[r]]

(* A block that a strict handler reported as handled is in the database:   *)
(* its transactions with their own actions, its action receipts, the data  *)
(* ids they output, its outcomes and the receipts these produced.          *)
StrictBlockIsStored ==
    StrictMode =>
      \A b \in Blocks : pc[b] = "done" =>
        \A c \in ChunksOf(b) :
          /\ \A t \in TxsOf(c) : txName[t] # NoName /\ t \in txActions
          /\ \A r \in ReceiptsOf(c) \cap ActionReceipts :
                /\ receiptRow[r] # NoName
                /\ OutputData(r) # {} => r \in outputRows
          /\ ExecutedBy(c) \subseteq outcomeRows
          /\ \A r \in ExecutedBy(c) : Produced(r) # {} => r \in producedRows

(* Strict mode skips no receipt, as long as the process lives: the search  *)
(* of store_chunk_receipts ends with a parent for every receipt.           *)
NothingSkipped ==
    StrictMode /\ crashes = 0 =>
      \A c \in Chunks :
        rcPc[c] \in {"insert", "output", "details", "done"} => Skipped(c) = {}

(* An entry of the cache is taken out when it will not be asked for again: *)
(* after a block is handled the cache holds nothing for the receipts       *)
(* executed in it and for the data receipts included in it.                *)
CacheDrained ==
    \A b \in Blocks : pc[b] = "done" =>
      \A c \in ChunksOf(b) :
        /\ \A r \in ExecutedBy(c) : cache[ReceiptId(r)] = NoName
        /\ \A d \in ReceiptsOf(c) \cap DataReceipts : cache[DataId(d)] = NoName

(* Without failing statements every block of the stream is handled to the  *)
(* end: the searches of concurrent handlers wait for each other's rows but *)
(* never in a circle.                                                      *)
EveryBlockHandled == \A b \in FirstBlock..LastBlock : <>(pc[b] = "done")

(* With a bounded number of retries no non-strict handler waits for ever:  *)
(* every block of the stream ends as handled or as failed, also when its   *)
(* parents were never stored or a statement fails.                         *)
NonStrictNeverStuck ==
    ~StrictMode =>
        \A b \in FirstBlock..LastBlock : <>(pc[b] \in {"done", "lost"})

-----------------------------------------------------------------------------
(* In strict mode the handlers implement the ledger: a row of receipts     *)
(* read through its foreign key gives the origin of the receipt.           *)
Origin(r) == IF receiptRow[r] = NoName THEN NoName
             ELSE CHOOSE t \in Txs : txName[t] = receiptRow[r]

Required == [b \in Blocks |-> {r \in ActionReceipts : BlockOf[IncludedIn[r]] = b}]

Ledger == INSTANCE ReceiptLedger WITH
              NoTx    <- NoName,
              origin  <- [r \in Receipts |-> Origin(r)],
              handled <- {b \in Blocks : pc[b] = "done"}

ImplementsLedger == Ledger!Spec
=============================================================================
