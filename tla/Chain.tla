------------------------------- MODULE Chain --------------------------------
(***************************************************************************)
(* The blocks the embedded NEAR node streams to the indexer, as the        *)
(* adapters in src/src/db_adapters read them: which chunk includes which   *)
(* transaction and receipt, which chunk reports the execution outcome of a *)
(* receipt, and which transaction or receipt gave rise to a receipt.  The  *)
(* node is an external library: nothing in this module is a step of the    *)
(* indexer.                                                                *)
(***************************************************************************)
EXTENDS Naturals

CONSTANTS
    LastBlock,       \* the heights are 1..LastBlock
    Chunks,          \* the chunks of all blocks, one per shard and height
    BlockOf,         \* the height of a chunk
    Txs,             \* transactions
    TxHash,          \* the hash of a transaction; two of them may collide
    TxChunk,         \* the chunk that includes a transaction
    ActionReceipts,  \* receipts of kind Action
    DataReceipts,    \* receipts of kind Data; each also stands for its data id
    Parent,          \* of an action receipt: the transaction converted into it
                     \* or the receipt whose outcome produced it; of a data
                     \* receipt: the receipt that lists its data id as output
    IncludedIn,      \* the chunk that includes a receipt
    ExecutedIn,      \* the chunk that reports the outcome, or NoChunk
    Root,            \* the transaction a receipt descends from
    NoChunk, NoName  \* absent values

Blocks   == 1..LastBlock
Receipts == ActionReceipts \cup DataReceipts
Hashes   == {TxHash[t] : t \in Txs}

(* A stored transaction hash: the hash and its suffix, 0 for "" and a      *)
(* height h for "_issue84_h" (transactions.rs).                            *)
Names == Hashes \X (0..LastBlock)

(* Keys of ReceiptsCache and of the maps built from it: ReceiptOrDataId.   *)
ReceiptId(r) == <<"ReceiptId", r>>
DataId(d)    == <<"DataId", d>>
Keys == {ReceiptId(r) : r \in Receipts} \cup {DataId(d) : d \in DataReceipts}

(* The contents of a chunk and of a block.                                 *)
ChunksOf(b)   == {c \in Chunks : BlockOf[c] = b}
TxsOf(c)      == {t \in Txs : TxChunk[t] = c}
ReceiptsOf(c) == {r \in Receipts : IncludedIn[r] = c}
ExecutedBy(c) == {r \in ActionReceipts : ExecutedIn[r] = c}

(* `receipt_ids` of the outcome of r, and the data ids r outputs.          *)
Produced(r)   == {p \in ActionReceipts : Parent[p] = r}
OutputData(r) == {d \in DataReceipts : Parent[d] = r}

ASSUME ChainShape ==
    /\ LastBlock \in Nat \ {0}
    /\ BlockOf \in [Chunks -> Blocks]
    /\ TxChunk \in [Txs -> Chunks]
    /\ TxHash \in [Txs -> Hashes]
    /\ Parent \in [Receipts -> Txs \cup ActionReceipts]
    /\ IncludedIn \in [Receipts -> Chunks]
    /\ ExecutedIn \in [ActionReceipts -> Chunks \cup {NoChunk}]
    /\ Root \in [Receipts -> Txs]
    /\ NoChunk \notin Chunks
    /\ NoName \notin Names
    /\ Txs \cap Receipts = {}
    /\ ActionReceipts \cap DataReceipts = {}

ASSUME RootsFollowParents ==
    \A r \in Receipts : Root[r] = IF Parent[r] \in Txs THEN Parent[r]
                                                       ELSE Root[Parent[r]]

(* A block only refers to what the chain produced before it: the receipt   *)
(* of a transaction appears in the same block at the earliest (a "local"   *)
(* receipt), a receipt produced by an execution in a later block, and an   *)
(* outcome is not reported before its receipt.                             *)
ASSUME ChainOrder ==
    /\ \A r \in Receipts :
          IF Parent[r] \in Txs
          THEN /\ r \in ActionReceipts
               /\ BlockOf[TxChunk[Parent[r]]] <= BlockOf[IncludedIn[r]]
          ELSE /\ ExecutedIn[Parent[r]] \in Chunks
               /\ BlockOf[ExecutedIn[Parent[r]]] < BlockOf[IncludedIn[r]]
    /\ \A r \in ActionReceipts :
          ExecutedIn[r] \in Chunks =>
              BlockOf[IncludedIn[r]] <= BlockOf[ExecutedIn[r]]

(* Every transaction is converted into exactly one receipt.                *)
ASSUME OneReceiptPerTx ==
    \A p, q \in Receipts :
        Parent[p] \in Txs /\ Parent[p] = Parent[q] => p = q
=============================================================================
