----------------------------- MODULE CacheProofs -----------------------------
(***************************************************************************)
(* One handler at a time (Concurrency = 1): after a block is handled the   *)
(* cache holds nothing that the block has used up, for every chain, cache  *)
(* size, and any failing statements and restarts; and a strict handler     *)
(* skips no receipt if besides the cache has room for every key.  Neither  *)
(* needs the hashes of the transactions to be distinct.                    *)
(*                                                                         *)
(* The argument is one of order: an entry is written by a block that is    *)
(* not later than the block that asks for it, and the handlers take turns. *)
(***************************************************************************)
EXTENDS HandleMessageProofs, FiniteSetTheorems

OneHandler == Concurrency = 1

(* The only handler that runs is that of the last message taken.           *)
TurnInv ==
    \A b \in Blocks : /\ Running(b) => b = next - 1
                      /\ b >= next => pc[b] = "idle"

(* What the block that asks last has taken out of the cache.               *)
DataGone(c) ==
    \A d \in ReceiptsOf(c) \cap DataReceipts : cache[DataId(d)] = NoName
ExecutedGone(c) == \A r \in ExecutedBy(c) : cache[ReceiptId(r)] = NoName

StageInv ==
    \A c \in Chunks :
        /\ txTodo[c] \subseteq TxsOf(c)
        /\ looking[c] \subseteq ReceiptsOf(c)
        /\ rcPc[c] = "cache" => looking[c] = ReceiptsOf(c)
        /\ pc[BlockOf[c]] = "outcomes" => txPc[c] = "done" /\ rcPc[c] = "done"

DrainInv ==
    \A c \in Chunks :
        /\ \/ pc[BlockOf[c]] = "done"
           \/ pc[BlockOf[c]] \in {"parents", "outcomes"} /\ rcPc[c] \notin {"off", "cache"}
           => DataGone(c)
        /\ \/ pc[BlockOf[c]] = "done"
           \/ pc[BlockOf[c]] = "outcomes" /\ outPc[c] \notin {"off", "cache"}
           => ExecutedGone(c)

CacheInv == TypeOK /\ TurnInv /\ StageInv /\ DrainInv

(* An entry is written by a block that is not later than its last reader.  *)
LEMMA WritersComeFirst ==
    ASSUME NEW c \in Chunks, NEW x \in Chunks
    PROVE  /\ \A r \in ExecutedBy(x) :
                 /\ Parent[r] \in TxsOf(c) => BlockOf[c] <= BlockOf[x]
                 /\ Parent[r] \in ExecutedBy(c) => BlockOf[c] < BlockOf[x]
           /\ \A d \in ReceiptsOf(x) \cap DataReceipts :
                 IncludedIn[Parent[d]] = c => BlockOf[c] < BlockOf[x]
<1>0. \A y \in Chunks : BlockOf[y] \in Nat
  BY ChainShape DEF Blocks
<1>1. \A r \in Receipts : IncludedIn[r] \in Chunks
  BY ChainShape
<1>2. ASSUME NEW r \in ExecutedBy(x)
      PROVE  /\ Parent[r] \in TxsOf(c) => BlockOf[c] <= BlockOf[x]
             /\ Parent[r] \in ExecutedBy(c) => BlockOf[c] < BlockOf[x]
  <2>1. r \in ActionReceipts /\ r \in Receipts /\ ExecutedIn[r] = x
    BY DEF ExecutedBy, Receipts
  <2>2. BlockOf[IncludedIn[r]] <= BlockOf[x]
    BY <2>1, ChainOrder
  <2>3. Parent[r] \in TxsOf(c) => BlockOf[c] <= BlockOf[IncludedIn[r]]
    BY <2>1, ChainOrder DEF TxsOf
  <2>4. Parent[r] \in ExecutedBy(c) => BlockOf[c] < BlockOf[IncludedIn[r]]
    <3> SUFFICES ASSUME Parent[r] \in ExecutedBy(c)
                 PROVE  BlockOf[c] < BlockOf[IncludedIn[r]]
      OBVIOUS
    <3>1. Parent[r] \notin Txs /\ ExecutedIn[Parent[r]] = c
      BY ChainShape DEF ExecutedBy, Receipts
    <3> QED BY <2>1, <3>1, ChainOrder
  <2> QED BY <1>0, <1>1, <2>1, <2>2, <2>3, <2>4
<1>3. ASSUME NEW d \in ReceiptsOf(x) \cap DataReceipts, IncludedIn[Parent[d]] = c
      PROVE  BlockOf[c] < BlockOf[x]
  <2>1. d \in Receipts /\ IncludedIn[d] = x /\ Parent[d] \in ActionReceipts
    BY Roots DEF ReceiptsOf
  <2>2. Parent[d] \notin Txs /\ Parent[d] \in Receipts
    BY <2>1, ChainShape DEF Receipts
  <2>3. /\ ExecutedIn[Parent[d]] \in Chunks
        /\ BlockOf[ExecutedIn[Parent[d]]] < BlockOf[x]
    BY <2>1, <2>2, ChainOrder
  <2>4. BlockOf[c] <= BlockOf[ExecutedIn[Parent[d]]]
    BY <1>3, <2>1, <2>3, ChainOrder
  <2> QED BY <1>0, <2>3, <2>4
<1> QED BY <1>2, <1>3

(* The entries a section under the lock may add.                           *)
LEMMA EntriesAdded ==
    ASSUME TypeOK, NEW c \in Chunks, NEW k \in Keys,
           cache[k] = NoName, cache'[k] # NoName
    PROVE  /\ TxCache(c) => \E r \in ActionReceipts :
                               k = ReceiptId(r) /\ Parent[r] \in txTodo[c]
           /\ RcPublish(c) => \E d \in DataReceipts :
                               k = DataId(d) /\ IncludedIn[Parent[d]] = c
           /\ OutCache(c) => \E r \in ActionReceipts :
                               k = ReceiptId(r) /\ Parent[r] \in ExecutedBy(c)
           /\ ~RcCache(c)
<1>1. ASSUME TxCache(c)
      PROVE  \E r \in ActionReceipts : k = ReceiptId(r) /\ Parent[r] \in txTodo[c]
  <2>1. WithTxs(c)[k] # cache[k]
    BY <1>1, CacheTypes, CachePart DEF TxCache
  <2> QED BY <2>1 DEF WithTxs
<1>2. ASSUME RcPublish(c)
      PROVE  \E d \in DataReceipts : k = DataId(d) /\ IncludedIn[Parent[d]] = c
  <2>1. WithOutputData(c)[k] # cache[k]
    BY <1>2, CacheTypes, CachePart DEF RcPublish
  <2> QED BY <2>1 DEF WithOutputData
<1>3. ASSUME OutCache(c)
      PROVE  \E r \in ActionReceipts : k = ReceiptId(r) /\ Parent[r] \in ExecutedBy(c)
  <2>1. WithOutcomes(c)[k] # NoName
    BY <1>3, CacheTypes, CachePart DEF OutCache
  <2> QED BY <2>1 DEF WithOutcomes
<1>4. ~RcCache(c)
  BY DEF RcCache
<1> QED BY <1>1, <1>2, <1>3, <1>4

LEMMA KeyKinds ==
    /\ \A r \in Receipts, d \in DataReceipts : ReceiptId(r) # DataId(d)
    /\ \A r, q \in Receipts : ReceiptId(r) = ReceiptId(q) => r = q
    /\ \A d, e \in DataReceipts : DataId(d) = DataId(e) => d = e
BY DEF ReceiptId, DataId

-----------------------------------------------------------------------------
(* Turns.  No handler starts while another one runs.                       *)
LEMMA NoneRuns ==
    ASSUME OneHandler, NEW b \in Blocks, Start(b)
    PROVE  \A x \in Blocks : ~Running(x)
<1> DEFINE running == {x \in Blocks : Running(x)}
<1>1. IsFiniteSet(running)
  <2>1. IsFiniteSet(Blocks)
    BY ChainShape, FS_Interval DEF Blocks
  <2> QED BY <2>1, FS_Subset
<1>2. Cardinality(running) \in Nat /\ Cardinality(running) < 1
  BY <1>1, FS_CardinalityType DEF Start, OneHandler
<1>3. Cardinality(running) = 0
  BY <1>2
<1>4. running = {}
  BY <1>1, <1>3, FS_EmptySet
<1> QED BY <1>4

LEMMA TurnInductive ==
    ASSUME OneHandler, TypeOK, TurnInv, [Next]_vars
    PROVE  TurnInv'
<1> USE DEF TurnInv, Running
<1>0. next \in Nat /\ \A b \in Blocks : b \in Nat
  BY ChainShape DEF TypeOK, Blocks
<1>1. ASSUME next' = next,
             \A b \in Blocks : pc'[b] = pc[b] \/ Running(b)
      PROVE  TurnInv'
  BY <1>0, <1>1
<1>2. CASE \E b \in Blocks : BlockStep(b) \/ BlockFails(b)
  <2>1. PICK b \in Blocks : BlockStep(b) \/ BlockFails(b)
    BY <1>2
  <2>2. CASE Start(b)
    <3>1. /\ b = next /\ next' = next + 1 /\ pc'[b] = "block"
          /\ \A x \in Blocks \ {b} : pc'[x] = pc[x]
      BY <2>2 DEF Start, TypeOK
    <3>2. \A x \in Blocks : ~Running(x)
      BY <2>2, NoneRuns
    <3> QED BY <1>0, <3>1, <3>2
  <2>3. CASE ~Start(b)
    <3>1. Running(b)
      BY <2>1, <2>3 DEF BlockStep, BlockFails, StoreBlock, StoreChunks, TxCollect,
            FirstPassOver, ParentsStored, Finish, Err, TypeOK
    <3>2. next' = next /\ \A x \in Blocks \ {b} : pc'[x] = pc[x]
      BY <2>1, <2>3 DEF BlockStep, BlockFails, StoreBlock, StoreChunks, TxCollect,
            ParentsStored, Finish, Err, TypeOK
    <3> QED BY <1>1, <3>1, <3>2
  <2> QED BY <2>2, <2>3
<1>3. CASE \E c \in Chunks : ChunkStep(c) \/ TxFails(c) \/ RcFails(c) \/ OutFails(c)
  <2>1. PICK c \in Chunks : ChunkStep(c) \/ TxFails(c) \/ RcFails(c) \/ OutFails(c)
    BY <1>3
  <2>2. next' = next /\ (pc' = pc \/ (Err(BlockOf[c]) /\ Running(BlockOf[c])))
    BY <2>1 DEF Live, ChunkStep, TxStep, RcStep, OutStep, TxCache, TxInsert, TxInsertActions,
          RcCache, RcQueryOutputData, RcQueryOutcomes, RcQueryTxs, RcPublish, RcInsert,
          RcInsertOutputData, RcInsertDetails, RcGivesUp, OutCache, OutInsert,
          OutInsertProduced, OutGivesUp, TxFails, RcFails, OutFails
  <2> QED BY <1>1, <2>2 DEF Err, TypeOK
<1>4. CASE \E h \in Blocks : Restart(h)
  BY <1>0, <1>4 DEF Restart
<1>5. CASE UNCHANGED vars
  BY <1>1, <1>5 DEF vars
<1> QED BY <1>2, <1>3, <1>4, <1>5 DEF Next, StreamEnds

-----------------------------------------------------------------------------
(* Stages.                                                                 *)
LEMMA StageInductive ==
    ASSUME TypeOK, StageInv, [Next]_vars
    PROVE  StageInv'
<1> USE DEF StageInv
<1>1. CASE \E b \in Blocks : BlockStep(b) \/ BlockFails(b)
  <2>1. PICK b \in Blocks : BlockStep(b) \/ BlockFails(b)
    BY <1>1
  <2>2. CASE Start(b)
    BY <2>2 DEF Start, TypeOK, txs, rcs
  <2>3. CASE StoreBlock(b)
    BY <2>3 DEF StoreBlock, TypeOK, txs, rcs
  <2>4. CASE StoreChunks(b)
    BY <2>4 DEF StoreChunks, TypeOK, OnBlock
  <2>5. CASE TxCollect(b)
    BY <2>5 DEF TxCollect, FirstPassOver, TypeOK, OnBlock, Collided, rcs
  <2>6. CASE ParentsStored(b)
    BY <2>6 DEF ParentsStored, TypeOK, ChunksOf, txs, rcs
  <2>7. CASE Finish(b)
    BY <2>7 DEF Finish, TypeOK, txs, rcs
  <2>8. CASE BlockFails(b)
    BY <2>8 DEF BlockFails, Err, TypeOK, txs, rcs
  <2> QED BY <2>1, <2>2, <2>3, <2>4, <2>5, <2>6, <2>7, <2>8 DEF BlockStep
<1>2. CASE \E c \in Chunks : TxStep(c) \/ TxFails(c)
  <2>1. PICK c \in Chunks : TxStep(c) \/ TxFails(c)
    BY <1>2
  <2>2. CASE TxCache(c)
    BY <2>2 DEF TxCache, TypeOK, rcs
  <2>3. CASE TxInsert(c)
    BY <2>3 DEF TxInsert, TypeOK, rcs
  <2>4. CASE TxInsertActions(c)
    BY <2>4 DEF TxInsertActions, TypeOK, rcs
  <2>5. CASE TxFails(c)
    BY <2>5 DEF TxFails, Err, TypeOK, rcs
  <2> QED BY <2>1, <2>2, <2>3, <2>4, <2>5 DEF TxStep
<1>3. CASE \E c \in Chunks : RcStep(c) \/ RcFails(c)
  <2>1. PICK c \in Chunks : RcStep(c) \/ RcFails(c)
    BY <1>3
  <2>2. /\ txs' = txs
        /\ pc' = pc \/ Err(BlockOf[c])
        /\ rcPc[c] # "done"
        /\ rcPc'[c] # "cache"
        /\ looking'[c] \subseteq looking[c]
    BY <2>1 DEF RcStep, RcCache, RcQueryOutputData, RcQueryOutcomes, RcQueryTxs,
          RcPublish, RcInsert, RcInsertOutputData, RcInsertDetails, RcGivesUp, RcFails,
          Unless, After, TypeOK
  <2>3. \A x \in Chunks \ {c} : rcPc'[x] = rcPc[x] /\ looking'[x] = looking[x]
    BY <2>1 DEF RcStep, RcCache, RcQueryOutputData, RcQueryOutcomes, RcQueryTxs,
          RcPublish, RcInsert, RcInsertOutputData, RcInsertDetails, RcGivesUp, RcFails,
          TypeOK
  <2> QED BY <2>2, <2>3, ChainTypes DEF Err, TypeOK, txs
<1>4. CASE \E c \in Chunks : OutStep(c) \/ OutFails(c)
  <2>1. txs' = txs /\ rcs' = rcs /\ \E b \in Blocks : pc' = pc \/ Err(b)
    BY <1>4, ChainTypes DEF OutStep, OutCache, OutInsert, OutInsertProduced,
          OutGivesUp, OutFails, txs
  <2> QED BY <2>1, ChainTypes DEF Err, TypeOK, txs, rcs
<1>5. CASE \E h \in Blocks : Restart(h)
  BY <1>5, ChainTypes DEF Restart
<1>6. CASE UNCHANGED vars
  BY <1>6 DEF vars, txs, rcs
<1> QED BY <1>1, <1>2, <1>3, <1>4, <1>5, <1>6 DEF Next, ChunkStep, StreamEnds

-----------------------------------------------------------------------------
(* Drained entries.                                                        *)

(* A step that leaves the cache alone, or only takes entries out of it,    *)
(* has to justify the stages it enters.                                    *)
LEMMA NothingAdded ==
    ASSUME DrainInv,
           \A k \in Keys : cache[k] = NoName => cache'[k] = NoName,
           \A c \in Chunks :
             /\ pc'[BlockOf[c]] # pc[BlockOf[c]] =>
                   \/ pc'[BlockOf[c]] \notin {"parents", "outcomes", "done"}
                   \/ pc[BlockOf[c]] = "outcomes" /\ outPc[c] = "done" /\ rcPc[c] = "done"
             /\ rcPc'[c] # rcPc[c] => rcPc[c] \notin {"off", "cache"}
             /\ outPc'[c] # outPc[c] => outPc[c] \notin {"off", "cache"}
    PROVE  DrainInv'
<1>1. ASSUME NEW c \in Chunks, DataGone(c) PROVE DataGone(c)'
  BY <1>1, KeyParts DEF DataGone, ReceiptsOf
<1>2. ASSUME NEW c \in Chunks, ExecutedGone(c) PROVE ExecutedGone(c)'
  BY <1>2, KeyParts DEF ExecutedGone, ExecutedBy, Receipts
<1> QED BY <1>1, <1>2 DEF DrainInv

(* Handled blocks are behind the one that runs: what a chunk of a running  *)
(* block adds is not among what they have used up.                         *)
LEMMA HandledBehind ==
    ASSUME TypeOK, TurnInv, NEW c \in Chunks, Live(c), NEW x \in Chunks,
           pc[BlockOf[x]] = "done"
    PROVE  BlockOf[x] < BlockOf[c]
<1>1. next \in Nat /\ BlockOf[x] \in Nat /\ BlockOf[c] \in Nat
  BY ChainShape DEF TypeOK, Blocks
<1>2. BlockOf[c] = next - 1 /\ BlockOf[x] < next
  BY <1>1, ChainTypes DEF TurnInv, Live
<1>3. BlockOf[x] # BlockOf[c]
  BY DEF Live, Running
<1> QED BY <1>1, <1>2, <1>3

(* What a section under the lock adds is not gone for anyone.              *)
LEMMA GoneStaysGone ==
    ASSUME TypeOK, TurnInv, StageInv, NEW c \in Chunks, NEW x \in Chunks,
           TxCache(c) \/ RcCache(c) \/ RcPublish(c) \/ OutCache(c)
    PROVE  /\ /\ pc[BlockOf[x]] \in {"parents", "outcomes", "done"}
              /\ DataGone(x)
              => DataGone(x)'
           /\ /\ pc[BlockOf[x]] \in {"outcomes", "done"}
              /\ ExecutedGone(x)
              => ExecutedGone(x)'
<1> USE ChainTypes
<1>0. /\ Live(c)
      /\ TxCache(c) => txPc[c] = "cache"
      /\ BlockOf[x] \in Nat /\ BlockOf[c] \in Nat /\ next \in Nat
  BY ChainShape DEF TxCache, RcCache, RcPublish, OutCache, TypeOK, Blocks
<1>1. /\ pc[BlockOf[x]] = "done" => BlockOf[x] < BlockOf[c]
      /\ pc[BlockOf[x]] \in {"parents", "outcomes"} => BlockOf[x] = BlockOf[c]
  <2>1. pc[BlockOf[x]] \in {"parents", "outcomes"} => Running(BlockOf[x])
    BY DEF Running
  <2> QED BY <1>0, <2>1, HandledBehind DEF TurnInv, Live
<1>2. ASSUME pc[BlockOf[x]] \in {"parents", "outcomes", "done"}, DataGone(x),
             NEW d \in ReceiptsOf(x) \cap DataReceipts
      PROVE  cache'[DataId(d)] = NoName
  <2> SUFFICES ASSUME cache'[DataId(d)] # NoName PROVE FALSE
    OBVIOUS
  <2>1. DataId(d) \in Keys /\ cache[DataId(d)] = NoName
    BY <1>2, KeyParts DEF DataGone
  <2>2. \A r \in ActionReceipts : ReceiptId(r) # DataId(d)
    BY KeyKinds DEF Receipts
  <2>3. PICK e \in DataReceipts : DataId(d) = DataId(e) /\ IncludedIn[Parent[e]] = c
    BY <2>1, <2>2, EntriesAdded
  <2>4. BlockOf[c] < BlockOf[x]
    BY <2>3, KeyKinds, WritersComeFirst
  <2> QED BY <1>0, <1>1, <1>2, <2>4
<1>3. ASSUME pc[BlockOf[x]] \in {"outcomes", "done"}, ExecutedGone(x),
             NEW r \in ExecutedBy(x)
      PROVE  cache'[ReceiptId(r)] = NoName
  <2> SUFFICES ASSUME cache'[ReceiptId(r)] # NoName PROVE FALSE
    OBVIOUS
  <2>1. r \in Receipts /\ ReceiptId(r) \in Keys /\ cache[ReceiptId(r)] = NoName
    BY <1>3, KeyParts DEF ExecutedGone, Receipts
  <2>2. \A d \in DataReceipts : ReceiptId(r) # DataId(d)
    BY <2>1, KeyKinds
  <2>3. \A q \in ActionReceipts : ReceiptId(r) = ReceiptId(q) => q = r
    BY <2>1, KeyKinds DEF Receipts
  <2>4. \/ TxCache(c) /\ Parent[r] \in txTodo[c]
        \/ OutCache(c) /\ Parent[r] \in ExecutedBy(c)
    BY <2>1, <2>2, <2>3, EntriesAdded
  <2>5. CASE TxCache(c) /\ Parent[r] \in txTodo[c]
    <3>1. BlockOf[c] <= BlockOf[x]
      BY <2>5, WritersComeFirst DEF StageInv
    <3>2. pc[BlockOf[c]] = "outcomes"
      BY <1>0, <1>1, <1>3, <3>1
    <3> QED BY <1>0, <2>5, <3>2 DEF StageInv
  <2>6. CASE OutCache(c) /\ Parent[r] \in ExecutedBy(c)
    <3>1. BlockOf[c] < BlockOf[x]
      BY <2>6, WritersComeFirst
    <3> QED BY <1>0, <1>1, <1>3, <3>1
  <2> QED BY <2>4, <2>5, <2>6
<1>4. DataGone(x)' <=> \A d \in ReceiptsOf(x) \cap DataReceipts : cache'[DataId(d)] = NoName
  BY DEF DataGone
<1>5. ExecutedGone(x)' <=> \A r \in ExecutedBy(x) : cache'[ReceiptId(r)] = NoName
  BY DEF ExecutedGone
<1> QED BY <1>2, <1>3, <1>4, <1>5

(* The sections that take entries out.                                     *)
LEMMA TakenOut ==
    ASSUME TypeOK, StageInv, NEW c \in Chunks
    PROVE  /\ RcCache(c) => DataGone(c)'
           /\ OutCache(c) => ExecutedGone(c)'
<1>1. ASSUME RcCache(c) PROVE DataGone(c)'
  <2>1. looking[c] = ReceiptsOf(c)
    BY <1>1 DEF RcCache, StageInv
  <2>2. \A d \in ReceiptsOf(c) \cap DataReceipts : cache'[DataId(d)] = NoName
    BY <1>1, <2>1, KeyParts DEF RcCache, LookingFor
  <2> QED BY <2>2 DEF DataGone
<1>2. ASSUME OutCache(c) PROVE ExecutedGone(c)'
  <2>1. ASSUME NEW r \in ExecutedBy(c) PROVE cache'[ReceiptId(r)] = NoName
    <3>1. r \in ActionReceipts /\ r \in Receipts /\ ReceiptId(r) \in Keys
      BY KeyParts DEF ExecutedBy, Receipts
    <3>2. Parent[r] \notin ExecutedBy(c)
      BY ChainShape, WritersComeFirst DEF Blocks
    <3>3. \A p \in ActionReceipts : ReceiptId(r) = ReceiptId(p) => p = r
      BY <3>1, KeyKinds DEF Receipts
    <3>4. WithOutcomes(c)[ReceiptId(r)] = NoName
      BY <3>1, <3>2, <3>3 DEF WithOutcomes
    <3> QED BY <1>2, <3>1, <3>4, CacheTypes, CachePart DEF OutCache
  <2> QED BY <2>1 DEF ExecutedGone
<1> QED BY <1>1, <1>2

LEMMA BlockStepDrain ==
    ASSUME CacheInv, NEW b \in Blocks, BlockStep(b) \/ BlockFails(b)
    PROVE  DrainInv'
<1> USE DEF CacheInv
<1>0. cache' = cache
  BY DEF BlockStep, BlockFails, Start, StoreBlock, StoreChunks, TxCollect,
        ParentsStored, Finish, db
<1>1. CASE Start(b)
  BY <1>0, <1>1, NothingAdded DEF Start, TypeOK, rcs
<1>2. CASE StoreBlock(b)
  BY <1>0, <1>2, NothingAdded DEF StoreBlock, TypeOK, rcs
<1>3. CASE StoreChunks(b)
  <2>1. ASSUME NEW x \in Chunks, BlockOf[x] = b, rcPc'[x] \notin {"off", "cache"}
        PROVE  DataGone(x)'
    <3>1. ReceiptsOf(x) = {}
      BY <1>3, <2>1 DEF StoreChunks, OnBlock, TypeOK
    <3> QED BY <3>1 DEF DataGone
  <2>2. \A x \in Chunks : BlockOf[x] = b => pc'[BlockOf[x]] = "parents"
    BY <1>3 DEF StoreChunks, TypeOK
  <2>3. \A x \in Chunks : BlockOf[x] # b =>
            /\ pc'[BlockOf[x]] = pc[BlockOf[x]]
            /\ rcPc'[x] = rcPc[x] /\ outPc'[x] = outPc[x]
            /\ DataGone(x)' = DataGone(x) /\ ExecutedGone(x)' = ExecutedGone(x)
    BY <1>0, <1>3, ChainTypes DEF StoreChunks, OnBlock, TypeOK, DataGone, ExecutedGone
  <2> QED BY <2>1, <2>2, <2>3 DEF DrainInv
<1>4. CASE TxCollect(b)
  BY <1>0, <1>4, NothingAdded DEF TxCollect, rcs
<1>5. CASE ParentsStored(b)
  <2>1. \A x \in Chunks : DataGone(x)' = DataGone(x) /\ ExecutedGone(x)' = ExecutedGone(x)
    BY <1>0 DEF DataGone, ExecutedGone
  <2>2. \A x \in Chunks : BlockOf[x] = b =>
            /\ pc[BlockOf[x]] = "parents" /\ pc'[BlockOf[x]] = "outcomes"
            /\ rcPc[x] = "done" /\ outPc'[x] = "cache"
    BY <1>5 DEF ParentsStored, ChunksOf, OnBlock, TypeOK
  <2>3. \A x \in Chunks : BlockOf[x] # b =>
            /\ pc'[BlockOf[x]] = pc[BlockOf[x]]
            /\ rcPc'[x] = rcPc[x] /\ outPc'[x] = outPc[x]
    BY <1>5, ChainTypes DEF ParentsStored, OnBlock, TypeOK, rcs
  <2> QED BY <2>1, <2>2, <2>3 DEF DrainInv
<1>6. CASE Finish(b)
  <2>1. \A x \in Chunks : BlockOf[x] = b =>
            pc[BlockOf[x]] = "outcomes" /\ outPc[x] = "done" /\ rcPc[x] = "done"
    BY <1>6 DEF Finish, ChunksOf, StageInv
  <2>2. \A x \in Chunks : BlockOf[x] # b => pc'[BlockOf[x]] = pc[BlockOf[x]]
    BY <1>6, ChainTypes DEF Finish, TypeOK
  <2> QED BY <1>0, <1>6, <2>1, <2>2, NothingAdded DEF Finish, rcs
<1>7. CASE BlockFails(b)
  BY <1>0, <1>7, NothingAdded DEF BlockFails, Err, TypeOK, rcs
<1> QED BY <1>1, <1>2, <1>3, <1>4, <1>5, <1>6, <1>7 DEF BlockStep

LEMMA ChunkStepDrain ==
    ASSUME CacheInv, NEW c \in Chunks,
           ChunkStep(c) \/ TxFails(c) \/ RcFails(c) \/ OutFails(c)
    PROVE  DrainInv'
<1> USE DEF CacheInv
<1> DEFINE Locked == TxCache(c) \/ RcCache(c) \/ RcPublish(c) \/ OutCache(c)
<1>1. CASE Locked
  <2>1. pc' = pc
    BY <1>1 DEF TxCache, RcCache, RcPublish, OutCache
  <2>2. \A x \in Chunks :
           /\ rcPc'[x] # rcPc[x] => x = c /\ (RcCache(c) \/ rcPc[c] = "publish")
           /\ outPc'[x] # outPc[x] => x = c /\ OutCache(c)
    BY <1>1 DEF TxCache, RcCache, RcPublish, OutCache, TypeOK, rcs
  <2>3. ASSUME NEW x \in Chunks PROVE
           /\ pc[BlockOf[x]] \in {"parents", "outcomes", "done"} /\ DataGone(x) => DataGone(x)'
           /\ pc[BlockOf[x]] \in {"outcomes", "done"} /\ ExecutedGone(x) => ExecutedGone(x)'
    BY <1>1, GoneStaysGone
  <2>4. RcCache(c) => DataGone(c)'
    BY TakenOut
  <2>5. OutCache(c) => ExecutedGone(c)'
    BY TakenOut
  <2> HIDE DEF Locked
  <2> QED BY <2>1, <2>2, <2>3, <2>4, <2>5 DEF DrainInv
<1>2. CASE ~Locked
  <2>1. cache' = cache
    BY <1>2 DEF ChunkStep, TxStep, RcStep, OutStep, TxInsert, TxInsertActions,
          RcQueryOutputData, RcQueryOutcomes, RcQueryTxs, RcInsert,
          RcInsertOutputData, RcInsertDetails, RcGivesUp, OutInsert,
          OutInsertProduced, OutGivesUp, TxFails, RcFails, OutFails
  <2>2. pc' = pc \/ Err(BlockOf[c])
    BY <1>2 DEF ChunkStep, TxStep, RcStep, OutStep, TxInsert, TxInsertActions,
          RcQueryOutputData, RcQueryOutcomes, RcQueryTxs, RcInsert,
          RcInsertOutputData, RcInsertDetails, RcGivesUp, OutInsert,
          OutInsertProduced, OutGivesUp, TxFails, RcFails, OutFails
  <2>3. \A x \in Chunks : rcPc'[x] # rcPc[x] => rcPc[x] \notin {"off", "cache"}
    BY <1>2 DEF ChunkStep, TxStep, RcStep, OutStep, TxInsert, TxInsertActions,
          RcQueryOutputData, RcQueryOutcomes, RcQueryTxs, RcInsert,
          RcInsertOutputData, RcInsertDetails, RcGivesUp, OutInsert,
          OutInsertProduced, OutGivesUp, TxFails, RcFails, OutFails, TypeOK, rcs
  <2>4. \A x \in Chunks : outPc'[x] # outPc[x] => outPc[x] \notin {"off", "cache"}
    BY <1>2 DEF ChunkStep, TxStep, RcStep, OutStep, TxInsert, TxInsertActions,
          RcQueryOutputData, RcQueryOutcomes, RcQueryTxs, RcInsert,
          RcInsertOutputData, RcInsertDetails, RcGivesUp, OutInsert,
          OutInsertProduced, OutGivesUp, TxFails, RcFails, OutFails, TypeOK
  <2>5. \A x \in Chunks : pc'[BlockOf[x]] # pc[BlockOf[x]] => pc'[BlockOf[x]] = "lost"
    BY <2>2, ChainTypes DEF Err, TypeOK
  <2> HIDE DEF Locked
  <2> QED BY <2>1, <2>3, <2>4, <2>5, NothingAdded
<1> QED BY <1>1, <1>2

LEMMA CacheInductive ==
    ASSUME OneHandler
    PROVE  /\ Init => CacheInv
           /\ CacheInv /\ [Next]_vars => CacheInv'
<1>1. Init => CacheInv
  <2> SUFFICES ASSUME Init PROVE CacheInv
    OBVIOUS
  <2>1. \A b \in Blocks : pc[b] \in {"lost", "idle"}
    BY DEF Init
  <2>2. TurnInv
    BY <2>1, HandlerConstants, ChainShape DEF TurnInv, Running, Init, Blocks
  <2>3. StageInv
    BY <2>1, ChainTypes DEF Init, StageInv
  <2>4. DrainInv
    BY <2>1, ChainTypes DEF DrainInv
  <2> QED BY <2>2, <2>3, <2>4, InitType DEF CacheInv
<1>2. CacheInv /\ [Next]_vars => CacheInv'
  <2> SUFFICES ASSUME CacheInv, [Next]_vars PROVE CacheInv'
    OBVIOUS
  <2>1. TypeOK' /\ TurnInv' /\ StageInv'
    BY TypeInductive, TurnInductive, StageInductive DEF CacheInv
  <2>2. DrainInv'
    <3>1. CASE UNCHANGED vars
      BY <3>1, NothingAdded DEF CacheInv, vars, rcs
    <3>2. CASE \E b \in Blocks : BlockStep(b) \/ BlockFails(b)
      BY <3>2, BlockStepDrain
    <3>3. CASE \E c \in Chunks : ChunkStep(c) \/ TxFails(c) \/ RcFails(c) \/ OutFails(c)
      BY <3>3, ChunkStepDrain
    <3>4. CASE \E h \in Blocks : Restart(h)
      <4>1. \A x \in Chunks : DataGone(x)' /\ ExecutedGone(x)'
        BY <3>4, KeyParts DEF Restart, NoNames, DataGone, ExecutedGone, ReceiptsOf,
              ExecutedBy, Receipts
      <4> QED BY <4>1 DEF DrainInv
    <3> QED BY <3>1, <3>2, <3>3, <3>4 DEF Next, StreamEnds
  <2> QED BY <2>1, <2>2 DEF CacheInv
<1> QED BY <1>1, <1>2

(* One handler at a time leaves no used entry in the cache: the insertions *)
(* of store_transactions, store_receipts and store_execution_outcomes      *)
(* never come after the removal that was to be the last use of a key.      *)
THEOREM CacheIsDrained == OneHandler => (Spec => []CacheDrained)
<1> SUFFICES ASSUME OneHandler PROVE Spec => []CacheDrained
  OBVIOUS
<1>1. CacheInv => CacheDrained
  <2> SUFFICES ASSUME CacheInv, NEW b \in Blocks, pc[b] = "done", NEW c \in ChunksOf(b)
               PROVE  DataGone(c) /\ ExecutedGone(c)
    BY DEF CacheDrained, DataGone, ExecutedGone
  <2>1. c \in Chunks /\ BlockOf[c] = b
    BY DEF ChunksOf
  <2> QED BY <2>1 DEF CacheInv, DrainInv
<1> QED BY <1>1, CacheInductive, PTL DEF Spec

-----------------------------------------------------------------------------
(* Skipping.  While the process lives and nothing is evicted, a data id    *)
(* that has been announced is in the cache until its chunk takes it out.   *)
(* Hence the query for data receipts, which keeps what it finds under the  *)
(* id of the receipt, never finds any; what the other searches find is     *)
(* kept under the key it is asked for.                                     *)
RoomForAll == IsFiniteSet(Keys) /\ Cardinality(Keys) <= CacheSize

Before == {"idle", "block", "chunks"}
Past   == {"insert", "output", "details", "done"}

Announced(r) ==
    \A d \in OutputData(r) :
        cache[DataId(d)] # NoName \/ found[IncludedIn[d]][DataId(d)] # NoName

AnnouncedInv ==
    \A r \in ActionReceipts :
        LET c == IncludedIn[r]
        IN r \in outputRows \/ (rcPc[c] \in Past /\ found[c][ReceiptId(r)] # NoName)
           => Announced(r)

FreshInv ==
    \A c \in Chunks :
        /\ pc[BlockOf[c]] \in Before => rcPc[c] = "off" /\ found[c] = NoNames
        /\ rcPc[c] = "cache" => found[c] = NoNames

FoundInv ==
    \A c \in Chunks :
        /\ rcPc[c] \notin {"off", "cache"} =>
              \A r \in ReceiptsOf(c) : r \in looking[c] <=> found[c][KeyOf(r)] = NoName
        /\ rcPc[c] \in Past \cup {"publish"} => looking[c] = {}

SkipInv == CacheInv /\ (crashes = 0 => AnnouncedInv /\ FreshInv /\ FoundInv)

LEMMA NothingEvicted ==
    ASSUME RoomForAll, NEW f \in [Keys -> NameOrNone], CacheBecomes(f)
    PROVE  cache' = f
<1>1. Cardinality(Entries(cache) \cup Entries(f)) <= Cardinality(Keys)
  BY FS_Subset DEF Entries, RoomForAll
<1>2. Cardinality(Entries(cache) \cup Entries(f)) \in Nat /\ Cardinality(Keys) \in Nat
  <2>1. IsFiniteSet(Entries(cache) \cup Entries(f))
    BY FS_Subset DEF Entries, RoomForAll
  <2> QED BY <2>1, FS_CardinalityType DEF RoomForAll
<1>3. Cardinality(Entries(cache) \cup Entries(f)) <= CacheSize
  BY <1>1, <1>2, HandlerConstants DEF RoomForAll
<1>4. Kept(f) = {Entries(f)}
  BY <1>3 DEF Kept
<1>5. cache' = [k \in Keys |-> IF k \in Entries(f) THEN f[k] ELSE NoName]
  BY <1>4 DEF CacheBecomes
<1> QED BY <1>5 DEF Entries

(* A step that searches for nothing.                                       *)
LEMMA NothingSearched ==
    ASSUME AnnouncedInv, FreshInv, FoundInv,
           UNCHANGED <<looking, found, outputRows>>,
           \A d \in DataReceipts : cache[DataId(d)] # NoName => cache'[DataId(d)] # NoName,
           \A c \in Chunks :
             /\ pc'[BlockOf[c]] \in Before => pc[BlockOf[c]] \in Before
             /\ \/ rcPc'[c] \in {rcPc[c], "off"}
                \/ rcPc[c] \in Past /\ rcPc'[c] \in Past
    PROVE  AnnouncedInv' /\ FreshInv' /\ FoundInv'
<1>1. AnnouncedInv'
  <2>1. \A r \in ActionReceipts : IncludedIn[r] \in Chunks
    BY ChainShape DEF Receipts
  <2>2. \A r \in ActionReceipts : Announced(r) => Announced(r)'
    BY DEF Announced, OutputData
  <2> QED BY <2>1, <2>2 DEF AnnouncedInv, Past
<1>2. FreshInv'
  BY DEF FreshInv, Past
<1>3. FoundInv'
  BY DEF FoundInv, Past
<1> QED BY <1>1, <1>2, <1>3

(* The searches add parents under the key the receipt is asked for.        *)
LEMMA ParentsFound ==
    ASSUME TypeOK, AnnouncedInv, FreshInv, FoundInv,
           NEW c \in Chunks, rcPc[c] \in {"data", "outcomes", "txs"}, Live(c),
           NEW hits \in SUBSET (looking[c] \cap ActionReceipts), NEW row,
           \A r \in hits : row[r] # NoName,
           found' = [found EXCEPT ![c] = FoundWith(c, hits, row)],
           looking' = [looking EXCEPT ![c] = @ \ hits],
           \A x \in Chunks \ {c} : rcPc'[x] = rcPc[x],
           rcPc'[c] \in {"data", "outcomes", "txs", "publish"},
           rcPc'[c] = "publish" => hits = looking[c],
           UNCHANGED <<cache, outputRows, pc>>
    PROVE  AnnouncedInv' /\ FreshInv' /\ FoundInv'
<1>1. ASSUME NEW k \in Keys
      PROVE  /\ (\E r \in hits : k = ReceiptId(r)) => found'[c][k] # NoName
             /\ ~(\E r \in hits : k = ReceiptId(r)) => found'[c][k] = found[c][k]
  <2>1. found'[c] = FoundWith(c, hits, row)
    BY DEF TypeOK
  <2>2. \A r \in hits : ReceiptId(r)[2] = r
    BY KeyParts DEF Receipts
  <2> QED BY <2>1, <2>2 DEF FoundWith
<1>2. \A x \in Chunks \ {c} :
         found'[x] = found[x] /\ looking'[x] = looking[x] /\ rcPc'[x] = rcPc[x]
  BY DEF TypeOK
<1>3. looking'[c] = looking[c] \ hits
  BY DEF TypeOK
<1>4. AnnouncedInv'
  <2>1. ASSUME NEW r \in ActionReceipts, Announced(r) PROVE Announced(r)'
    <3>1. ASSUME NEW d \in OutputData(r), found[IncludedIn[d]][DataId(d)] # NoName
          PROVE  found'[IncludedIn[d]][DataId(d)] # NoName
      <4>1. d \in DataReceipts /\ DataId(d) \in Keys /\ IncludedIn[d] \in Chunks
        BY KeyParts, ChainShape DEF OutputData, Receipts
      <4>2. \A q \in hits : DataId(d) # ReceiptId(q)
        BY <4>1, KeyKinds DEF Receipts
      <4> QED BY <1>1, <1>2, <3>1, <4>1, <4>2
    <3> QED BY <2>1, <3>1 DEF Announced, OutputData
  <2>2. \A r \in ActionReceipts : IncludedIn[r] \in Chunks
    BY ChainShape DEF Receipts
  <2> QED BY <1>2, <2>1, <2>2 DEF AnnouncedInv, Past
<1>5. FreshInv'
  <2>1. pc[BlockOf[c]] \notin Before
    BY DEF FreshInv
  <2> QED BY <1>2, <2>1 DEF FreshInv
<1>6. FoundInv'
  <2>1. ASSUME NEW r \in ReceiptsOf(c)
        PROVE  r \in looking'[c] <=> found'[c][KeyOf(r)] = NoName
    <3>1. r \in Receipts /\ KeyOf(r) \in Keys
      BY KeyParts DEF ReceiptsOf
    <3>2. (\E q \in hits : KeyOf(r) = ReceiptId(q)) <=> r \in hits
      BY <3>1, KeyKinds DEF KeyOf, Receipts
    <3>3. r \in looking[c] <=> found[c][KeyOf(r)] = NoName
      BY DEF FoundInv
    <3> QED BY <1>1, <1>3, <3>1, <3>2, <3>3
  <2>2. rcPc'[c] \in Past \cup {"publish"} => looking'[c] = {}
    BY <1>3 DEF Past
  <2> QED BY <1>2, <2>1, <2>2 DEF FoundInv
<1> QED BY <1>4, <1>5, <1>6

LEMMA RcStepSkip ==
    ASSUME StrictMode, RoomForAll, CacheInv, AnnouncedInv, FreshInv, FoundInv,
           NEW c \in Chunks, RcStep(c) \/ RcFails(c)
    PROVE  AnnouncedInv' /\ FreshInv' /\ FoundInv'
<1> USE DEF CacheInv
<1>0. \A r \in Receipts : IncludedIn[r] \in Chunks
  BY ChainShape
<1>1. CASE RcCache(c)
  <2>0. rcPc[c] = "cache" /\ looking[c] = ReceiptsOf(c) /\ found[c] = NoNames
        /\ pc[BlockOf[c]] \notin Before
    BY <1>1 DEF RcCache, StageInv, FreshInv
  <2> DEFINE hits == {r \in looking[c] : cache[KeyOf(r)] # NoName}
  <2>1. /\ \A x \in Chunks \ {c} : /\ found'[x] = found[x] /\ looking'[x] = looking[x]
                                   /\ rcPc'[x] = rcPc[x]
        /\ looking'[c] = looking[c] \ hits
        /\ rcPc'[c] \in {"data", "publish"}
        /\ rcPc'[c] = "publish" => hits = looking[c]
        /\ pc' = pc /\ outputRows' = outputRows
    BY <1>1 DEF RcCache, TypeOK, Unless, db
  <2>2. \A k \in Keys : found'[c][k] =
            IF k \in {KeyOf(r) : r \in hits} THEN cache[k] ELSE NoName
    BY <1>1 DEF RcCache, TypeOK
  <2>3. ASSUME NEW r \in ReceiptsOf(c)
        PROVE  found'[c][KeyOf(r)] # NoName <=> r \in hits
    <3>1. KeyOf(r) \in Keys /\ r \in looking[c]
      BY <2>0, KeyParts DEF ReceiptsOf
    <3>2. (\E q \in hits : KeyOf(r) = KeyOf(q)) => KeyOf(r) \in {KeyOf(q) : q \in hits}
      OBVIOUS
    <3>3. KeyOf(r) \in {KeyOf(q) : q \in hits} => cache[KeyOf(r)] # NoName
      OBVIOUS
    <3> QED BY <2>2, <3>1, <3>2, <3>3
  <2>4. AnnouncedInv'
    <3>1. ASSUME NEW r \in ActionReceipts, Announced(r),
                 NEW d \in OutputData(r)
          PROVE  cache'[DataId(d)] # NoName \/ found'[IncludedIn[d]][DataId(d)] # NoName
      <4>0. d \in DataReceipts /\ d \in Receipts /\ DataId(d) \in Keys
            /\ KeyOf(d) = DataId(d) /\ IncludedIn[d] \in Chunks
        BY <1>0, KeyParts, ChainShape DEF OutputData, KeyOf, Receipts
      <4>1. CASE IncludedIn[d] # c
        <5>1. d \notin looking[c]
          BY <2>0, <4>1 DEF ReceiptsOf
        <5>2. DataId(d) \notin {DataId(e) : e \in LookingFor(c, DataReceipts)}
          BY <4>0, <5>1, KeyKinds DEF LookingFor
        <5>3. cache'[DataId(d)] = cache[DataId(d)]
          BY <1>1, <4>0, <5>2 DEF RcCache
        <5> QED BY <2>1, <3>1, <4>0, <4>1, <5>3 DEF Announced
      <4>2. CASE IncludedIn[d] = c
        <5>1. d \in ReceiptsOf(c)
          BY <4>0, <4>2 DEF ReceiptsOf
        <5>2. found[c][DataId(d)] = NoName
          BY <2>0, <4>0 DEF NoNames
        <5>3. cache[DataId(d)] # NoName
          BY <3>1, <4>2, <5>2 DEF Announced
        <5> QED BY <2>0, <2>3, <4>0, <4>2, <5>1, <5>3
      <4> QED BY <4>1, <4>2
    <3>2. \A r \in ActionReceipts : Announced(r) => Announced(r)'
      BY <3>1 DEF Announced, OutputData
    <3>3. rcPc'[c] \notin Past
      BY <2>1 DEF Past
    <3> QED BY <1>0, <2>1, <3>2, <3>3 DEF AnnouncedInv, Receipts
  <2>5. FreshInv'
    BY <2>0, <2>1 DEF FreshInv
  <2>6. FoundInv'
    <3>1. \A r \in ReceiptsOf(c) : r \in looking'[c] <=> found'[c][KeyOf(r)] = NoName
      BY <2>0, <2>1, <2>3
    <3>2. rcPc'[c] = "publish" => looking'[c] = {}
      BY <2>1
    <3>3. rcPc'[c] \notin Past
      BY <2>1 DEF Past
    <3> HIDE DEF hits
    <3> QED BY <2>1, <3>1, <3>2, <3>3 DEF FoundInv
  <2> QED BY <2>4, <2>5, <2>6
<1>2. CASE RcQueryOutputData(c)
  <2> DEFINE hits == {d \in LookingFor(c, DataReceipts) :
                        Parent[d] \in outputRows /\ receiptRow[Parent[d]] # NoName}
             row == [d \in DataReceipts |-> receiptRow[Parent[d]]]
  <2>1. ASSUME NEW d \in hits PROVE FALSE
    <3>1. d \in ReceiptsOf(c) \cap DataReceipts /\ d \in looking[c]
          /\ Parent[d] \in outputRows /\ KeyOf(d) = DataId(d) /\ IncludedIn[d] = c
      BY ChainShape DEF LookingFor, StageInv, KeyOf, ReceiptsOf
    <3>2. found[c][DataId(d)] = NoName
      BY <1>2, <3>1 DEF FoundInv, RcQueryOutputData
    <3>3. Parent[d] \in ActionReceipts /\ d \in OutputData(Parent[d])
      BY <3>1, Roots DEF OutputData
    <3>4. cache[DataId(d)] # NoName
      BY <3>1, <3>2, <3>3 DEF AnnouncedInv, Announced
    <3>5. pc[BlockOf[c]] \in {"parents", "outcomes"} /\ rcPc[c] \notin {"off", "cache"}
      BY <1>2 DEF RcQueryOutputData, Live, Running, FreshInv, Before
    <3> QED BY <3>1, <3>4, <3>5 DEF DrainInv, DataGone
  <2>2. /\ found' = [found EXCEPT ![c] = FoundWith(c, {}, row)]
        /\ looking' = [looking EXCEPT ![c] = @ \ {}]
        /\ rcPc' = [rcPc EXCEPT ![c] = Unless(c, {}, "outcomes")]
        /\ rcPc[c] = "data" /\ Live(c) /\ UNCHANGED <<cache, outputRows, pc>>
    <3>1. hits = {}
      BY <2>1
    <3> QED BY <1>2, <3>1 DEF RcQueryOutputData, db
  <2>3. /\ rcPc'[c] \in {"data", "outcomes", "txs", "publish"}
        /\ rcPc'[c] = "publish" => {} = looking[c]
        /\ \A x \in Chunks \ {c} : rcPc'[x] = rcPc[x]
    BY <2>2 DEF Unless, TypeOK
  <2>4. /\ {} \in SUBSET (looking[c] \cap ActionReceipts) /\ \A r \in {} : row[r] # NoName
        /\ TypeOK /\ rcPc[c] \in {"data", "outcomes", "txs"} /\ Live(c)
        /\ UNCHANGED <<cache, outputRows, pc>>
    BY <2>2
  <2> HIDE DEF hits, row, CacheInv
  <2> QED BY <2>2, <2>3, <2>4, ParentsFound
<1>3. CASE RcQueryOutcomes(c)
  <2> DEFINE hits == {r \in LookingFor(c, ActionReceipts) :
                        Parent[r] \in producedRows /\ receiptRow[Parent[r]] # NoName}
             row == [r \in ActionReceipts |-> receiptRow[Parent[r]]]
  <2>1. hits \in SUBSET (looking[c] \cap ActionReceipts) /\ \A r \in hits : row[r] # NoName
    BY DEF LookingFor
  <2>2. /\ found' = [found EXCEPT ![c] = FoundWith(c, hits, row)]
        /\ looking' = [looking EXCEPT ![c] = @ \ hits]
        /\ rcPc' = [rcPc EXCEPT ![c] = Unless(c, hits, "txs")]
        /\ rcPc[c] = "outcomes" /\ Live(c) /\ UNCHANGED <<cache, outputRows, pc>>
    BY <1>3 DEF RcQueryOutcomes, db
  <2> HIDE DEF hits, row
  <2>3. /\ rcPc'[c] \in {"data", "outcomes", "txs", "publish"}
        /\ rcPc'[c] = "publish" => hits = looking[c]
        /\ \A x \in Chunks \ {c} : rcPc'[x] = rcPc[x]
    BY <2>2 DEF Unless, TypeOK
  <2>4. /\ c \in Chunks /\ TypeOK /\ AnnouncedInv /\ FreshInv /\ FoundInv
        /\ rcPc[c] \in {"data", "outcomes", "txs"} /\ Live(c)
        /\ found' = [found EXCEPT ![c] = FoundWith(c, hits, row)]
        /\ looking' = [looking EXCEPT ![c] = @ \ hits]
        /\ UNCHANGED <<cache, outputRows, pc>>
    BY <2>2
  <2> QED BY ONLY <2>1, <2>3, <2>4, ParentsFound
<1>4. CASE RcQueryTxs(c)
  <2> DEFINE hits == {r \in LookingFor(c, ActionReceipts) :
                        Parent[r] \in Txs /\ txName[Parent[r]] # NoName}
             row == [r \in ActionReceipts |-> txName[Parent[r]]]
  <2>1. hits \in SUBSET (looking[c] \cap ActionReceipts) /\ \A r \in hits : row[r] # NoName
    BY DEF LookingFor
  <2>2. /\ found' = [found EXCEPT ![c] = FoundWith(c, hits, row)]
        /\ looking' = [looking EXCEPT ![c] = @ \ hits]
        /\ rcPc' = [rcPc EXCEPT ![c] = Unless(c, hits, "data")]
        /\ rcPc[c] = "txs" /\ Live(c) /\ UNCHANGED <<cache, outputRows, pc>>
    BY <1>4 DEF RcQueryTxs, GoOn, db
  <2> HIDE DEF hits, row
  <2>3. /\ rcPc'[c] \in {"data", "outcomes", "txs", "publish"}
        /\ rcPc'[c] = "publish" => hits = looking[c]
        /\ \A x \in Chunks \ {c} : rcPc'[x] = rcPc[x]
    BY <2>2 DEF Unless, TypeOK
  <2>4. /\ c \in Chunks /\ TypeOK /\ AnnouncedInv /\ FreshInv /\ FoundInv
        /\ rcPc[c] \in {"data", "outcomes", "txs"} /\ Live(c)
        /\ found' = [found EXCEPT ![c] = FoundWith(c, hits, row)]
        /\ looking' = [looking EXCEPT ![c] = @ \ hits]
        /\ UNCHANGED <<cache, outputRows, pc>>
    BY <2>2
  <2> QED BY ONLY <2>1, <2>3, <2>4, ParentsFound
<1>5. CASE RcPublish(c)
  <2>1. cache' = WithOutputData(c)
    BY <1>5, CacheTypes, NothingEvicted DEF RcPublish
  <2>2. /\ UNCHANGED <<looking, found, outputRows, pc>>
        /\ rcPc[c] = "publish" /\ rcPc'[c] = "insert"
        /\ \A x \in Chunks \ {c} : rcPc'[x] = rcPc[x]
    BY <1>5 DEF RcPublish, db, TypeOK
  <2>3. ASSUME NEW d \in DataReceipts
        PROVE  /\ cache[DataId(d)] # NoName => cache'[DataId(d)] # NoName
               /\ IncludedIn[Parent[d]] = c /\ found[c][ReceiptId(Parent[d])] # NoName
                  => cache'[DataId(d)] # NoName
    <3>1. DataId(d) \in Keys /\ DataId(d)[2] = d
      BY KeyParts
    <3>2. \A e \in DataReceipts : DataId(d) = DataId(e) => e = d
      BY KeyKinds
    <3> QED BY <2>1, <3>1, <3>2 DEF WithOutputData
  <2>4. AnnouncedInv'
    <3>1. \A r \in ActionReceipts : Announced(r) => Announced(r)'
      BY <2>2, <2>3 DEF Announced, OutputData
    <3>2. \A r \in ActionReceipts :
             IncludedIn[r] = c /\ found[c][ReceiptId(r)] # NoName => Announced(r)'
      BY <2>3 DEF Announced, OutputData
    <3> QED BY <1>0, <2>2, <3>1, <3>2 DEF AnnouncedInv, Receipts
  <2>5. FreshInv'
    BY <2>2 DEF FreshInv
  <2>6. FoundInv'
    BY <2>2 DEF FoundInv
  <2> QED BY <2>4, <2>5, <2>6
<1>6. CASE RcInsertOutputData(c)
  <2>1. /\ UNCHANGED <<cache, looking, found, pc>>
        /\ rcPc[c] = "output" /\ rcPc'[c] \in {"details", "off"}
        /\ \A x \in Chunks \ {c} : rcPc'[x] = rcPc[x]
    BY <1>6 DEF RcInsertOutputData, TypeOK, After
  <2>2. \A r \in outputRows' \ outputRows :
           IncludedIn[r] = c /\ r \in ActionReceipts /\ found[c][ReceiptId(r)] # NoName
    BY <1>6 DEF RcInsertOutputData, Resolved, Skipped, ReceiptsOf, KeyOf
  <2>3. \A r \in ActionReceipts : Announced(r)' = Announced(r)
    BY <2>1 DEF Announced, OutputData
  <2>4. AnnouncedInv'
    BY <1>0, <2>1, <2>2, <2>3 DEF AnnouncedInv, Past, Receipts
  <2>5. FreshInv'
    BY <2>1 DEF FreshInv
  <2>6. FoundInv'
    BY <2>1 DEF FoundInv, Past
  <2> QED BY <2>4, <2>5, <2>6
<1>7. CASE RcInsert(c) \/ RcInsertDetails(c) \/ RcGivesUp(c) \/ RcFails(c)
  <2>1. /\ UNCHANGED <<cache, looking, found, outputRows>>
        /\ pc' = pc \/ Err(BlockOf[c])
        /\ \A x \in Chunks : \/ rcPc'[x] \in {rcPc[x], "off"}
                             \/ rcPc[x] \in Past /\ rcPc'[x] \in Past
    BY <1>7 DEF RcInsert, RcInsertDetails, RcGivesUp, RcFails, After, Past, TypeOK, db
  <2>2. \A x \in Chunks : pc'[BlockOf[x]] \in Before => pc[BlockOf[x]] \in Before
    BY <2>1, ChainTypes DEF Err, TypeOK, Before
  <2> QED BY <2>1, <2>2, NothingSearched
<1> QED BY <1>1, <1>2, <1>3, <1>4, <1>5, <1>6, <1>7 DEF RcStep

(* The steps of the other parts of a handler.                              *)
LEMMA OtherStepSkip ==
    ASSUME RoomForAll, CacheInv, AnnouncedInv, FreshInv, FoundInv,
           \/ \E b \in Blocks : BlockStep(b) \/ BlockFails(b)
           \/ \E c \in Chunks : TxStep(c) \/ TxFails(c) \/ OutStep(c) \/ OutFails(c)
    PROVE  AnnouncedInv' /\ FreshInv' /\ FoundInv'
<1> USE DEF CacheInv
<1>1. ASSUME NEW b \in Blocks, BlockStep(b) \/ BlockFails(b)
      PROVE  AnnouncedInv' /\ FreshInv' /\ FoundInv'
  <2>1. cache' = cache /\ outputRows' = outputRows
    BY <1>1 DEF BlockStep, BlockFails, Start, StoreBlock, StoreChunks, TxCollect,
          ParentsStored, Finish, db
  <2>2. CASE StoreChunks(b)
    <3>1. /\ \A x \in Chunks : BlockOf[x] = b =>
                /\ looking'[x] = ReceiptsOf(x) /\ pc'[BlockOf[x]] = "parents"
                /\ rcPc'[x] = IF ReceiptsOf(x) = {} THEN "done" ELSE "cache"
          /\ \A x \in Chunks : BlockOf[x] # b =>
                /\ looking'[x] = looking[x] /\ pc'[BlockOf[x]] = pc[BlockOf[x]]
                /\ rcPc'[x] = rcPc[x]
      BY <2>2, ChainTypes DEF StoreChunks, OnBlock, TypeOK
    <3>2. \A x \in Chunks : /\ found'[x] = found[x]
                            /\ BlockOf[x] = b => found[x] = NoNames
      BY <2>2 DEF StoreChunks, OnBlock, TypeOK, FreshInv, Before
    <3>3. \A r \in ActionReceipts : Announced(r)' = Announced(r)
      <4>1. \A d \in DataReceipts : IncludedIn[d] \in Chunks
        BY ChainShape DEF Receipts
      <4> QED BY <2>1, <3>2, <4>1 DEF Announced, OutputData
    <3>4. AnnouncedInv'
      <4>1. ASSUME NEW r \in ActionReceipts, BlockOf[IncludedIn[r]] = b
            PROVE  rcPc'[IncludedIn[r]] \notin Past
        <5>1. IncludedIn[r] \in Chunks /\ r \in ReceiptsOf(IncludedIn[r])
          BY ChainShape DEF ReceiptsOf, Receipts
        <5> QED BY <3>1, <4>1, <5>1 DEF Past
      <4>2. \A r \in ActionReceipts : IncludedIn[r] \in Chunks
        BY ChainShape DEF Receipts
      <4> QED BY <2>1, <3>1, <3>2, <3>3, <4>1, <4>2 DEF AnnouncedInv
    <3>5. FreshInv'
      BY <3>1, <3>2 DEF FreshInv, Before
    <3>6. FoundInv'
      BY <3>1, <3>2 DEF FoundInv, Past
    <3> QED BY <3>4, <3>5, <3>6
  <2>3. CASE ~StoreChunks(b)
    <3>1. UNCHANGED rcs
      BY <1>1, <2>3 DEF BlockStep, BlockFails, Start, StoreBlock, TxCollect,
            ParentsStored, Finish
    <3>2. \A x \in Blocks : pc'[x] \in Before => pc[x] \in Before
      BY <1>1, <2>3 DEF BlockStep, BlockFails, Start, StoreBlock, TxCollect,
            ParentsStored, Finish, Err, TypeOK, Before, TurnInv
    <3> QED BY <2>1, <3>1, <3>2, ChainTypes, NothingSearched DEF rcs
  <2> QED BY <2>2, <2>3
<1>2. ASSUME NEW c \in Chunks, TxStep(c) \/ TxFails(c) \/ OutStep(c) \/ OutFails(c)
      PROVE  AnnouncedInv' /\ FreshInv' /\ FoundInv'
  <2>1. UNCHANGED <<rcs, outputRows>> /\ (pc' = pc \/ Err(BlockOf[c]))
    BY <1>2 DEF TxStep, TxFails, OutStep, OutFails, TxCache, TxInsert, TxInsertActions,
          OutCache, OutInsert, OutInsertProduced, OutGivesUp, db
  <2>2. \A x \in Chunks : pc'[BlockOf[x]] \in Before => pc[BlockOf[x]] \in Before
    BY <2>1, ChainTypes DEF Err, TypeOK, Before
  <2>3. ASSUME NEW d \in DataReceipts PROVE cache'[DataId(d)] = cache[DataId(d)]
    <3>1. DataId(d) \in Keys /\ \A r \in Receipts : DataId(d) # ReceiptId(r)
      BY KeyParts, KeyKinds
    <3>2. CASE TxCache(c)
      <4>1. cache' = WithTxs(c)
        BY <3>2, CacheTypes, NothingEvicted DEF TxCache
      <4> QED BY <3>1, <4>1 DEF WithTxs, Receipts
    <3>3. CASE OutCache(c)
      <4>1. cache' = WithOutcomes(c)
        BY <3>3, CacheTypes, NothingEvicted DEF OutCache
      <4> QED BY <3>1, <4>1 DEF WithOutcomes, Receipts, ExecutedBy
    <3>4. CASE ~TxCache(c) /\ ~OutCache(c)
      BY <1>2, <3>4 DEF TxStep, TxFails, OutStep, OutFails, TxInsert, TxInsertActions,
            OutInsert, OutInsertProduced, OutGivesUp
    <3> QED BY <3>2, <3>3, <3>4
  <2> QED BY <2>1, <2>2, <2>3, NothingSearched DEF rcs
<1> QED BY <1>1, <1>2

LEMMA SkipInductive ==
    ASSUME OneHandler, StrictMode, RoomForAll
    PROVE  /\ Init => SkipInv
           /\ SkipInv /\ [Next]_vars => SkipInv'
<1>1. Init => SkipInv
  <2> SUFFICES ASSUME Init PROVE AnnouncedInv /\ FreshInv /\ FoundInv
    BY CacheInductive DEF SkipInv
  <2>1. \A r \in ActionReceipts : IncludedIn[r] \in Chunks
    BY ChainShape DEF Receipts
  <2> QED BY <2>1 DEF Init, AnnouncedInv, FreshInv, FoundInv, Past
<1>2. SkipInv /\ [Next]_vars => SkipInv'
  <2> SUFFICES ASSUME SkipInv, [Next]_vars, crashes' = 0
               PROVE  AnnouncedInv' /\ FreshInv' /\ FoundInv'
    BY CacheInductive DEF SkipInv
  <2>1. crashes = 0 /\ ~ \E h \in Blocks : Restart(h)
    <3>1. crashes \in Nat
      BY DEF SkipInv, CacheInv, TypeOK
    <3>2. crashes' = crashes \/ \E h \in Blocks : Restart(h)
      BY DEF Next, BlockStep, BlockFails, ChunkStep, TxStep, RcStep, OutStep, Start,
            StoreBlock, StoreChunks, TxCollect, ParentsStored, Finish, TxCache,
            TxInsert, TxInsertActions, TxFails, RcCache, RcQueryOutputData,
            RcQueryOutcomes, RcQueryTxs, RcPublish, RcInsert, RcInsertOutputData,
            RcInsertDetails, RcGivesUp, RcFails, OutCache, OutInsert,
            OutInsertProduced, OutGivesUp, OutFails, Fault, StreamEnds, vars, limits
    <3>3. \A h \in Blocks : Restart(h) => crashes' = crashes + 1
      BY DEF Restart
    <3> QED BY <3>1, <3>2, <3>3
  <2>2. CacheInv /\ AnnouncedInv /\ FreshInv /\ FoundInv
    BY <2>1 DEF SkipInv
  <2>3. CASE UNCHANGED vars
    BY <2>2, <2>3, NothingSearched DEF vars, db, rcs
  <2>4. CASE \E b \in Blocks : BlockStep(b) \/ BlockFails(b)
    BY <2>2, <2>4, OtherStepSkip
  <2>5. CASE \E c \in Chunks : ChunkStep(c) \/ TxFails(c) \/ RcFails(c) \/ OutFails(c)
    BY <2>2, <2>5, OtherStepSkip, RcStepSkip DEF ChunkStep
  <2> QED BY <2>1, <2>3, <2>4, <2>5 DEF Next, StreamEnds
<1> QED BY <1>1, <1>2

(* A strict handler that runs alone, with a cache that never evicts, skips *)
(* no receipt as long as the process lives: whatever fails, it either      *)
(* finds the parent of every receipt or does not end.                      *)
THEOREM NothingIsSkipped ==
    OneHandler /\ RoomForAll => (Spec => []NothingSkipped)
<1>1. CASE StrictMode
  <2> SUFFICES ASSUME OneHandler, RoomForAll PROVE Spec => []NothingSkipped
    OBVIOUS
  <2>1. SkipInv => NothingSkipped
    <3> SUFFICES ASSUME SkipInv, crashes = 0, NEW c \in Chunks, rcPc[c] \in Past
                 PROVE  Skipped(c) = {}
      BY DEF NothingSkipped, Past
    <3> QED BY DEF SkipInv, FoundInv, Past, Skipped
  <2> QED BY <1>1, <2>1, SkipInductive, PTL DEF Spec
<1>2. CASE ~StrictMode
  <2>1. NothingSkipped
    BY <1>2 DEF NothingSkipped
  <2> QED BY <2>1, PTL
<1> QED BY <1>1, <1>2
=============================================================================
